------------------------ MODULE DebugObserversProofs ------------------------
(***************************************************************************)
(* Theorems about DebugObservers, for any connections, client ids, events  *)
(* and number of services: TypeCorrect, GhostFree, ServedCorrect,          *)
(* SentCorrect, RawCorrect and EventsCorrect.                              *)
(***************************************************************************)
EXTENDS DebugObservers, FiniteSetTheorems, TLAPS

(* What every registration satisfies: it is in a service that has been made*)
(* by the time of its connection's last look-up, under the client id of its*)
(* connection, and it sends bare data if the last message of its connection*)
(* came to that service. Connections that have not been opened are nowhere.*)
RegInv ==
    /\ \A s \in Services, i \in Clients :
          Registered(s, i) => LET o == observer[s][i]
                              IN  /\ s <= svc[o.conn]
                                  /\ client[o.conn] = i
                                  /\ spoke[o.conn] = s => o.kind = "raw"
    /\ \A c \in Conns : IF cpc[c] = "idle" THEN client[c] = None /\ svc[c] = 0
                                           ELSE client[c] \in Clients /\ svc[c] # 0
    /\ \A c \in Conns : /\ cpc[c] \in {"idle", "connect"} => home[c] = 0 /\ spoke[c] = 0
                        /\ home[c] <= svc[c] /\ spoke[c] <= svc[c]

(* OneIsServed of every service, also of those that have been replaced.    *)
ServedAt(s, i) ==
    /\ \E c \in Sharers(i) : home[c] = s
    /\ \A c \in Sharers(i) : cpc[c] # "closed"
    => Registered(s, i) /\ observer[s][i].conn \in Sharers(i)

ServedInv == \A s \in Services, i \in Clients : ServedAt(s, i)

ObsInv == TypeOK /\ RegInv /\ NoGhost /\ ServedInv

(* An event is on its way to a connection, or there, in one form at most,  *)
(* and only after it was traced.                                           *)
FlightInv ==
    /\ \A f, g \in flights : f.event = g.event /\ f.conn = g.conn => f = g
    /\ \A c \in Conns : \A m, n \in got[c] : m.event = n.event => m = n
    /\ \A f \in flights : \A m \in got[f.conn] : m.event # f.event
    /\ \A f \in flights : traced[f.event] # 0
    /\ \A c \in Conns : \A m \in got[c] : traced[m.event] # 0

SentInv == ObsInv /\ FlightInv

-----------------------------------------------------------------------------
LEMMA ObsInit == Init => SentInv
  <1> SUFFICES ASSUME Init PROVE SentInv
    OBVIOUS
  <1>1. TypeOK
    BY DebugObserversAssumption DEF Init, TypeOK, Services
  <1>2. RegInv /\ NoGhost
    BY DebugObserversAssumption DEF Init, RegInv, NoGhost, Registered, Services
  <1>3. ServedInv
    BY DebugObserversAssumption DEF Init, ServedInv, ServedAt, Sharers, Services
  <1>4. FlightInv
    BY DEF Init, FlightInv
  <1>5. QED
    BY <1>1, <1>2, <1>3, <1>4 DEF SentInv, ObsInv

(* A registered callback is one, of a connection that has been opened.     *)
LEMMA RegFacts ==
    ASSUME ObsInv, NEW s \in Services, NEW i \in Clients, Registered(s, i)
    PROVE  /\ observer[s][i] \in Callbacks /\ observer[s][i].conn \in Conns
           /\ client[observer[s][i].conn] = i /\ cpc[observer[s][i].conn] # "idle"
           /\ s <= svc[observer[s][i].conn]
           /\ spoke[observer[s][i].conn] = s => observer[s][i].kind = "raw"
  <1>1. observer[s][i] \in Callbacks
    BY DEF ObsInv, TypeOK, Registered
  <1>2. observer[s][i].conn \in Conns
    BY <1>1 DEF Callbacks
  <1>3. QED
    BY <1>1, <1>2, DebugObserversAssumption DEF ObsInv, RegInv

LEMMA SvcFacts ==
    ASSUME ObsInv, NEW c \in Conns
    PROVE  /\ svc[c] \in 0..current /\ home[c] \in 0..current /\ spoke[c] \in 0..current
           /\ current \in Services /\ current \in Nat
           /\ cpc[c] # "idle" => svc[c] \in Services
  <1>1. /\ svc[c] \in 0..current /\ home[c] \in 0..current /\ spoke[c] \in 0..current
        /\ current \in 1..MaxService /\ MaxService \in Nat
    BY DebugObserversAssumption DEF ObsInv, TypeOK, Services
  <1>2. cpc[c] # "idle" => svc[c] # 0
    BY DEF ObsInv, RegInv
  <1>3. QED
    BY <1>1, <1>2 DEF Services

(* A connection registers, in the service it looked up and under its own   *)
(* id: it takes the place of whoever has the id there, and is open.        *)
LEMMA AddObs ==
    ASSUME ObsInv, NEW c \in Conns, Connect(c) \/ Message(c)
    PROVE  ObsInv'
  <1> DEFINE i == client[c]
             z == svc[c]
  <1>1. PICK k \in {"json", "raw"} :
           /\ observer' = [observer EXCEPT ![z][i] = [conn |-> c, kind |-> k]]
           /\ \/ cpc[c] = "connect" /\ spoke' = spoke
              \/ cpc[c] = "message" /\ k = "raw" /\ spoke' = [spoke EXCEPT ![c] = z]
    BY DEF Connect, Message, Add
  <1>2. /\ UNCHANGED <<current, client, svc, away, traced, flights, got>>
        /\ home' = [home EXCEPT ![c] = z] /\ cpc' = [cpc EXCEPT ![c] = "open"]
    BY DEF Connect, Message, Add
  <1>3. i \in Clients /\ z \in Services /\ z \in 0..current
    BY <1>1, SvcFacts DEF ObsInv, RegInv
  <1> DEFINE o == [conn |-> c, kind |-> k]
  <1>4. o \in Callbacks /\ o # None /\ o.conn = c /\ o.kind = k
    BY DebugObserversAssumption DEF Callbacks
  <1>5. observer' \in [Services -> [Clients -> Callbacks \cup {None}]]
    BY <1>1, <1>3, <1>4 DEF ObsInv, TypeOK
  <1>6. spoke' \in [Conns -> 0..current] /\ home' \in [Conns -> 0..current]
    BY <1>1, <1>2, <1>3 DEF ObsInv, TypeOK
  <1>7. TypeOK'
    BY <1>2, <1>5, <1>6 DEF ObsInv, TypeOK
  <1>8. /\ observer'[z][i] = o
        /\ \A s \in Services, j \in Clients :
              <<s, j>> # <<z, i>> => observer'[s][j] = observer[s][j]
    BY <1>1, <1>3 DEF ObsInv, TypeOK
  <1> HIDE DEF o
  <1>9. \A d \in Conns : /\ cpc'[d] = IF d = c THEN "open" ELSE cpc[d]
                         /\ home'[d] = IF d = c THEN z ELSE home[d]
                         /\ d # c => spoke'[d] = spoke[d]
    BY <1>1, <1>2 DEF ObsInv, TypeOK
  <1>10. /\ cpc[c] \in {"connect", "message"}
         /\ \/ cpc[c] = "connect" /\ spoke'[c] = 0
            \/ k = "raw" /\ spoke'[c] = z
    BY <1>1 DEF ObsInv, TypeOK, RegInv
  <1>11. RegInv'
    <2>1. ASSUME NEW s \in Services, NEW j \in Clients, Registered(s, j)'
          PROVE  /\ s <= svc[observer'[s][j].conn] /\ client[observer'[s][j].conn] = j
                 /\ spoke'[observer'[s][j].conn] = s => observer'[s][j].kind = "raw"
      <3>1. CASE s = z /\ j = i
        <4>1. z <= svc[c] /\ z # 0
          BY <1>3 DEF Services
        <4>2. QED
          BY <1>4, <1>8, <1>10, <3>1, <4>1
      <3>2. CASE <<s, j>> # <<z, i>>
        <4>1. observer'[s][j] = observer[s][j] /\ Registered(s, j)
          BY <1>8, <2>1, <3>2 DEF Registered
        <4>2. CASE observer[s][j].conn = c
          <5>1. j = i /\ s # z
            BY <3>2, <4>1, <4>2, RegFacts
          <5>2. s # 0
            BY DEF Services
          <5>3. QED
            BY <1>10, <4>1, <4>2, <5>1, <5>2, RegFacts
        <4>3. CASE observer[s][j].conn # c
          BY <1>9, <4>1, <4>3, RegFacts
        <4>4. QED
          BY <4>2, <4>3
      <3>3. QED
        BY <3>1, <3>2
    <2>2. \A d \in Conns : IF cpc'[d] = "idle" THEN client[d] = None /\ svc[d] = 0
                                               ELSE client[d] \in Clients /\ svc[d] # 0
      BY <1>9, <1>10 DEF ObsInv, RegInv
    <2>3. ASSUME NEW d \in Conns
          PROVE  /\ cpc'[d] \in {"idle", "connect"} => home'[d] = 0 /\ spoke'[d] = 0
                 /\ home'[d] <= svc[d] /\ spoke'[d] <= svc[d]
      <3>1. z <= svc[c] /\ 0 <= svc[c]
        BY <1>3 DEF Services
      <3>2. CASE d = c
        BY <1>9, <1>10, <3>1, <3>2
      <3>3. CASE d # c
        BY <1>9, <3>3 DEF ObsInv, RegInv
      <3>4. QED
        BY <3>2, <3>3
    <2>4. QED
      BY <1>2, <2>1, <2>2, <2>3 DEF RegInv
  <1>12. NoGhost'
    <2> SUFFICES ASSUME NEW j \in Clients, Registered(current, j)'
                 PROVE  cpc'[observer'[current][j].conn] \notin {"idle", "closed"}
      BY <1>2 DEF NoGhost
    <2>1. CASE current = z /\ j = i
      BY <2>1, <1>4, <1>8, <1>9
    <2>2. CASE <<current, j>> # <<z, i>>
      <3>1. current \in Services
        BY SvcFacts
      <3>2. observer'[current][j] = observer[current][j] /\ Registered(current, j)
        BY <1>2, <1>8, <2>2, <3>1 DEF Registered
      <3>3. cpc[observer[current][j].conn] \notin {"idle", "closed"}
        BY <3>2 DEF ObsInv, NoGhost
      <3>4. QED
        BY <1>9, <3>1, <3>2, <3>3, RegFacts
    <2>3. QED
      BY <2>1, <2>2
  <1>13. ServedInv'
    <2> SUFFICES ASSUME NEW s \in Services, NEW j \in Clients PROVE ServedAt(s, j)'
      BY DEF ServedInv
    <2>1. Sharers(j)' = Sharers(j)
      BY <1>2 DEF Sharers
    <2>2. CASE s = z /\ j = i
      BY <1>4, <1>8, <2>1, <2>2 DEF ServedAt, Registered, Sharers
    <2>3. CASE <<s, j>> # <<z, i>>
      <3>1. \A d \in Sharers(j) : /\ home'[d] = s => home[d] = s
                                  /\ cpc'[d] # "closed" => cpc[d] # "closed"
        BY <1>9, <1>10, <2>3 DEF Sharers
      <3>2. observer'[s][j] = observer[s][j]
        BY <1>8, <2>3
      <3>3. ServedAt(s, j)
        BY DEF ObsInv, ServedInv
      <3>4. QED
        BY <2>1, <3>1, <3>2, <3>3 DEF ServedAt, Registered
    <2>4. QED
      BY <2>2, <2>3
  <1>14. QED
    BY <1>7, <1>11, <1>12, <1>13 DEF ObsInv

(* A connection looks the service up, for whatever it does next.           *)
LEMMA LookUpObs ==
    ASSUME ObsInv, NEW c \in Conns,
           (\E i \in Clients : Come(c, i)) \/ Speak(c) \/ Leave(c)
    PROVE  ObsInv'
  <1>1. /\ UNCHANGED <<current, observer, away, traced, flights, got, home, spoke>>
        /\ svc' = [svc EXCEPT ![c] = current]
    BY DEF Come, Speak, Leave, LookUp
  <1>2. PICK p \in {"connect", "message", "disconnect"} :
           /\ cpc' = [cpc EXCEPT ![c] = p] /\ cpc[c] \in {"idle", "open"}
           /\ p = "connect" <=> cpc[c] = "idle"
    BY DEF Come, Speak, Leave
  <1>3. PICK i \in Clients : client' = [client EXCEPT ![c] = i]
                             /\ (cpc[c] # "idle" => client[c] = i)
    <2>1. CASE cpc[c] = "idle"
      BY <2>1 DEF Come, Speak, Leave
    <2>2. CASE cpc[c] # "idle"
      <3>1. client' = client /\ client[c] \in Clients
        BY <2>2 DEF Come, Speak, Leave, ObsInv, RegInv
      <3>2. client = [client EXCEPT ![c] = client[c]]
        BY DEF ObsInv, TypeOK
      <3>3. QED
        BY <3>1, <3>2
    <2>3. QED
      BY <2>1, <2>2
  <1>4. current \in Services /\ current \in Nat /\ current # 0 /\ svc[c] <= current
    BY SvcFacts DEF Services
  <1>5. TypeOK'
    BY <1>1, <1>2, <1>3, <1>4 DEF ObsInv, TypeOK
  <1>6. \A d \in Conns : /\ cpc'[d] = IF d = c THEN p ELSE cpc[d]
                         /\ svc'[d] = IF d = c THEN current ELSE svc[d]
                         /\ client'[d] = IF d = c THEN i ELSE client[d]
    BY <1>1, <1>2, <1>3 DEF ObsInv, TypeOK
  <1>7. ASSUME NEW s \in Services, NEW j \in Clients, Registered(s, j)
        PROVE  /\ client'[observer[s][j].conn] = j /\ s <= svc'[observer[s][j].conn]
               /\ cpc'[observer[s][j].conn] # "idle"
               /\ spoke[observer[s][j].conn] = s => observer[s][j].kind = "raw"
    <2>1. /\ observer[s][j].conn \in Conns /\ client[observer[s][j].conn] = j
          /\ cpc[observer[s][j].conn] # "idle" /\ s <= svc[observer[s][j].conn]
          /\ spoke[observer[s][j].conn] = s => observer[s][j].kind = "raw"
      BY <1>7, RegFacts
    <2>2. svc[c] \in Nat /\ s \in Nat
      BY SvcFacts DEF Services
    <2>3. QED
      BY <1>2, <1>3, <1>4, <1>6, <2>1, <2>2
  <1>8. RegInv'
    <2>1. ASSUME NEW d \in Conns
          PROVE  /\ IF cpc'[d] = "idle" THEN client'[d] = None /\ svc'[d] = 0
                                        ELSE client'[d] \in Clients /\ svc'[d] # 0
                 /\ cpc'[d] \in {"idle", "connect"} => home[d] = 0 /\ spoke[d] = 0
      BY <1>2, <1>4, <1>6 DEF ObsInv, RegInv
    <2>2. ASSUME NEW d \in Conns PROVE home[d] <= svc'[d] /\ spoke[d] <= svc'[d]
      <3>1. home[d] <= current /\ spoke[d] <= current
        BY SvcFacts
      <3>2. QED
        BY <1>6, <3>1 DEF ObsInv, RegInv
    <2>3. QED
      BY <1>1, <1>7, <2>1, <2>2 DEF RegInv, Registered
  <1>9. NoGhost'
    <2> SUFFICES ASSUME NEW j \in Clients, Registered(current, j)
                 PROVE  cpc'[observer[current][j].conn] \notin {"idle", "closed"}
      BY <1>1 DEF NoGhost, Registered
    <2>1. cpc[observer[current][j].conn] \notin {"idle", "closed"}
      BY DEF ObsInv, NoGhost
    <2>2. observer[current][j].conn \in Conns
      BY <1>4, RegFacts
    <2>3. QED
      BY <1>2, <1>6, <2>1, <2>2
  <1>10. ServedInv'
    <2> SUFFICES ASSUME NEW s \in Services, NEW j \in Clients PROVE ServedAt(s, j)'
      BY DEF ServedInv
    <2> SUFFICES ASSUME NEW d \in Sharers(j)', home[d] = s,
                        \A e \in Sharers(j)' : cpc'[e] # "closed"
                 PROVE  /\ Registered(s, j)
                        /\ observer[s][j].conn \in Sharers(j)'
      BY <1>1 DEF ServedAt, Registered
    <2>1. Sharers(j) \subseteq Sharers(j)'
      BY <1>2, <1>3, <1>6, DebugObserversAssumption DEF Sharers, ObsInv, RegInv
    <2>2. d \in Sharers(j)
      <3>1. d \in Conns /\ client'[d] = j /\ s # 0
        BY DEF Sharers, Services
      <3>2. cpc[d] # "idle"
        BY <3>1 DEF ObsInv, RegInv
      <3>3. client[d] = j
        BY <1>3, <1>6, <3>1, <3>2
      <3>4. QED
        BY <3>1, <3>3 DEF Sharers
    <2>3. \A e \in Sharers(j) : cpc[e] # "closed"
      BY <1>2, <1>6, <2>1 DEF Sharers
    <2>4. Registered(s, j) /\ observer[s][j].conn \in Sharers(j)
      BY <2>2, <2>3 DEF ObsInv, ServedInv, ServedAt
    <2>5. QED
      BY <2>1, <2>4
  <1>11. QED
    BY <1>5, <1>8, <1>9, <1>10 DEF ObsInv

(* The disconnect takes away what is under the id, which is all that the   *)
(* connection can have in the service in use.                              *)
LEMMA DisconnectObs ==
    ASSUME ObsInv, NEW c \in Conns, Disconnect(c)
    PROVE  ObsInv'
  <1> DEFINE i == client[c]
             z == svc[c]
  <1>1. /\ i \in Clients /\ current \in Services /\ z \in Services
        /\ z <= current /\ current \in Nat /\ z \in Nat
    BY SvcFacts DEF Disconnect, ObsInv, RegInv, TypeOK, Services
  <1>2. /\ observer' = [observer EXCEPT ![z][i] = None] /\ cpc[c] = "disconnect"
        /\ UNCHANGED <<current, client, svc, away, traced, flights, got, home, spoke>>
    BY DEF Disconnect, Remove
  <1>3. \A d \in Conns : cpc'[d] = IF d = c THEN "closed" ELSE cpc[d]
    BY DEF Disconnect, ObsInv, TypeOK
  <1>4. observer' \in [Services -> [Clients -> Callbacks \cup {None}]]
    BY <1>1, <1>2 DEF ObsInv, TypeOK
  <1>5. TypeOK'
    BY <1>2, <1>4 DEF Disconnect, ObsInv, TypeOK
  <1>6. \A s \in Services, j \in Clients :
           observer'[s][j] = IF s = z /\ j = i THEN None ELSE observer[s][j]
    BY <1>1, <1>2 DEF ObsInv, TypeOK
  <1>7. \A s \in Services, j \in Clients :
           Registered(s, j)' => Registered(s, j) /\ observer'[s][j] = observer[s][j]
    BY <1>6 DEF Registered
  <1>8. RegInv'
    <2>1. \A d \in Conns : /\ cpc'[d] = "idle" <=> cpc[d] = "idle"
                           /\ cpc'[d] = "connect" => cpc[d] = "connect"
      BY <1>2, <1>3
    <2>2. QED
      BY <1>2, <1>7, <2>1 DEF ObsInv, RegInv
  <1>9. NoGhost'
    <2> SUFFICES ASSUME NEW j \in Clients, Registered(current, j)'
                 PROVE  cpc'[observer'[current][j].conn] \notin {"idle", "closed"}
      BY <1>2 DEF NoGhost
    <2>1. observer'[current][j] = observer[current][j] /\ Registered(current, j)
      BY <1>1, <1>2, <1>7 DEF Registered
    <2>2. /\ observer[current][j].conn \in Conns
          /\ client[observer[current][j].conn] = j
          /\ current <= svc[observer[current][j].conn]
      BY <1>1, <2>1, RegFacts
    <2>3. cpc[observer[current][j].conn] \notin {"idle", "closed"}
      BY <2>1 DEF ObsInv, NoGhost
    <2>4. observer[current][j].conn # c
      <3> SUFFICES ASSUME observer[current][j].conn = c PROVE FALSE
        OBVIOUS
      <3>1. j = i /\ z = current
        BY <1>1, <2>2
      <3>2. observer'[current][j] = None
        BY <1>1, <1>6, <3>1
      <3>3. QED
        BY <1>2, <3>2 DEF Registered
    <2>5. QED
      BY <1>3, <2>1, <2>2, <2>3, <2>4
  <1>10. ServedInv'
    <2> SUFFICES ASSUME NEW s \in Services, NEW j \in Clients PROVE ServedAt(s, j)'
      BY DEF ServedInv
    <2>1. Sharers(j)' = Sharers(j)
      BY <1>2 DEF Sharers
    <2>2. CASE j = i
      <3>1. c \in Sharers(j) /\ cpc'[c] = "closed"
        BY <1>3, <2>2 DEF Sharers
      <3>2. QED
        BY <2>1, <3>1 DEF ServedAt
    <2>3. CASE j # i
      <3>1. observer'[s][j] = observer[s][j]
        BY <1>6, <2>3
      <3>2. \A d \in Sharers(j) : cpc'[d] = cpc[d]
        BY <1>3, <2>3 DEF Sharers
      <3>3. ServedAt(s, j)
        BY DEF ObsInv, ServedInv
      <3>4. QED
        BY <1>2, <2>1, <3>1, <3>2, <3>3 DEF ServedAt, Registered
    <2>4. QED
      BY <2>2, <2>3
  <1>11. QED
    BY <1>5, <1>8, <1>9, <1>10 DEF ObsInv

(* A service that replaces another starts with no callbacks.               *)
LEMMA ReplaceObs == ASSUME ObsInv, Replace PROVE ObsInv'
  <1>1. /\ current \in Services /\ current' \in Services /\ current' = current + 1
        /\ current \in Nat /\ MaxService \in Nat
    BY DebugObserversAssumption DEF Replace, ObsInv, TypeOK, Services
  <1>2. UNCHANGED <<observer, cpc, client, svc, away, traced, flights, got, home, spoke>>
    BY DEF Replace
  <1>3. TypeOK'
    <2>1. \A n \in 0..current : n \in 0..current'
      BY <1>1
    <2>2. /\ traced \in [Events -> 0..current'] /\ home \in [Conns -> 0..current']
          /\ spoke \in [Conns -> 0..current'] /\ svc \in [Conns -> 0..current']
      BY <2>1 DEF ObsInv, TypeOK
    <2>3. QED
      BY <1>1, <1>2, <2>2 DEF ObsInv, TypeOK
  <1>4. RegInv' /\ ServedInv'
    BY <1>2 DEF ObsInv, RegInv, ServedInv, ServedAt, Sharers, Registered
  <1>5. \A i \in Clients : ~Registered(current', i)
    <2> SUFFICES ASSUME NEW i \in Clients, Registered(current', i) PROVE FALSE
      OBVIOUS
    <2>1. /\ observer[current'][i].conn \in Conns
          /\ current' <= svc[observer[current'][i].conn]
      BY <1>1, RegFacts
    <2>2. svc[observer[current'][i].conn] \in 0..current
      BY <2>1, SvcFacts
    <2>3. QED
      BY <1>1, <2>1, <2>2
  <1>6. NoGhost'
    BY <1>2, <1>5 DEF NoGhost, Registered
  <1>7. QED
    BY <1>3, <1>4, <1>6 DEF ObsInv

(* Peers that leave, tracing and writing leave the registrations alone.    *)
LEMMA RestObs ==
    ASSUME ObsInv, TypeOK', UNCHANGED <<current, observer, cpc, client, svc, home, spoke>>
    PROVE  ObsInv'
  BY DEF ObsInv, RegInv, NoGhost, ServedInv, ServedAt, Sharers, Registered

LEMMA OnDebugType ==
    ASSUME ObsInv, NEW e \in Events, NEW s \in Services, OnDebug(e, s)
    PROVE  TypeOK'
  <1>1. \A o \in {observer[s][i] : i \in Clients} \ {None} : o \in Callbacks
    BY DEF ObsInv, TypeOK
  <1>2. flights' \subseteq Flights
    BY <1>1 DEF OnDebug, ObsInv, TypeOK, Flights, Callbacks
  <1>3. traced' \in [Events -> 0..current]
    BY DEF OnDebug, ObsInv, TypeOK, Services
  <1>4. QED
    BY <1>2, <1>3 DEF OnDebug, ObsInv, TypeOK

LEMMA WriteType ==
    ASSUME ObsInv, NEW f \in Flights, Write(f)
    PROVE  TypeOK'
  <1>1. [event |-> f.event, kind |-> f.kind] \in [event: Events, kind: {"json", "raw"}]
    BY DEF Flights
  <1>2. got' \in [Conns -> SUBSET [event: Events, kind: {"json", "raw"}]]
    BY <1>1 DEF Write, ObsInv, TypeOK, Flights
  <1>3. QED
    BY <1>2 DEF Write, ObsInv, TypeOK

LEMMA ObsNext == ObsInv /\ [Next]_vars => ObsInv'
  <1> SUFFICES ASSUME ObsInv, [Next]_vars PROVE ObsInv'
    OBVIOUS
  <1>1. CASE UNCHANGED vars
    <2>1. TypeOK'
      BY <1>1 DEF vars, ObsInv, TypeOK
    <2>2. QED
      BY <1>1, <2>1, RestObs DEF vars
  <1>2. ASSUME NEW c \in Conns, Connection(c) PROVE ObsInv'
    <2>1. CASE PeerLeaves(c)
      <3>1. TypeOK'
        BY <2>1 DEF PeerLeaves, ObsInv, TypeOK
      <3>2. QED
        BY <2>1, <3>1, RestObs DEF PeerLeaves
    <2>2. QED
      BY <1>2, <2>1, AddObs, LookUpObs, DisconnectObs DEF Connection
  <1>3. ASSUME NEW e \in Events, NEW s \in Services, OnDebug(e, s) PROVE ObsInv'
    BY <1>3, OnDebugType, RestObs DEF OnDebug
  <1>4. ASSUME NEW f \in Flights, Write(f) PROVE ObsInv'
    BY <1>4, WriteType, RestObs DEF Write
  <1>5. QED
    BY <1>1, <1>2, <1>3, <1>4, ReplaceObs DEF Next

LEMMA ObsCorrect == Spec => []ObsInv
  BY ObsInit, ObsNext, PTL DEF Spec, SentInv

(* Values have their types: no step leaves a key without a callback in the *)
(* map of observers.                                                       *)
THEOREM TypeCorrect == Spec => []TypeOK
  BY ObsCorrect, PTL DEF ObsInv

(* Whoever shares client ids, registers again with every message and leaves*)
(* in whatever order: the service in use has no callback of a connection   *)
(* that has been closed.                                                   *)
THEOREM GhostFree == Spec => []NoGhost
  BY ObsCorrect, PTL DEF ObsInv

(* Of the connections that share an id one is served until one leaves.     *)
THEOREM ServedCorrect == Spec => []OneIsServed
  <1>1. ObsInv => OneIsServed
    BY DEF ObsInv, TypeOK, ServedInv, ServedAt, OneIsServed
  <1>2. QED
    BY <1>1, ObsCorrect, PTL

-----------------------------------------------------------------------------
(* What OnDebug starts: a flight per registration, each to a connection of *)
(* its own, since a connection registers under one id only.                *)
LEMMA NewFlights ==
    ASSUME ObsInv, NEW e \in Events, NEW s \in Services, OnDebug(e, s)
    PROVE  /\ \A f \in flights' \ flights :
                 \E i \in Clients :
                    /\ Registered(s, i)
                    /\ f = [event |-> e, conn |-> observer[s][i].conn,
                            kind |-> observer[s][i].kind]
           /\ flights \subseteq flights'
           /\ \A f, g \in flights' \ flights : f.conn = g.conn => f = g
  <1>1. ASSUME NEW f \in flights' \ flights
        PROVE  \E i \in Clients :
                    /\ Registered(s, i)
                    /\ f = [event |-> e, conn |-> observer[s][i].conn,
                            kind |-> observer[s][i].kind]
    BY DEF OnDebug, Registered
  <1>2. ASSUME NEW f \in flights' \ flights, NEW g \in flights' \ flights,
               f.conn = g.conn
        PROVE  f = g
    <2>1. PICK i \in Clients : Registered(s, i)
                    /\ f = [event |-> e, conn |-> observer[s][i].conn,
                            kind |-> observer[s][i].kind]
      BY <1>1
    <2>2. PICK j \in Clients : Registered(s, j)
                    /\ g = [event |-> e, conn |-> observer[s][j].conn,
                            kind |-> observer[s][j].kind]
      BY <1>1
    <2>3. i = client[f.conn] /\ j = client[g.conn]
      BY <2>1, <2>2 DEF ObsInv, RegInv
    <2>4. QED
      BY <1>2, <2>1, <2>2, <2>3
  <1>3. QED
    BY <1>1, <1>2 DEF OnDebug

LEMMA SentOnDebug ==
    ASSUME SentInv, NEW e \in Events, NEW s \in Services, OnDebug(e, s)
    PROVE  FlightInv'
  <1>1. /\ traced[e] = 0 /\ traced'[e] # 0 /\ got' = got
        /\ \A d \in Events \ {e} : traced'[d] = traced[d]
    BY DEF OnDebug, SentInv, ObsInv, TypeOK, Services
  <1>2. \A f \in flights' \ flights : f.event = e
    BY NewFlights DEF SentInv
  <1>3. /\ \A f \in flights : f.event \in Events \ {e}
        /\ \A c \in Conns : \A m \in got[c] : m.event \in Events \ {e}
    BY <1>1 DEF SentInv, FlightInv, ObsInv, TypeOK, Flights
  <1>4. \A f, g \in flights' : f.event = g.event /\ f.conn = g.conn => f = g
    BY <1>2, <1>3, NewFlights DEF SentInv, FlightInv
  <1>5. \A f \in flights' : f.conn \in Conns
    BY OnDebugType DEF SentInv, TypeOK, Flights
  <1>6. \A f \in flights' : \A m \in got[f.conn] : m.event # f.event
    BY <1>2, <1>3, <1>5 DEF SentInv, FlightInv
  <1>7. \A f \in flights' : traced'[f.event] # 0
    BY <1>1, <1>2, <1>3 DEF SentInv, FlightInv
  <1>8. QED
    BY <1>1, <1>3, <1>4, <1>6, <1>7 DEF SentInv, FlightInv

LEMMA SentWrite ==
    ASSUME SentInv, NEW f \in Flights, Write(f)
    PROVE  FlightInv'
  <1> DEFINE n == [event |-> f.event, kind |-> f.kind]
  <1>1. /\ f \in flights /\ flights' = flights \ {f} /\ traced' = traced
        /\ f.conn \in Conns
    BY DEF Write, Flights
  <1>2. \A c \in Conns : got'[c] = got[c] \/ (c = f.conn /\ got'[c] = got[c] \cup {n})
    BY DEF Write, SentInv, ObsInv, TypeOK
  <1>3. n.event = f.event
    OBVIOUS
  <1> HIDE DEF n
  <1>4. \A m \in got[f.conn] : m.event # n.event
    BY <1>1, <1>3 DEF SentInv, FlightInv
  <1>5. \A c \in Conns : \A m, k \in got'[c] : m.event = k.event => m = k
    BY <1>2, <1>4 DEF SentInv, FlightInv
  <1>6. ASSUME NEW g \in flights', NEW m \in got'[g.conn]
        PROVE  m.event # g.event
    <2>1. g \in flights /\ g # f /\ g.conn \in Conns
      BY <1>1 DEF SentInv, ObsInv, TypeOK, Flights
    <2>2. CASE m \in got[g.conn]
      BY <2>1, <2>2 DEF SentInv, FlightInv
    <2>3. CASE m \notin got[g.conn]
      <3>1. g.conn = f.conn /\ m = n
        BY <1>2, <1>6, <2>1, <2>3
      <3>2. g.event # f.event
        BY <1>1, <2>1, <3>1 DEF SentInv, FlightInv
      <3>3. QED
        BY <1>3, <3>1, <3>2
    <2>4. QED
      BY <2>2, <2>3
  <1>7. \A c \in Conns : \A m \in got'[c] : traced'[m.event] # 0
    BY <1>1, <1>2, <1>3 DEF SentInv, FlightInv
  <1>8. QED
    BY <1>1, <1>5, <1>6, <1>7 DEF SentInv, FlightInv

LEMMA SentNext == SentInv /\ [Next]_vars => SentInv'
  <1> SUFFICES ASSUME SentInv, [Next]_vars PROVE SentInv'
    OBVIOUS
  <1>1. ObsInv'
    BY ObsNext DEF SentInv
  <1>2. CASE UNCHANGED <<flights, got, traced>>
    BY <1>1, <1>2 DEF SentInv, FlightInv
  <1>3. CASE \E e \in Events, s \in Services : OnDebug(e, s)
    BY <1>1, <1>3, SentOnDebug DEF SentInv
  <1>4. CASE \E f \in Flights : Write(f)
    BY <1>1, <1>4, SentWrite DEF SentInv
  <1>5. CASE \/ UNCHANGED vars \/ Replace
             \/ \E c \in Conns : Connection(c)
    BY <1>2, <1>5 DEF vars, Replace, Connection, Come, Connect, Speak, Message,
                      PeerLeaves, Leave, Disconnect
  <1>6. QED
    BY <1>3, <1>4, <1>5 DEF Next

(* At most one element has a cardinality of at most one.                   *)
LEMMA AtMostOne ==
    ASSUME NEW S, \A x, y \in S : x = y
    PROVE  IF S = {} THEN Cardinality(S) = 0 ELSE Cardinality(S) = 1
  <1>1. CASE S = {}
    BY <1>1, FS_EmptySet
  <1>2. CASE S # {}
    <2>1. PICK x : S = {x}
      BY <1>2
    <2>2. QED
      BY <2>1, FS_Singleton
  <1>3. QED
    BY <1>1, <1>2

(* However often a connection registers, and whoever takes its place: it is*)
(* sent an event at most once.                                             *)
THEOREM SentCorrect == Spec => []SentOnce
  <1>1. SentInv => SentOnce
    <2> SUFFICES ASSUME SentInv, NEW e \in Events, NEW c \in Conns
                 PROVE  Cardinality({f \in flights : f.event = e /\ f.conn = c})
                          + Cardinality({m \in got[c] : m.event = e}) <= 1
      BY DEF SentOnce
    <2> DEFINE F == {f \in flights : f.event = e /\ f.conn = c}
               G == {m \in got[c] : m.event = e}
    <2>1. (\A x, y \in F : x = y) /\ (\A x, y \in G : x = y)
      BY DEF SentInv, FlightInv
    <2>2. F = {} \/ G = {}
      BY DEF SentInv, FlightInv
    <2>3. /\ IF F = {} THEN Cardinality(F) = 0 ELSE Cardinality(F) = 1
          /\ IF G = {} THEN Cardinality(G) = 0 ELSE Cardinality(G) = 1
      BY <2>1, AtMostOne
    <2> HIDE DEF F, G
    <2>4. Cardinality(F) + Cardinality(G) <= 1
      BY <2>2, <2>3
    <2>5. QED
      BY <2>4 DEF F, G
  <1>2. QED
    BY <1>1, ObsInit, SentNext, PTL DEF Spec

(* What a service starts for a connection after a message of it came there *)
(* is bare data: the JSON callback of the connect event never comes back.  *)
THEOREM RawCorrect == Spec => RawOnceSpoken
  <1>1. ObsInv /\ [Next]_vars =>
           [\A f \in flights' \ flights :
              traced'[f.event] = spoke[f.conn] => f.kind = "raw"]_vars
    <2> SUFFICES ASSUME ObsInv, Next, NEW f \in flights' \ flights,
                        traced'[f.event] = spoke[f.conn]
                 PROVE  f.kind = "raw"
      OBVIOUS
    <2>1. PICK e \in Events, s \in Services : OnDebug(e, s)
      BY DEF Next, Connection, Come, Connect, Speak, Message, PeerLeaves, Leave,
             Disconnect, Replace, Write
    <2>2. PICK i \in Clients :
             /\ Registered(s, i)
             /\ f = [event |-> e, conn |-> observer[s][i].conn,
                     kind |-> observer[s][i].kind]
      BY <2>1, NewFlights
    <2>3. traced'[e] = s
      BY <2>1 DEF OnDebug, ObsInv, TypeOK
    <2>4. QED
      BY <2>2, <2>3 DEF ObsInv, RegInv
  <1>2. QED
    BY <1>1, ObsCorrect, PTL DEF Spec, RawOnceSpoken

(* A service sends every event traced in it to one of the connections that *)
(* registered there under an id, as long as none of them has left.         *)
THEOREM EventsCorrect == Spec => EventsAreSent
  <1>1. ObsInv /\ [Next]_vars =>
           [\A e \in Events, c \in Conns :
               /\ traced[e] = 0 /\ traced'[e] # 0 /\ home[c] = traced'[e]
               /\ \A d \in Sharers(client[c]) : cpc[d] # "closed"
               => \E f \in flights' :
                     f.event = e /\ f.conn \in Sharers(client[c])]_vars
    <2> SUFFICES ASSUME ObsInv, Next, NEW e \in Events, NEW c \in Conns,
                        traced[e] = 0, traced'[e] # 0, home[c] = traced'[e],
                        \A d \in Sharers(client[c]) : cpc[d] # "closed"
                 PROVE  \E f \in flights' :
                           f.event = e /\ f.conn \in Sharers(client[c])
      OBVIOUS
    <2>1. PICK x \in Events, s \in Services : OnDebug(x, s)
      BY DEF Next, Connection, Come, Connect, Speak, Message, PeerLeaves, Leave,
             Disconnect, Replace, Write
    <2>2. x = e /\ home[c] = s
      BY <2>1 DEF OnDebug, ObsInv, TypeOK
    <2> DEFINE i == client[c]
    <2>3. i \in Clients /\ c \in Sharers(i)
      <3>1. s # 0
        BY DEF Services
      <3>2. QED
        BY <2>2, <3>1 DEF ObsInv, RegInv, Sharers
    <2>4. Registered(s, i) /\ observer[s][i].conn \in Sharers(i)
      BY <2>2, <2>3 DEF ObsInv, ServedInv, ServedAt
    <2> DEFINE o == observer[s][i]
               f == [event |-> e, conn |-> o.conn, kind |-> o.kind]
    <2>5. o \in {observer[s][j] : j \in Clients} \ {None}
      BY <2>3, <2>4 DEF Registered
    <2>6. f \in flights'
      BY <2>1, <2>2, <2>5 DEF OnDebug
    <2>7. QED
      BY <2>4, <2>6
  <1>2. QED
    BY <1>1, ObsCorrect, PTL DEF Spec, EventsAreSent
=============================================================================
