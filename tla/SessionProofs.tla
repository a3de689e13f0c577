---------------------------- MODULE SessionProofs ----------------------------
(***************************************************************************)
(* What is proved of Session for every set of clients, every MaxPlayers    *)
(* and every path.                                                         *)
(***************************************************************************)
EXTENDS Session, FiniteSetTheorems, TLAPS

-----------------------------------------------------------------------------
(* What the operations of the path and of the registry do. *)

\* Receiving a packet adds none.
LEMMA RemainingSubset ==
  ASSUME NEW p, NEW path
  PROVE  Remaining(p, path) \subseteq path
BY DEF Remaining

\* add() finds the entry of a, or appends one under the next id.
LEMMA AddEffect ==
  ASSUME TypeOK, NEW a \in Clients, NEW id, Add(a, id)
  PROVE  \/ /\ id \in EntriesOf(a)
            /\ clients' = clients /\ idx' = idx
         \/ /\ EntriesOf(a) = {}
            /\ id = idx
            /\ idx' = idx + 1
            /\ idx \notin DOMAIN clients
            /\ DOMAIN clients' = DOMAIN clients \cup {idx}
            /\ clients' \in [DOMAIN clients' -> Entry]
            /\ clients'[idx] = NewEntry(a)
            /\ \A i \in DOMAIN clients : clients'[i] = clients[i]
<1>1. CASE id \in EntriesOf(a) /\ UNCHANGED managerVars
  BY <1>1 DEF managerVars
<1>2. CASE EntriesOf(a) = {} /\ AddBlindly(a, id)
  <2>1. NewEntry(a) \in Entry
    BY DEF NewEntry, Entry, NoInput, NoId, Ids
  <2>2. idx \notin DOMAIN clients
    BY DEF TypeOK
  <2> QED
    BY <1>2, <2>1, <2>2 DEF AddBlindly, TypeOK
<1> QED
  BY <1>1, <1>2 DEF Add

\* remove() takes one entry away and leaves the others and the next id alone.
LEMMA RemoveEffect ==
  ASSUME TypeOK, NEW id, Remove(id)
  PROVE  /\ idx' = idx
         /\ DOMAIN clients' = DOMAIN clients \ {id}
         /\ clients' \in [DOMAIN clients' -> Entry]
         /\ \A i \in DOMAIN clients' : clients'[i] = clients[i]
BY DEF Remove, Restrict, TypeOK

\* An input changes last_input and player.id of its sender's entry only.
LEMMA InputEffect ==
  ASSUME TypeOK, NEW p \in ToServerPacket, HandleInput(p)
  PROVE  /\ idx' = idx
         /\ DOMAIN clients' = DOMAIN clients
         /\ clients' \in [DOMAIN clients' -> Entry]
         /\ \A i \in DOMAIN clients :
              /\ clients'[i].addr = clients[i].addr
              /\ clients'[i].lastInput >= clients[i].lastInput
<1>1. PICK id \in EntriesOf(p.client) :
        clients' = IF Newer(p.timestamp, clients[id].lastInput)
                   THEN [clients EXCEPT ![id].lastInput = p.timestamp,
                                        ![id].playerId = Narrow(id)]
                   ELSE clients
  BY DEF HandleInput
<1>2. id \in DOMAIN clients /\ id \in Int
  BY DEF EntriesOf, TypeOK
<1>3. \A i \in DOMAIN clients : clients[i] \in Entry
  BY DEF TypeOK
<1>4. Narrow(id) \in Int
  BY <1>2, ManagerAssumption DEF Narrow
<1>5. CASE ~Newer(p.timestamp, clients[id].lastInput)
  <2>1. clients' = clients
    BY <1>1, <1>5
  <2>2. \A i \in DOMAIN clients : clients[i].lastInput >= clients[i].lastInput
    BY <1>3 DEF Entry
  <2> QED
    BY <2>1, <2>2 DEF HandleInput, TypeOK
<1>6. CASE Newer(p.timestamp, clients[id].lastInput)
  <2>1. p.timestamp \in Nat /\ p.timestamp > clients[id].lastInput
    BY <1>6 DEF Newer, ToServerPacket
  <2>2. clients' = [clients EXCEPT ![id].lastInput = p.timestamp,
                                   ![id].playerId = Narrow(id)]
    BY <1>1, <1>6
  <2>3. clients'[id] = [clients[id] EXCEPT !.lastInput = p.timestamp,
                                           !.playerId = Narrow(id)]
    BY <1>2, <1>3, <2>2 DEF TypeOK, Entry
  <2>4. clients'[id] \in Entry
    BY <1>2, <1>3, <1>4, <2>1, <2>3 DEF Entry, Ids
  <2>5. \A i \in DOMAIN clients \ {id} : clients'[i] = clients[i]
    BY <2>2 DEF TypeOK
  <2>6. DOMAIN clients' = DOMAIN clients
    BY <2>2 DEF TypeOK
  <2>7. clients' \in [DOMAIN clients' -> Entry]
    BY <1>3, <2>2, <2>4, <2>5, <2>6 DEF TypeOK
  <2>8. /\ clients'[id].addr = clients[id].addr
        /\ clients'[id].lastInput >= clients[id].lastInput
    BY <1>2, <1>3, <2>1, <2>3 DEF Entry
  <2> QED
    BY <1>3, <2>5, <2>6, <2>7, <2>8 DEF HandleInput, Entry
<1> QED
  BY <1>5, <1>6

\* A processed disconnect removes entries of its sender only, and may echo.
LEMMA DisconnectEffect ==
  ASSUME TypeOK, NEW p \in ToServerPacket, HandleDisconnect(p)
  PROVE  /\ p.type = "CLIENT_DISCONNECT"
         /\ idx' = idx
         /\ \E id \in EntriesOf(p.client) :
              /\ DOMAIN clients' = DOMAIN clients \ {id}
              /\ \/ toClient' = toClient \cup {Echo(p, id)}
                 \/ toClient' = toClient
         /\ clients' \in [DOMAIN clients' -> Entry]
         /\ \A i \in DOMAIN clients' : clients'[i] = clients[i]
<1>1. PICK id \in EntriesOf(p.client) : Remove(id) /\ EchoAfterRemove(p, id)
  BY DEF HandleDisconnect
<1>2. toClient' = toClient \cup {Echo(p, id)} \/ toClient' = toClient
  BY <1>1 DEF EchoAfterRemove
<1> QED
  BY <1>1, <1>2, RemoveEffect DEF HandleDisconnect

-----------------------------------------------------------------------------
(* Type correctness. *)

LEMMA TypeInit == Init => TypeOK
<1> SUFFICES ASSUME Init PROVE TypeOK
  OBVIOUS
<1>1. idx = 0 /\ DOMAIN clients = {} /\ clients = [i \in {} |-> NewEntry(i)]
  BY DEF Init, ServerInit, ManagerInit
<1>2. DOMAIN clients \in SUBSET (0 .. idx - 1)
  BY <1>1
<1>3. clients \in [DOMAIN clients -> Entry]
  BY <1>1
<1> QED
  BY <1>1, <1>2, <1>3
     DEF Init, ServerInit, ManagerInit, ClientInit, PathInit, TypeOK, Ids, Nobody

LEMMA TypeProcessEvents ==
  ASSUME TypeOK, NEW p \in toServer, ProcessEvents(p), UNCHANGED clientVars
  PROVE  TypeOK'
<1>1. p \in ToServerPacket /\ p.client \in Clients
  BY DEF TypeOK, ToServerPacket
<1>2. toServer' \in SUBSET ToServerPacket /\ serverRunning' \in BOOLEAN
  BY RemainingSubset DEF ProcessEvents, TypeOK
<1>3. \A id \in Nat : Echo(p, id) \in ToClientPacket <=> p.type # "INPUT"
  BY <1>1 DEF Echo, ToServerPacket, ToClientPacket
<1>4. EntriesOf(p.client) \subseteq Nat
  BY DEF EntriesOf, TypeOK
<1> SUFFICES /\ idx' \in Nat
             /\ DOMAIN clients' \in SUBSET (0 .. idx' - 1)
             /\ clients' \in [DOMAIN clients' -> Entry]
             /\ toClient' \in SUBSET ToClientPacket
  BY <1>2 DEF TypeOK, clientVars
<1>5. CASE RejectWhenFull(p) \/ IgnoreUnknown(p)
  BY <1>5 DEF RejectWhenFull, IgnoreUnknown, managerVars, TypeOK
<1>6. CASE HandleConnect(p)
  <2>1. PICK id \in 0 .. idx :
          Add(p.client, id) /\ toClient' = toClient \cup {Echo(p, id)}
    BY <1>6 DEF HandleConnect
  <2>2. toClient' \in SUBSET ToClientPacket
    BY <1>3, <1>6, <2>1 DEF HandleConnect, TypeOK
  <2> QED
    BY <1>1, <2>1, <2>2, AddEffect DEF TypeOK
<1>7. CASE HandleInput(p)
  BY <1>1, <1>7, InputEffect DEF HandleInput, TypeOK
<1>8. CASE HandleDisconnect(p)
  <2>1. PICK id \in EntriesOf(p.client) :
          /\ DOMAIN clients' = DOMAIN clients \ {id}
          /\ toClient' = toClient \cup {Echo(p, id)} \/ toClient' = toClient
    BY <1>1, <1>8, DisconnectEffect
  <2>2. toClient' \in SUBSET ToClientPacket
    BY <1>3, <1>4, <1>8, <2>1 DEF HandleDisconnect, TypeOK
  <2> QED
    BY <1>1, <1>8, <2>1, <2>2, DisconnectEffect DEF TypeOK
<1> QED
  BY <1>5, <1>6, <1>7, <1>8 DEF ProcessEvents

LEMMA TypeMainStep ==
  ASSUME TypeOK, NEW c \in Clients, MainStep(c), UNCHANGED serverVars
  PROVE  TypeOK'
<1> USE DEF TypeOK, serverVars, managerVars, clientVars, pathVars
<1>1. CASE SendConnect(c) \/ SendDisconnect(c)
  BY <1>1 DEF SendConnect, SendDisconnect, Packet, ToServerPacket
<1>2. CASE Frame(c)
  BY <1>2 DEF Frame, Packet, ToServerPacket
<1>3. CASE EnterGame(c) \/ CloseWindow(c) \/ StopSending(c) \/ JoinListener(c)
  BY <1>3 DEF EnterGame, CloseWindow, StopSending, JoinListener, MainGoes
<1> QED
  BY <1>1, <1>2, <1>3 DEF MainStep

LEMMA TypeListenerStep ==
  ASSUME TypeOK, NEW c \in Clients, ListenerStep(c), UNCHANGED serverVars
  PROVE  TypeOK'
<1> USE DEF TypeOK, serverVars, managerVars, clientVars, pathVars, Ids
<1>1. ASSUME NEW p \in toClient, Receive(c, p)
      PROVE  TypeOK'
  <2>1. p \in ToClientPacket /\ toClient' \in SUBSET ToClientPacket
    BY <1>1, RemainingSubset DEF Receive
  <2>2. CASE HandleConnectEcho(c, p)
    BY <2>1, <2>2 DEF HandleConnectEcho, ToClientPacket
  <2>3. CASE HandleDisconnectEcho(c, p)
    BY <2>1, <2>3 DEF HandleDisconnectEcho
  <2> QED
    BY <1>1, <2>2, <2>3 DEF Receive
<1>2. CASE SaveId(c)
  BY <1>2 DEF SaveId, Nobody
<1>3. CASE StopListening(c)
  BY <1>3 DEF StopListening
<1> QED
  BY <1>1, <1>2, <1>3 DEF ListenerStep

LEMMA TypeNext == TypeOK /\ [Next]_vars => TypeOK'
<1> SUFFICES ASSUME TypeOK, [Next]_vars PROVE TypeOK'
  OBVIOUS
<1>1. ASSUME NEW p \in toServer, ProcessEvents(p), UNCHANGED clientVars
      PROVE  TypeOK'
  BY <1>1, TypeProcessEvents
<1>2. CASE Shutdown /\ UNCHANGED clientVars
  BY <1>2 DEF TypeOK, Shutdown, clientVars, managerVars, pathVars
<1>3. ASSUME NEW c \in Clients, ClientStep(c)
      PROVE  TypeOK'
  BY <1>3, TypeMainStep, TypeListenerStep DEF ClientStep
<1>4. CASE LosePacket /\ UNCHANGED <<serverVars, clientVars>>
  BY <1>4 DEF TypeOK, LosePacket, serverVars, managerVars, clientVars
<1>5. CASE UNCHANGED vars
  BY <1>5 DEF TypeOK, vars, serverVars, managerVars, clientVars, pathVars
<1> QED
  BY <1>1, <1>2, <1>3, <1>4, <1>5 DEF Next, ServerStep

\* Every variable keeps its type, however many clients there are.
THEOREM TypeCorrect == Spec => []TypeOK
BY TypeInit, TypeNext, PTL DEF Spec

-----------------------------------------------------------------------------
(* The registry: its size and its addresses. *)

LEMMA RegistryFinite ==
  ASSUME TypeOK
  PROVE  IsFiniteSet(DOMAIN clients)
<1>1. IsFiniteSet(0 .. idx - 1)
  <2>1. 0 \in Int /\ idx - 1 \in Int
    BY DEF TypeOK
  <2> QED
    BY <2>1, FS_Interval
<1>2. DOMAIN clients \in SUBSET (0 .. idx - 1)
  BY DEF TypeOK
<1> QED
  BY <1>1, <1>2, FS_Subset

RegistryOK == WithinCapacity /\ AddressesDiffer

LEMMA RegistryInit == Init => RegistryOK
<1> SUFFICES ASSUME Init PROVE RegistryOK
  OBVIOUS
<1>1. DOMAIN clients = {}
  BY DEF Init, ServerInit, ManagerInit
<1>2. WithinCapacity
  BY <1>1, FS_EmptySet, ServerAssumption DEF WithinCapacity, count
<1> QED
  BY <1>1, <1>2 DEF RegistryOK, AddressesDiffer

LEMMA RegistryNext == TypeOK /\ RegistryOK /\ [Next]_vars => RegistryOK'
<1> SUFFICES ASSUME TypeOK, RegistryOK, [Next]_vars PROVE RegistryOK'
  OBVIOUS
<1> USE DEF RegistryOK
<1>1. ASSUME NEW p \in toServer, ProcessEvents(p) PROVE RegistryOK'
  <2>0. p \in ToServerPacket /\ p.client \in Clients
    BY DEF TypeOK, ToServerPacket
  <2>1. CASE RejectWhenFull(p) \/ IgnoreUnknown(p)
    BY <2>1 DEF RejectWhenFull, IgnoreUnknown, managerVars,
       WithinCapacity, count, AddressesDiffer
  <2>2. CASE HandleConnect(p)
    <3>1. PICK id : Add(p.client, id)
      BY <2>2 DEF HandleConnect
    <3>2. CASE UNCHANGED <<clients, idx>>
      BY <3>2 DEF WithinCapacity, count, AddressesDiffer
    <3>3. CASE ~UNCHANGED <<clients, idx>>
      <4>1. /\ EntriesOf(p.client) = {}
            /\ idx \notin DOMAIN clients
            /\ DOMAIN clients' = DOMAIN clients \cup {idx}
            /\ clients'[idx] = NewEntry(p.client)
            /\ \A i \in DOMAIN clients : clients'[i] = clients[i]
        BY <2>0, <3>1, <3>3, AddEffect
      <4>2. Cardinality(DOMAIN clients') = Cardinality(DOMAIN clients) + 1
        BY <4>1, RegistryFinite, FS_AddElement
      <4>3. ~(count >= MaxPlayers) /\ count \in Nat
        BY <2>2, RegistryFinite, FS_CardinalityType DEF HandleConnect, Full, count
      <4>4. WithinCapacity'
        BY <4>2, <4>3, ServerAssumption DEF WithinCapacity, count
      <4>5. AddressesDiffer'
        BY <4>1 DEF AddressesDiffer, NewEntry, EntriesOf
      <4> QED
        BY <4>4, <4>5
    <3> QED
      BY <3>2, <3>3
  <2>3. CASE HandleInput(p)
    <3>1. /\ DOMAIN clients' = DOMAIN clients
          /\ \A i \in DOMAIN clients : clients'[i].addr = clients[i].addr
      BY <2>0, <2>3, InputEffect
    <3> QED
      BY <3>1 DEF WithinCapacity, count, AddressesDiffer
  <2>4. CASE HandleDisconnect(p)
    <3>1. /\ DOMAIN clients' \subseteq DOMAIN clients
          /\ \A i \in DOMAIN clients' : clients'[i] = clients[i]
      BY <2>0, <2>4, DisconnectEffect
    <3>2. Cardinality(DOMAIN clients') <= Cardinality(DOMAIN clients)
          /\ Cardinality(DOMAIN clients) \in Nat
          /\ Cardinality(DOMAIN clients') \in Nat
      BY <3>1, RegistryFinite, FS_Subset, FS_CardinalityType
    <3>3. WithinCapacity'
      BY <3>2, ServerAssumption DEF WithinCapacity, count
    <3> QED
      BY <3>1, <3>3 DEF AddressesDiffer
  <2> QED
    BY <1>1, <2>1, <2>2, <2>3, <2>4 DEF ProcessEvents
<1>2. CASE clients' = clients
  BY <1>2 DEF WithinCapacity, count, AddressesDiffer
<1>3. clients' = clients \/ \E p \in toServer : ProcessEvents(p)
  BY DEF Next, ServerStep, ClientStep, Shutdown, vars, serverVars, managerVars
<1> QED
  BY <1>1, <1>2, <1>3

-----------------------------------------------------------------------------
(* Disconnects are about clients that left, and the registry keeps the     *)
(* entries of the others.                                                  *)

\* A client that left its session is never in it again.
LEMMA LeftForGood ==
  ASSUME TypeOK, [Next]_vars, NEW c \in Clients, InSession(c)'
  PROVE  InSession(c)
<1>1. ASSUME NEW d \in Clients, MainStep(d) PROVE InSession(c)
  <2>1. CASE main' = main
    BY <2>1 DEF InSession
  <2>2. CASE EnterGame(d) \/ CloseWindow(d) \/ StopSending(d) \/ JoinListener(d)
    BY <2>2 DEF EnterGame, CloseWindow, StopSending, JoinListener, MainGoes,
       InSession, TypeOK
  <2> QED
    BY <1>1, <2>1, <2>2 DEF MainStep, SendConnect, Frame, SendDisconnect, clientVars
<1>2. CASE main' = main
  BY <1>2 DEF InSession
<1>3. main' = main \/ \E d \in Clients : MainStep(d)
  BY DEF Next, ServerStep, ClientStep, ListenerStep, Receive, HandleConnectEcho,
     HandleDisconnectEcho, SaveId, StopListening, vars, clientVars
<1> QED
  BY <1>1, <1>2, <1>3

LEMMA EntriesKept ==
  ASSUME TypeOK, DisconnectMeansLeft, [Next]_vars, NEW c \in Clients, InSession(c)'
  PROVE  EntriesOf(c) \subseteq EntriesOf(c)'
<1>1. InSession(c)
  BY LeftForGood
<1>2. ASSUME NEW p \in toServer, ProcessEvents(p)
      PROVE  EntriesOf(c) \subseteq EntriesOf(c)'
  <2>0. p \in ToServerPacket /\ p.client \in Clients
    BY DEF TypeOK, ToServerPacket
  <2>1. CASE RejectWhenFull(p) \/ IgnoreUnknown(p)
    BY <2>1 DEF RejectWhenFull, IgnoreUnknown, managerVars, EntriesOf
  <2>2. CASE HandleConnect(p)
    BY <2>0, <2>2, AddEffect DEF HandleConnect, EntriesOf
  <2>3. CASE HandleInput(p)
    BY <2>0, <2>3, InputEffect DEF EntriesOf
  <2>4. CASE HandleDisconnect(p)
    <3>1. p.client # c
      BY <1>1, <2>0, <2>4, DisconnectEffect DEF DisconnectMeansLeft
    <3> QED
      BY <2>0, <2>4, <3>1, DisconnectEffect DEF EntriesOf
  <2> QED
    BY <1>2, <2>1, <2>2, <2>3, <2>4 DEF ProcessEvents
<1>3. clients' = clients \/ \E p \in toServer : ProcessEvents(p)
  BY DEF Next, ServerStep, ClientStep, Shutdown, vars, serverVars, managerVars
<1> QED
  BY <1>2, <1>3 DEF EntriesOf

LEMMA DisconnectInit == Init => DisconnectMeansLeft
BY DEF Init, PathInit, ClientInit, DisconnectMeansLeft

LEMMA DisconnectNext ==
  TypeOK /\ DisconnectMeansLeft /\ [Next]_vars => DisconnectMeansLeft'
<1> SUFFICES ASSUME TypeOK, DisconnectMeansLeft, [Next]_vars
             PROVE  DisconnectMeansLeft'
  OBVIOUS
<1> DEFINE Known(p) ==
      p.client \in Clients /\ (p.type = "CLIENT_DISCONNECT" => ~InSession(p.client))
<1>1. \A p \in toServer \cup toClient : Known(p)
  BY DEF DisconnectMeansLeft, TypeOK, ToServerPacket, ToClientPacket
<1>2. \A c \in Clients : InSession(c)' => InSession(c)
  BY LeftForGood
<1>3. \A p \in toServer' \cup toClient' : Known(p)
  <2>1. CASE toServer' \cup toClient' \subseteq toServer \cup toClient
    BY <1>1, <2>1
  <2>2. ASSUME NEW p \in toServer, ProcessEvents(p)
        PROVE  \A q \in toServer' \cup toClient' : Known(q)
    <3>1. toServer' \subseteq toServer /\ p \in ToServerPacket
      BY <2>2, RemainingSubset DEF ProcessEvents, TypeOK
    <3>2. toClient' = toClient \/ \E id : toClient' = toClient \cup {Echo(p, id)}
      BY <2>2, <3>1, DisconnectEffect DEF ProcessEvents, RejectWhenFull, HandleConnect,
         IgnoreUnknown, HandleInput
    <3>3. \A id : Known(Echo(p, id))
      BY <1>1 DEF Echo
    <3> QED
      BY <1>1, <3>1, <3>2, <3>3
  <2>3. ASSUME NEW c \in Clients, SendConnect(c) \/ SendDisconnect(c) \/ Frame(c)
        PROVE  \A q \in toServer' \cup toClient' : Known(q)
    BY <1>1, <2>3 DEF SendConnect, SendDisconnect, Frame, Packet, InSession
  <2>4. ASSUME NEW c \in Clients, NEW p \in toClient, Receive(c, p)
        PROVE  toServer' \cup toClient' \subseteq toServer \cup toClient
    BY <2>4, RemainingSubset DEF Receive, HandleConnectEcho, HandleDisconnectEcho
  <2>5. ASSUME NEW c \in Clients, ClientStep(c)
        PROVE  \A q \in toServer' \cup toClient' : Known(q)
    BY <2>1, <2>3, <2>4, <2>5 DEF ClientStep, MainStep, ListenerStep, EnterGame,
       CloseWindow, StopSending, JoinListener, SaveId, StopListening, pathVars
  <2>6. CASE Shutdown \/ LosePacket \/ UNCHANGED vars
    BY <2>1, <2>6 DEF Shutdown, LosePacket, vars, pathVars
  <2> QED
    BY <2>2, <2>5, <2>6 DEF Next, ServerStep
<1>4. \A c \in Clients : ~running'[c] => ~InSession(c)
  <2>1. CASE running' = running
    BY <2>1 DEF DisconnectMeansLeft
  <2>2. ASSUME NEW d \in Clients, NEW p \in toClient, Receive(d, p),
               HandleDisconnectEcho(d, p)
        PROVE  \A c \in Clients : ~running'[c] => ~InSession(c)
    BY <1>1, <2>2 DEF Receive, HandleDisconnectEcho, DisconnectMeansLeft, TypeOK
  <2>3. \/ running' = running
        \/ \E d \in Clients, p \in toClient : Receive(d, p) /\ HandleDisconnectEcho(d, p)
    BY DEF Next, ServerStep, ClientStep, MainStep, ListenerStep, SendConnect, EnterGame,
       Frame, CloseWindow, SendDisconnect, StopSending, JoinListener, Receive,
       HandleConnectEcho, SaveId, StopListening, vars, clientVars
  <2> QED
    BY <2>1, <2>2, <2>3
<1>5. \A c \in Clients : listener'[c] = "stopped" => ~running'[c]
  <2>1. \A c \in Clients : ~running[c] => ~running'[c]
    BY DEF Next, ServerStep, ClientStep, MainStep, ListenerStep, SendConnect, EnterGame,
       Frame, CloseWindow, SendDisconnect, StopSending, JoinListener, Receive,
       HandleConnectEcho, HandleDisconnectEcho, SaveId, StopListening, vars, clientVars, TypeOK
  <2>2. ASSUME NEW d \in Clients, StopListening(d)
        PROVE  \A c \in Clients : listener'[c] = "stopped" => ~running'[c]
    BY <2>1, <2>2 DEF StopListening, DisconnectMeansLeft, TypeOK
  <2>3. CASE listener' = listener
    BY <2>1, <2>3 DEF DisconnectMeansLeft
  <2>4. listener' = listener \/ \E d \in Clients : StopListening(d)
    BY DEF Next, ServerStep, ClientStep, MainStep, ListenerStep, SendConnect, EnterGame,
       Frame, CloseWindow, SendDisconnect, StopSending, JoinListener, Receive,
       HandleConnectEcho, HandleDisconnectEcho, SaveId, vars, clientVars
  <2> QED
    BY <2>2, <2>3, <2>4
<1>6. ASSUME NEW p \in toServer' \cup toClient', p.type = "CLIENT_DISCONNECT"
      PROVE  ~InSession(p.client)'
  BY <1>2, <1>3, <1>6
<1>7. \A c \in Clients : ~running'[c] => ~InSession(c)'
  BY <1>2, <1>4
<1> QED
  BY <1>5, <1>6, <1>7 DEF DisconnectMeansLeft

-----------------------------------------------------------------------------
(* The ids the clients hold, or will be told, are those of their entries. *)

SessionIds == IdsInTransit /\ AcknowledgedHasEntry

LEMMA SessionIdsInit == Init => SessionIds
BY DEF Init, PathInit, ClientInit, SessionIds, IdsInTransit, AcknowledgedHasEntry,
   Acknowledged, Nobody

\* Every CONNECT echo in transit after a step to a client in session is right.
LEMMA EchoedIds ==
  ASSUME TypeOK, DisconnectMeansLeft, SessionIds, [Next]_vars,
         NEW q \in toClient', q.type = "CLIENT_CONNECT", InSession(q.client)'
  PROVE  q.sender \in EntriesOf(q.client)'
<1>1. CASE q \in toClient
  <2>1. q.client \in Clients
    BY <1>1 DEF TypeOK, ToClientPacket
  <2>2. InSession(q.client)
    BY <2>1, LeftForGood
  <2> QED
    BY <1>1, <2>1, <2>2, EntriesKept DEF SessionIds, IdsInTransit
<1>2. ASSUME NEW p \in toServer, ProcessEvents(p), q \notin toClient
      PROVE  q.sender \in EntriesOf(q.client)'
  <2>0. p \in ToServerPacket /\ p.client \in Clients
    BY DEF TypeOK, ToServerPacket
  <2>1. CASE HandleConnect(p)
    <3>1. PICK id : Add(p.client, id) /\ toClient' = toClient \cup {Echo(p, id)}
      BY <2>1 DEF HandleConnect
    <3>2. q = Echo(p, id)
      BY <1>2, <3>1
    <3>3. id \in EntriesOf(p.client)'
      <4>1. CASE clients' = clients /\ id \in EntriesOf(p.client)
        BY <4>1 DEF EntriesOf
      <4>2. CASE id \in DOMAIN clients' /\ clients'[id] = NewEntry(p.client)
        BY <4>2 DEF EntriesOf, NewEntry
      <4> QED
        BY <2>0, <3>1, <4>1, <4>2, AddEffect
    <3> QED
      BY <3>2, <3>3 DEF Echo
  <2>2. CASE HandleDisconnect(p)
    <3>1. p.type = "CLIENT_DISCONNECT"
      BY <2>2 DEF HandleDisconnect
    <3>2. toClient' = toClient \/ \E id : toClient' = toClient \cup {Echo(p, id)}
      BY <2>0, <2>2, DisconnectEffect
    <3> QED
      BY <1>2, <3>1, <3>2 DEF Echo
  <2>3. CASE toClient' = toClient
    BY <1>2, <2>3
  <2> QED
    BY <1>2, <2>1, <2>2, <2>3 DEF ProcessEvents, RejectWhenFull, IgnoreUnknown, HandleInput
<1>3. ASSUME NEW c \in Clients, NEW p \in toClient, Receive(c, p)
      PROVE  toClient' \subseteq toClient
  BY <1>3, RemainingSubset DEF Receive
<1>4. toClient' \subseteq toClient \/ \E p \in toServer : ProcessEvents(p)
  BY <1>3 DEF Next, ServerStep, Shutdown, LosePacket, ClientStep, MainStep, ListenerStep,
     SendConnect, EnterGame, Frame, CloseWindow, SendDisconnect, StopSending, JoinListener,
     SaveId, StopListening, vars, pathVars
<1> QED
  BY <1>1, <1>2, <1>4

LEMMA SessionIdsNext ==
  TypeOK /\ DisconnectMeansLeft /\ SessionIds /\ [Next]_vars => SessionIds'
<1> SUFFICES ASSUME TypeOK, DisconnectMeansLeft, SessionIds, [Next]_vars
             PROVE  SessionIds'
  OBVIOUS
<1> USE DEF SessionIds
<1> DEFINE Holds(c) ==
      /\ saving'[c] # Nobody => saving'[c] \in EntriesOf(c)
      /\ clientId'[c] # Nobody => clientId'[c] \in EntriesOf(c)
      /\ ~connecting'[c] => EntriesOf(c) # {}
<1>1. ASSUME NEW c \in Clients, InSession(c), NEW d \in Clients, ListenerStep(d)
      PROVE  Holds(c)
  <2>0. saving[c] \in EntriesOf(c) \cup {Nobody} /\ clientId[c] \in EntriesOf(c) \cup {Nobody}
        /\ (~connecting[c] => EntriesOf(c) # {})
    BY <1>1 DEF IdsInTransit, AcknowledgedHasEntry, Acknowledged
  <2>1. ASSUME NEW p \in toClient, Receive(d, p), HandleConnectEcho(d, p)
        PROVE  Holds(c)
    <3>1. CASE c = d
      BY <1>1, <2>0, <2>1, <3>1 DEF Receive, HandleConnectEcho, IdsInTransit, TypeOK
    <3>2. CASE c # d
      BY <2>0, <2>1, <3>2 DEF HandleConnectEcho, TypeOK
    <3> QED
      BY <3>1, <3>2
  <2>2. ASSUME NEW p \in toClient, HandleDisconnectEcho(d, p)
        PROVE  Holds(c)
    BY <2>0, <2>2 DEF HandleDisconnectEcho
  <2>3. CASE SaveId(d)
    BY <2>0, <2>3 DEF SaveId, TypeOK
  <2>4. CASE StopListening(d)
    BY <2>0, <2>4 DEF StopListening
  <2> QED
    BY <1>1, <2>1, <2>2, <2>3, <2>4 DEF ListenerStep, Receive
<1>2. ASSUME NEW c \in Clients, InSession(c), UNCHANGED <<saving, clientId, connecting>>
      PROVE  Holds(c)
  BY <1>2 DEF IdsInTransit, AcknowledgedHasEntry, Acknowledged
<1>3. \/ UNCHANGED <<saving, clientId, connecting>>
      \/ \E d \in Clients : ListenerStep(d)
  BY DEF Next, ServerStep, ClientStep, MainStep, SendConnect, EnterGame, Frame, CloseWindow,
     SendDisconnect, StopSending, JoinListener, vars, clientVars
<1>4. \A c \in Clients : InSession(c)' => Holds(c) /\ EntriesOf(c) \subseteq EntriesOf(c)'
  BY <1>1, <1>2, <1>3, LeftForGood, EntriesKept
<1>5. IdsInTransit'
  BY <1>4, EchoedIds DEF IdsInTransit
<1>6. \A c \in Clients : main'[c] = "playing" => ~connecting'[c]
  <2>1. \A c \in Clients : ~connecting[c] => ~connecting'[c]
    BY DEF Next, ServerStep, ClientStep, MainStep, ListenerStep, SendConnect, EnterGame,
       Frame, CloseWindow, SendDisconnect, StopSending, JoinListener, Receive,
       HandleConnectEcho, HandleDisconnectEcho, SaveId, StopListening, vars, clientVars, TypeOK
  <2>2. \A c \in Clients : main'[c] = "playing" => main[c] = "playing" \/ ~connecting[c]
    BY DEF Next, ServerStep, ClientStep, MainStep, ListenerStep, SendConnect, EnterGame,
       Frame, CloseWindow, SendDisconnect, StopSending, JoinListener, Receive, MainGoes,
       HandleConnectEcho, HandleDisconnectEcho, SaveId, StopListening, vars, clientVars, TypeOK
  <2> QED
    BY <2>1, <2>2 DEF AcknowledgedHasEntry
<1> QED
  BY <1>4, <1>5, <1>6 DEF AcknowledgedHasEntry, Acknowledged, InSession

-----------------------------------------------------------------------------
(* The inductive invariant and what follows from it. *)

LEMMA IInvInit == Init => IInv
BY TypeInit, RegistryInit, DisconnectInit, SessionIdsInit DEF IInv, RegistryOK, SessionIds

LEMMA IInvNext == IInv /\ [Next]_vars => IInv'
BY TypeNext, RegistryNext, DisconnectNext, SessionIdsNext DEF IInv, RegistryOK, SessionIds

\* The packets, the threads' shared fields and the registry agree, always.
THEOREM Consistent == Spec => []IInv
BY IInvInit, IInvNext, PTL DEF Spec

\* send_game_state never has more players to write than the packet has slots.
THEOREM CapacityHolds == Spec => []WithinCapacity
<1>1. IInv => WithinCapacity
  BY DEF IInv
<1> QED
  BY <1>1, Consistent, PTL

\* A client that was acknowledged stays registered until it leaves.
THEOREM RegistrationHolds == Spec => []PlayingIsRegistered
<1>1. IInv => PlayingIsRegistered
  BY DEF IInv, PlayingIsRegistered, AcknowledgedHasEntry, IdsInTransit, Acknowledged
<1> QED
  BY <1>1, Consistent, PTL

\* A client's listener runs for as long as the main thread needs it.
THEOREM ListenerHolds == Spec => []ListenerOutlivesGame
<1>1. IInv => ListenerOutlivesGame
  BY DEF IInv, TypeOK, ListenerOutlivesGame, DisconnectMeansLeft
<1> QED
  BY <1>1, Consistent, PTL

\* No client has two entries.
THEOREM AddressesHold == Spec => []OneEntryPerClient
<1>1. IInv => OneEntryPerClient
  <2> SUFFICES ASSUME IInv, NEW c \in Clients
               PROVE  Cardinality(EntriesOf(c)) <= 1
    BY DEF OneEntryPerClient
  <2>1. CASE EntriesOf(c) = {}
    BY <2>1, FS_EmptySet
  <2>2. CASE EntriesOf(c) # {}
    <3>1. PICK i : i \in EntriesOf(c)
      BY <2>2
    <3>2. EntriesOf(c) = {i}
      BY <3>1 DEF IInv, AddressesDiffer, EntriesOf
    <3>3. Cardinality({i}) = 1
      BY FS_Singleton
    <3> QED
      BY <3>2, <3>3
  <2> QED
    BY <2>1, <2>2
<1> QED
  BY <1>1, Consistent, PTL

-----------------------------------------------------------------------------
(* What no step does. *)

LEMMA RegistryStep ==
  ASSUME TypeOK, [Next]_vars
  PROVE  /\ idx' >= idx
         /\ \A i \in DOMAIN clients' : i \in DOMAIN clients \/ i >= idx
         /\ \A i \in DOMAIN clients \cap DOMAIN clients' :
              /\ clients'[i].addr = clients[i].addr
              /\ clients'[i].lastInput >= clients[i].lastInput
<1>0. /\ idx >= idx /\ idx + 1 >= idx /\ idx \in Nat
      /\ \A i \in DOMAIN clients : clients[i].lastInput >= clients[i].lastInput
  BY DEF TypeOK, Entry
<1>1. ASSUME NEW p \in toServer, ProcessEvents(p)
      PROVE  /\ idx' >= idx
             /\ \A i \in DOMAIN clients' : i \in DOMAIN clients \/ i >= idx
             /\ \A i \in DOMAIN clients \cap DOMAIN clients' :
                  /\ clients'[i].addr = clients[i].addr
                  /\ clients'[i].lastInput >= clients[i].lastInput
  <2>0. p \in ToServerPacket /\ p.client \in Clients
    BY DEF TypeOK, ToServerPacket
  <2>1. CASE RejectWhenFull(p) \/ IgnoreUnknown(p)
    BY <1>0, <2>1 DEF RejectWhenFull, IgnoreUnknown, managerVars
  <2>2. CASE HandleConnect(p)
    BY <1>0, <2>0, <2>2, AddEffect DEF HandleConnect
  <2>3. CASE HandleInput(p)
    BY <1>0, <2>0, <2>3, InputEffect
  <2>4. CASE HandleDisconnect(p)
    BY <1>0, <2>0, <2>4, DisconnectEffect
  <2> QED
    BY <1>1, <2>1, <2>2, <2>3, <2>4 DEF ProcessEvents
<1>2. (clients' = clients /\ idx' = idx) \/ \E p \in toServer : ProcessEvents(p)
  BY DEF Next, ServerStep, ClientStep, Shutdown, vars, serverVars, managerVars
<1> QED
  BY <1>0, <1>1, <1>2

\* No id is given to two addresses, one after the other.
THEOREM IdsNeverReused == Spec => IdNamesOneClient
<1>1. TypeOK /\ [Next]_vars =>
        [/\ idx' >= idx
         /\ \A i \in DOMAIN clients' :
              \/ i \in DOMAIN clients /\ clients'[i].addr = clients[i].addr
              \/ i >= idx]_vars
  BY RegistryStep
<1> QED
  BY <1>1, TypeCorrect, PTL DEF Spec, IdNamesOneClient

\* No step replaces a client's input by an older one.
THEOREM InputsMoveForward == Spec => InputNeverRewinds
<1>1. TypeOK /\ [Next]_vars =>
        [\A i \in DOMAIN clients \cap DOMAIN clients' :
           clients'[i].lastInput >= clients[i].lastInput]_vars
  BY RegistryStep
<1> QED
  BY <1>1, TypeCorrect, PTL DEF Spec, InputNeverRewinds

\* A playing client keeps the id it stored: the echo the listener may still be
\* saving carries the same one.
THEOREM IdentityHolds == Spec => IdentityStable
<1>1. IInv /\ [Next]_vars =>
        [\A c \in Clients :
           main[c] = "playing" /\ clientId[c] # Nobody => clientId'[c] = clientId[c]]_vars
  <2> SUFFICES ASSUME IInv, [Next]_vars, NEW c \in Clients,
                      main[c] = "playing", clientId[c] # Nobody
               PROVE  clientId'[c] = clientId[c]
    OBVIOUS
  <2>1. ASSUME NEW d \in Clients, SaveId(d)
        PROVE  clientId'[c] = clientId[c]
    <3>1. CASE d = c
      <4>1. saving[c] \in EntriesOf(c) /\ clientId[c] \in EntriesOf(c)
        BY <2>1, <3>1 DEF IInv, IdsInTransit, InSession, SaveId
      <4>2. saving[c] = clientId[c]
        BY <4>1 DEF IInv, AddressesDiffer, EntriesOf
      <4> QED
        BY <2>1, <3>1, <4>2 DEF SaveId, IInv, TypeOK
    <3>2. CASE d # c
      BY <2>1, <3>2 DEF SaveId, IInv, TypeOK
    <3> QED
      BY <3>1, <3>2
  <2>2. clientId' = clientId \/ \E d \in Clients : SaveId(d)
    BY DEF Next, ServerStep, ClientStep, MainStep, ListenerStep, SendConnect, EnterGame,
       Frame, CloseWindow, SendDisconnect, StopSending, JoinListener, Receive,
       HandleConnectEcho, HandleDisconnectEcho, StopListening, vars, clientVars
  <2> QED
    BY <2>1, <2>2
<1> QED
  BY <1>1, Consistent, PTL DEF Spec, IdentityStable

-----------------------------------------------------------------------------
(* What a late packet of a client that left can still do. *)

\* Nothing but a CLIENT_CONNECT makes an entry of its sender.
LEMMA OnlyConnectRegisters ==
  ASSUME TypeOK, NEW p \in toServer, ProcessEvents(p), NEW c \in Clients, EntriesOf(c) = {}
  PROVE  \/ EntriesOf(c)' = {}
         \/ /\ p.client = c /\ p.type = "CLIENT_CONNECT"
            /\ \E id \in EntriesOf(c)' : Echo(p, id) \in toClient'
<1>0. p \in ToServerPacket /\ p.client \in Clients
  BY DEF TypeOK, ToServerPacket
<1>1. CASE RejectWhenFull(p) \/ IgnoreUnknown(p)
  BY <1>0, <1>1 DEF RejectWhenFull, IgnoreUnknown, managerVars, EntriesOf
<1>2. CASE HandleConnect(p)
  <2>1. PICK id : Add(p.client, id) /\ Echo(p, id) \in toClient'
    BY <1>2 DEF HandleConnect
  <2>2. \/ clients' = clients
        \/ /\ id = idx /\ DOMAIN clients' = DOMAIN clients \cup {idx}
           /\ clients'[idx] = NewEntry(p.client)
           /\ \A i \in DOMAIN clients : clients'[i] = clients[i]
    BY <1>0, <2>1, AddEffect
  <2>3. NewEntry(p.client).addr = p.client /\ p.type = "CLIENT_CONNECT"
    BY <1>2 DEF NewEntry, HandleConnect
  <2> QED
    BY <2>1, <2>2, <2>3 DEF EntriesOf
<1>3. CASE HandleInput(p)
  BY <1>0, <1>3, InputEffect DEF EntriesOf
<1>4. CASE HandleDisconnect(p)
  BY <1>0, <1>4, DisconnectEffect DEF EntriesOf
<1> QED
  BY <1>1, <1>2, <1>3, <1>4 DEF ProcessEvents

\* A late input or a repeated disconnect brings nobody back.
THEOREM OnlyConnectsRevive == Spec => OnlyConnectRevives
<1>1. TypeOK /\ [Next]_vars =>
        [\A c \in Clients :
           EntriesOf(c) = {} /\ EntriesOf(c)' # {} =>
             \E p \in toClient' : /\ p.client = c /\ p.type = "CLIENT_CONNECT"
                                  /\ p.sender \in EntriesOf(c)']_vars
  <2> SUFFICES ASSUME TypeOK, [Next]_vars, NEW c \in Clients, EntriesOf(c) = {}, EntriesOf(c)' # {}
               PROVE  \E p \in toClient' : /\ p.client = c /\ p.type = "CLIENT_CONNECT"
                                           /\ p.sender \in EntriesOf(c)'
    OBVIOUS
  <2>1. \E p \in toServer : ProcessEvents(p)
    BY DEF Next, ServerStep, ClientStep, Shutdown, vars, serverVars, managerVars, EntriesOf
  <2>2. PICK p \in toServer : ProcessEvents(p)
    BY <2>1
  <2>3. /\ p.client = c /\ p.type = "CLIENT_CONNECT"
        /\ \E id \in EntriesOf(c)' : Echo(p, id) \in toClient'
    BY <2>2, OnlyConnectRegisters
  <2> QED
    BY <2>3 DEF Echo
<1> QED
  BY <1>1, TypeCorrect, PTL DEF Spec, OnlyConnectRevives

\* The server holds nothing of the client, and no connect of it is on its way.
Forgotten(c) ==
  /\ ~InSession(c)
  /\ EntriesOf(c) = {}
  /\ \A p \in toServer : p.client = c => p.type # "CLIENT_CONNECT"

\* A client that left sends no connect any more.
LEMMA NoConnectSent ==
  ASSUME TypeOK, [Next]_vars, NEW c \in Clients, Forgotten(c)
  PROVE  \A p \in toServer' : p.client = c => p.type # "CLIENT_CONNECT"
<1>1. ASSUME NEW d \in Clients, SendConnect(d) \/ SendDisconnect(d) \/ Frame(d)
      PROVE  \A p \in toServer' : p.client = c => p.type # "CLIENT_CONNECT"
  <2>1. CASE SendConnect(d)
    <3>1. d # c
      BY <2>1 DEF SendConnect, Forgotten, InSession
    <3> QED
      BY <2>1, <3>1 DEF SendConnect, Packet, Forgotten
  <2>2. CASE SendDisconnect(d) \/ Frame(d)
    BY <2>2 DEF SendDisconnect, Frame, Packet, Forgotten
  <2> QED
    BY <1>1, <2>1, <2>2
<1>2. CASE toServer' \subseteq toServer
  BY <1>2 DEF Forgotten
<1>3. \/ \E d \in Clients : SendConnect(d) \/ SendDisconnect(d) \/ Frame(d)
      \/ toServer' \subseteq toServer
  BY RemainingSubset
     DEF Next, ServerStep, ProcessEvents, Shutdown, LosePacket, ClientStep, MainStep,
     ListenerStep, EnterGame, CloseWindow, StopSending, JoinListener, Receive,
     HandleConnectEcho, HandleDisconnectEcho, SaveId, StopListening, vars, serverVars, pathVars
<1> QED
  BY <1>1, <1>2, <1>3

(***************************************************************************)
(* Whatever the path does: once a client left, is in no entry and has no   *)
(* CLIENT_CONNECT on the way, it is never registered again.                *)
(***************************************************************************)
THEOREM ForgottenForGood ==
  Spec => [][\A c \in Clients : Forgotten(c) => Forgotten(c)']_vars
<1>1. TypeOK /\ [Next]_vars => [\A c \in Clients : Forgotten(c) => Forgotten(c)']_vars
  <2> SUFFICES ASSUME TypeOK, [Next]_vars, NEW c \in Clients, Forgotten(c)
               PROVE  Forgotten(c)'
    OBVIOUS
  <2>1. ~InSession(c)'
    BY LeftForGood DEF Forgotten
  <2>2. EntriesOf(c)' = {}
    <3>1. clients' = clients \/ \E p \in toServer : ProcessEvents(p)
      BY DEF Next, ServerStep, ClientStep, Shutdown, vars, serverVars, managerVars
    <3>2. CASE clients' = clients
      BY <3>2 DEF Forgotten, EntriesOf
    <3> QED
      BY <3>1, <3>2, OnlyConnectRegisters DEF Forgotten
  <2> QED
    BY <2>1, <2>2, NoConnectSent DEF Forgotten
<1> QED
  BY <1>1, TypeCorrect, PTL DEF Spec

-----------------------------------------------------------------------------
(* Refinement: every step of the protocol is a step of the lobby or leaves *)
(* the lobby's variables alone.                                            *)

LEMMA LobbyInit == Init => Abstract!Init
<1> SUFFICES ASSUME Init PROVE Abstract!Init
  OBVIOUS
<1>1. DOMAIN clients = {} /\ idx = 0
  BY DEF Init, ServerInit, ManagerInit
<1>2. Members = [i \in {} |-> i]
  BY <1>1 DEF Members
<1>3. Phase = [c \in Clients |-> "outside"]
  BY DEF Init, ClientInit, Phase
<1> QED
  BY <1>1, <1>2, <1>3 DEF Abstract!Init

\* A client with an entry is a member.
LEMMA MembersAreEntries ==
  ASSUME NEW c
  PROVE  Abstract!IsMember(c) <=> EntriesOf(c) # {}
BY DEF Abstract!IsMember, Members, EntriesOf

\* The lobby counts as FiniteSets does.
LEMMA SameCardinality ==
  ASSUME NEW S
  PROVE  Abstract!Cardinality(S) = Cardinality(S)
BY Zenon DEF Abstract!Cardinality, Cardinality

LEMMA LobbyServerStep ==
  ASSUME IInv, NEW p \in toServer, ProcessEvents(p), UNCHANGED clientVars
  PROVE  [Abstract!Next]_(Abstract!vars)
<1>0. TypeOK /\ p \in ToServerPacket /\ p.client \in Clients
  BY DEF IInv, TypeOK, ToServerPacket
<1>1. Phase' = Phase
  BY DEF clientVars, Phase
<1>2. CASE Members' = Members /\ idx' = idx
  BY <1>1, <1>2 DEF Abstract!vars
<1>3. CASE HandleConnect(p)
  <2>1. PICK id : Add(p.client, id)
    BY <1>3 DEF HandleConnect
  <2>2. CASE UNCHANGED <<clients, idx>>
    BY <1>2, <2>2 DEF Members
  <2>3. CASE ~UNCHANGED <<clients, idx>>
    <3>1. /\ EntriesOf(p.client) = {}
          /\ idx' = idx + 1
          /\ idx \notin DOMAIN clients
          /\ DOMAIN clients' = DOMAIN clients \cup {idx}
          /\ clients'[idx] = NewEntry(p.client)
          /\ \A i \in DOMAIN clients : clients'[i] = clients[i]
      BY <1>0, <2>1, <2>3, AddEffect
    <3>2. ~Abstract!IsMember(p.client)
      BY <3>1, MembersAreEntries
    <3>3. DOMAIN Members = DOMAIN clients
      BY DEF Members
    <3>4. Cardinality(DOMAIN Members) < MaxPlayers
      <4>1. Cardinality(DOMAIN clients) \in Nat
        BY <1>0, RegistryFinite, FS_CardinalityType
      <4> QED
        BY <1>3, <3>3, <4>1, ServerAssumption DEF HandleConnect, Full, count
    <3>5. Members' = [i \in DOMAIN Members \cup {idx} |->
                        IF i = idx THEN p.client ELSE Members[i]]
      BY <3>1, <3>3 DEF Members, NewEntry
    <3>6. Abstract!Admit(p.client)
      BY <1>1, <3>1, <3>2, <3>4, <3>5, SameCardinality DEF Abstract!Admit
    <3> QED
      BY <1>0, <3>6 DEF Abstract!Next
  <2> QED
    BY <2>2, <2>3
<1>4. CASE HandleInput(p)
  <2>1. /\ idx' = idx
        /\ DOMAIN clients' = DOMAIN clients
        /\ \A i \in DOMAIN clients : clients'[i].addr = clients[i].addr
    BY <1>0, <1>4, InputEffect
  <2>2. Members' = Members
    BY <2>1 DEF Members
  <2> QED
    BY <1>2, <2>1, <2>2
<1>5. CASE HandleDisconnect(p)
  <2>1. PICK id \in EntriesOf(p.client) : DOMAIN clients' = DOMAIN clients \ {id}
    BY <1>0, <1>5, DisconnectEffect
  <2>2. idx' = idx /\ \A i \in DOMAIN clients' : clients'[i] = clients[i]
    BY <1>0, <1>5, DisconnectEffect
  <2>3. id \in DOMAIN Members /\ Members[id] = p.client
    BY DEF Members, EntriesOf
  <2>4. Phase[p.client] = "gone"
    <3>1. ~InSession(p.client)
      BY <1>5 DEF HandleDisconnect, IInv, DisconnectMeansLeft
    <3> QED
      BY <1>0, <3>1 DEF Phase, InSession
  <2>5. Members' = Restrict(Members, DOMAIN Members \ {id})
    BY <2>1, <2>2 DEF Members, Restrict
  <2>6. Abstract!StrikeOff(id)
    BY <1>1, <2>2, <2>3, <2>4, <2>5 DEF Abstract!StrikeOff, Abstract!Restrict, Restrict
  <2> QED
    BY <2>3, <2>6 DEF Abstract!Next
<1>6. CASE RejectWhenFull(p) \/ IgnoreUnknown(p)
  BY <1>2, <1>6 DEF RejectWhenFull, IgnoreUnknown, managerVars, Members
<1> QED
  BY <1>3, <1>4, <1>5, <1>6 DEF ProcessEvents

LEMMA LobbyMainStep ==
  ASSUME IInv, NEW c \in Clients, MainStep(c), UNCHANGED serverVars
  PROVE  [Abstract!Next]_(Abstract!vars)
<1>0. TypeOK
  BY DEF IInv
<1>1. Members' = Members /\ idx' = idx
  BY DEF serverVars, managerVars, Members
<1>2. CASE EnterGame(c)
  <2>1. Phase[c] = "outside" /\ Phase' = [Phase EXCEPT ![c] = "inside"]
    BY <1>0, <1>2 DEF EnterGame, MainGoes, Phase, TypeOK
  <2>2. Abstract!IsMember(c)
    BY <1>2, MembersAreEntries DEF EnterGame, MainGoes, IInv, AcknowledgedHasEntry,
       Acknowledged, InSession
  <2> QED
    BY <1>1, <2>1, <2>2 DEF Abstract!Next, Abstract!Enter
<1>3. CASE CloseWindow(c)
  <2>1. Phase[c] = "inside" /\ Phase' = [Phase EXCEPT ![c] = "gone"]
    BY <1>0, <1>3 DEF CloseWindow, MainGoes, Phase, TypeOK
  <2> QED
    BY <1>1, <2>1 DEF Abstract!Next, Abstract!Leave
<1>4. CASE StopSending(c) \/ JoinListener(c)
  <2>1. Phase' = Phase
    BY <1>0, <1>4 DEF StopSending, JoinListener, MainGoes, Phase, TypeOK
  <2> QED
    BY <1>1, <2>1 DEF Abstract!vars
<1>5. CASE main' = main
  BY <1>1, <1>5 DEF Abstract!vars, Phase
<1> QED
  BY <1>2, <1>3, <1>4, <1>5 DEF MainStep, SendConnect, Frame, SendDisconnect, clientVars

LEMMA LobbyNext == IInv /\ [Next]_vars => [Abstract!Next]_(Abstract!vars)
<1> SUFFICES ASSUME IInv, [Next]_vars PROVE [Abstract!Next]_(Abstract!vars)
  OBVIOUS
<1>1. CASE UNCHANGED <<clients, idx, main>>
  BY <1>1 DEF Abstract!vars, Members, Phase
<1>2. CASE ServerStep
  BY <1>1, <1>2, LobbyServerStep DEF ServerStep, Shutdown, managerVars, clientVars
<1>3. ASSUME NEW c \in Clients, ClientStep(c)
      PROVE  [Abstract!Next]_(Abstract!vars)
  <2>1. CASE MainStep(c)
    BY <1>3, <2>1, LobbyMainStep DEF ClientStep
  <2>2. CASE ListenerStep(c)
    BY <1>1, <1>3, <2>2 DEF ClientStep, ListenerStep, Receive, HandleConnectEcho,
       HandleDisconnectEcho, SaveId, StopListening, serverVars, managerVars
  <2> QED
    BY <1>3, <2>1, <2>2 DEF ClientStep
<1> QED
  BY <1>1, <1>2, <1>3 DEF Next, LosePacket, vars, serverVars, managerVars, clientVars

\* The protocol implements the lobby.
THEOREM Refinement == Spec => ImplementsLobby
BY LobbyInit, LobbyNext, Consistent, PTL DEF Spec, ImplementsLobby, Abstract!Spec
=============================================================================
