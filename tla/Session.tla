------------------------------- MODULE Session -------------------------------
(***************************************************************************)
(* The session protocol: the server, every client's two threads and the    *)
(* UDP path between them.                                                  *)
(***************************************************************************)
EXTENDS Server, Client

vars == <<serverVars, clientVars, pathVars>>

Init == ServerInit /\ ClientInit /\ PathInit

ServerStep ==
  /\ \/ \E p \in toServer : ProcessEvents(p)
     \/ Shutdown
  /\ UNCHANGED clientVars

MainStep(c) ==
  \/ SendConnect(c)
  \/ EnterGame(c)
  \/ Frame(c)
  \/ CloseWindow(c)
  \/ SendDisconnect(c)
  \/ StopSending(c)
  \/ JoinListener(c)

ListenerStep(c) ==
  \/ \E p \in toClient : Receive(c, p)
  \/ SaveId(c)
  \/ StopListening(c)

ClientStep(c) ==
  /\ MainStep(c) \/ ListenerStep(c)
  /\ UNCHANGED serverVars

Next ==
  \/ ServerStep
  \/ \E c \in Clients : ClientStep(c)
  \/ LosePacket /\ UNCHANGED <<serverVars, clientVars>>

Spec == Init /\ [][Next]_vars

-----------------------------------------------------------------------------
(***************************************************************************)
(* Fairness.  Both threads of a client and the server's loop run for ever  *)
(* unless they end themselves.  No user has to close the window.  While    *)
(* packets of a client are sent again and again, some are received: the    *)
(* path is not cut, in either direction.                                   *)
(***************************************************************************)
ServerReceives(c) ==
  /\ \E p \in toServer : p.client = c /\ ProcessEvents(p)
  /\ UNCHANGED clientVars

ClientReceives(c) ==
  /\ \E p \in toClient : Receive(c, p)
  /\ UNCHANGED serverVars

MainLoops(c) ==
  /\ \/ SendConnect(c) \/ EnterGame(c)
     \/ SendDisconnect(c) \/ StopSending(c) \/ JoinListener(c)
  /\ UNCHANGED serverVars

ListenerLoops(c) ==
  /\ SaveId(c) \/ StopListening(c)
  /\ UNCHANGED serverVars

Fairness ==
  \A c \in Clients :
    /\ WF_vars(MainLoops(c))
    /\ WF_vars(ListenerLoops(c))
    /\ SF_vars(ServerReceives(c))
    /\ SF_vars(ClientReceives(c))

FairSpec == Spec /\ Fairness

-----------------------------------------------------------------------------
\* The values the variables range over.
Ids == Int
Entry == [addr : Clients, lastInput : Nat, playerId : Ids]
ToServerPacket ==
  [type : {"CLIENT_CONNECT", "INPUT", "CLIENT_DISCONNECT"},
   client : Clients, timestamp : Nat]
ToClientPacket ==
  [type : {"CLIENT_CONNECT", "CLIENT_DISCONNECT"}, client : Clients, sender : Nat]

TypeOK ==
  /\ idx \in Nat
  /\ DOMAIN clients \in SUBSET (0 .. idx - 1)
  /\ clients \in [DOMAIN clients -> Entry]
  /\ serverRunning \in BOOLEAN
  /\ main \in [Clients -> {"connecting", "playing", "leaving", "joining", "exited"}]
  /\ listener \in [Clients -> {"polling", "stopped"}]
  /\ saving \in [Clients -> Ids]
  /\ connecting \in [Clients -> BOOLEAN]
  /\ running \in [Clients -> BOOLEAN]
  /\ clientId \in [Clients -> Ids]
  /\ frames \in [Clients -> Nat]
  /\ toServer \in SUBSET ToServerPacket
  /\ toClient \in SUBSET ToClientPacket

(***************************************************************************)
(* GameStatePacket::players has MAX_PLAYERS slots and send_game_state      *)
(* writes one per entry without a check of its own: the registry never     *)
(* holds more entries than that, however connects are retried.             *)
(***************************************************************************)
WithinCapacity == count <= MaxPlayers

(***************************************************************************)
(* find_if over addresses takes the first match: no client has two         *)
(* entries, although every CLIENT_CONNECT it retries or the path repeats   *)
(* goes through add().                                                     *)
(***************************************************************************)
OneEntryPerClient == \A c \in Clients : Cardinality(EntriesOf(c)) <= 1

(***************************************************************************)
(* A client that was acknowledged and has not left is registered, and the  *)
(* id it stored, if it stored one already, is its own entry's: a late echo *)
(* or a repeated CLIENT_CONNECT never takes the registration or the id     *)
(* away.                                                                   *)
(***************************************************************************)
InSession(c) == main[c] \in {"connecting", "playing"}
Acknowledged(c) == InSession(c) /\ ~connecting[c]

PlayingIsRegistered ==
  \A c \in Clients : Acknowledged(c) =>
    \E i \in EntriesOf(c) : clientId[c] \in {Nobody, i}

(***************************************************************************)
(* run() waits for connecting without looking at running: if the listener  *)
(* stopped before the client left, the main thread would wait for ever.    *)
(***************************************************************************)
ListenerOutlivesGame ==
  \A c \in Clients : InSession(c) => running[c] /\ listener[c] = "polling"

(***************************************************************************)
(* An id names one address for ever: no step gives an id that was handed   *)
(* out, even one freed by a disconnect, to another entry, so a late packet *)
(* with an id never means another client.                                  *)
(***************************************************************************)
IdNamesOneClient ==
  [][/\ idx' >= idx
     /\ \A i \in DOMAIN clients' :
          \/ i \in DOMAIN clients /\ clients'[i].addr = clients[i].addr
          \/ i >= idx]_vars

(***************************************************************************)
(* The input the server plays for a client never goes back in the client's *)
(* time, in whatever order and how often INPUT packets arrive.             *)
(***************************************************************************)
InputNeverRewinds ==
  [][\A i \in DOMAIN clients \cap DOMAIN clients' :
       clients'[i].lastInput >= clients[i].lastInput]_vars

(***************************************************************************)
(* Only a CLIENT_CONNECT makes an entry.  Whatever else arrives late or    *)
(* again of a client without one, an input or a repeated disconnect,       *)
(* registers nobody: an entry appears together with the answer to a        *)
(* connect, which tells the client the id of this very entry.              *)
(***************************************************************************)
OnlyConnectRevives ==
  [][\A c \in Clients :
       EntriesOf(c) = {} /\ EntriesOf(c)' # {} =>
         \E p \in toClient' : /\ p.client = c /\ p.type = "CLIENT_CONNECT"
                              /\ p.sender \in EntriesOf(c)']_vars

(***************************************************************************)
(* The id a playing client stored does not change under it.                *)
(***************************************************************************)
IdentityStable ==
  [][\A c \in Clients :
       main[c] = "playing" /\ clientId[c] # Nobody => clientId'[c] = clientId[c]]_vars

\* Every client that connects gets to play, unless the server is shut down.
ConnectCompletes ==
  \A c \in Clients :
    main[c] = "connecting" ~> main[c] # "connecting" \/ ~serverRunning

\* "keep sending disconnect packet until server gets it": it does get it.
DisconnectReachesServer ==
  \A c \in Clients :
    main[c] = "leaving" ~> EntriesOf(c) = {} \/ ~serverRunning

\* A client whose window was closed ends.
LeavingEnds ==
  \A c \in Clients : main[c] = "leaving" ~> main[c] = "exited" \/ ~serverRunning

-----------------------------------------------------------------------------
(***************************************************************************)
(* The inductive invariant behind the safety properties: what the packets  *)
(* in transit and the fields the two threads share say about the registry. *)
(***************************************************************************)
AddressesDiffer ==
  \A i, j \in DOMAIN clients : clients[i].addr = clients[j].addr => i = j

\* A disconnect, its echo or its effect is seen only of clients that left.
DisconnectMeansLeft ==
  /\ \A p \in toServer \cup toClient :
       p.type = "CLIENT_DISCONNECT" => ~InSession(p.client)
  /\ \A c \in Clients : ~running[c] => ~InSession(c)
  /\ \A c \in Clients : listener[c] = "stopped" => ~running[c]

\* An id on its way to a client in session is the id of that client's entry.
IdsInTransit ==
  /\ \A p \in toClient :
       p.type = "CLIENT_CONNECT" /\ InSession(p.client) =>
         p.sender \in EntriesOf(p.client)
  /\ \A c \in Clients : InSession(c) =>
       /\ saving[c] # Nobody => saving[c] \in EntriesOf(c)
       /\ clientId[c] # Nobody => clientId[c] \in EntriesOf(c)

AcknowledgedHasEntry ==
  /\ \A c \in Clients : Acknowledged(c) => EntriesOf(c) # {}
  /\ \A c \in Clients : main[c] = "playing" => ~connecting[c]

IInv ==
  /\ TypeOK
  /\ WithinCapacity
  /\ AddressesDiffer
  /\ DisconnectMeansLeft
  /\ IdsInTransit
  /\ AcknowledgedHasEntry

-----------------------------------------------------------------------------
(* The session protocol implements the lobby. *)

Members == [i \in DOMAIN clients |-> clients[i].addr]

Phase ==
  [c \in Clients |-> IF main[c] = "connecting" THEN "outside"
                    ELSE IF main[c] = "playing" THEN "inside"
                    ELSE "gone"]

Abstract == INSTANCE Lobby
            WITH members <- Members, issued <- idx, phase <- Phase

ImplementsLobby == Abstract!Spec
=============================================================================
