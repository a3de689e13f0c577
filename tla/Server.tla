-------------------------------- MODULE Server --------------------------------
(***************************************************************************)
(* The session half of Server (src/server/server.cpp): process_events, the *)
(* handler of one received packet, and shutdown.  The server is one thread *)
(* and receives one packet per turn of its loop, so a handler is one step. *)
(***************************************************************************)
EXTENDS Udp, ClientManager

CONSTANTS
  MaxPlayers,       \* MAX_PLAYERS
  FreedAddrIntact   \* see EchoAfterRemove

ASSUME ServerAssumption ==
  /\ MaxPlayers \in Nat \ {0}
  /\ FreedAddrIntact \in BOOLEAN

VARIABLE serverRunning

serverVars == <<managerVars, serverRunning>>

ServerInit == ManagerInit /\ serverRunning = TRUE

\* The packet is sent back with header.sender set to the client's id.
\* Mutated: sender is left as it was received.
EchoAsReceived(p, id) == [type |-> p.type, client |-> p.client, sender |-> NoId]
Echo(p, id) == [type |-> p.type, client |-> p.client, sender |-> id]

\* Mutated: one client too many.
OverfullByOne == count > MaxPlayers
Full == count >= MaxPlayers

\* The early return in front of every packet type.
RejectWhenFull(p) ==
  /\ Full
  /\ UNCHANGED <<managerVars, toClient>>

\* Mutated: a client that is registered already is not answered again.
HandleFirstConnect(p) ==
  /\ ~Full
  /\ p.type = "CLIENT_CONNECT"
  /\ IF EntriesOf(p.client) = {}
     THEN /\ AddBlindly(p.client, idx)
          /\ toClient' = toClient \cup {Echo(p, idx)}
     ELSE UNCHANGED <<managerVars, toClient>>

HandleConnect(p) ==
  /\ ~Full
  /\ p.type = "CLIENT_CONNECT"
  /\ \E id \in 0 .. idx :
       /\ Add(p.client, id)
       /\ toClient' = toClient \cup {Echo(p, id)}

\* Mutated: add() instead of get(), so whatever arrives registers its sender.
RegisterUnknown(p) ==
  /\ ~Full
  /\ p.type # "CLIENT_CONNECT"
  /\ EntriesOf(p.client) = {}
  /\ AddBlindly(p.client, idx)
  /\ UNCHANGED toClient

\* "client already deleted": get() finds no entry of this address.
IgnoreUnknown(p) ==
  /\ ~Full
  /\ p.type # "CLIENT_CONNECT"
  /\ EntriesOf(p.client) = {}
  /\ UNCHANGED <<managerVars, toClient>>

\* Mutated: every input is adopted.
AnyInput(timestamp, last) == TRUE
Newer(timestamp, last) == timestamp > last

\* The entry adopts an input newer than its last one, and its player gets an id.
HandleInput(p) ==
  /\ ~Full
  /\ p.type = "INPUT"
  /\ \E id \in EntriesOf(p.client) :
       clients' = IF Newer(p.timestamp, clients[id].lastInput)
                  THEN [clients EXCEPT ![id].lastInput = p.timestamp,
                                       ![id].playerId = Narrow(id)]
                  ELSE clients
  /\ UNCHANGED <<idx, toClient>>

(***************************************************************************)
(* The acknowledgement goes to c->addr after manager.remove freed the     *)
(* map node c points into.  When the allocator leaves those bytes alone    *)
(* the echo reaches the client; when they were overwritten it goes to      *)
(* nobody.                                                                 *)
(***************************************************************************)
EchoAfterRemove(p, id) ==
  \/ toClient' = toClient \cup {Echo(p, id)}
  \/ ~FreedAddrIntact /\ UNCHANGED toClient

HandleDisconnect(p) ==
  /\ ~Full
  /\ p.type = "CLIENT_DISCONNECT"
  /\ \E id \in EntriesOf(p.client) : Remove(id) /\ EchoAfterRemove(p, id)

ProcessEvents(p) ==
  /\ serverRunning
  /\ Arrives(p, toServer)
  /\ toServer' = Remaining(p, toServer)
  /\ \/ RejectWhenFull(p)
     \/ HandleConnect(p)
     \/ IgnoreUnknown(p)
     \/ HandleInput(p)
     \/ HandleDisconnect(p)
  /\ UNCHANGED serverRunning

\* SIGINT: running becomes false and the loop ends.
Shutdown ==
  /\ serverRunning
  /\ serverRunning' = FALSE
  /\ UNCHANGED <<managerVars, pathVars>>
=============================================================================
