-------------------------------- MODULE Client --------------------------------
(***************************************************************************)
(* The session half of Client (src/client/client.cpp), one process per     *)
(* address.  run() is the main thread: it sends CLIENT_CONNECT until it is *)
(* acknowledged, then one INPUT per frame until the window closes, then    *)
(* CLIENT_DISCONNECT until that is acknowledged, and joins the listener.   *)
(* listen_thread() is the other thread; the two share connecting, running  *)
(* and client_id.                                                          *)
(***************************************************************************)
EXTENDS Udp

CONSTANTS
  Clients,
  MaxFrames    \* bound: frames, hence INPUT packets, per client

ASSUME ClientAssumption == MaxFrames \in Nat

VARIABLES
  main,        \* where the main thread is in run()
  listener,    \* where the listening thread is in listen_thread()
  saving,      \* header.sender of the CONNECT echo the listener is handling
  connecting,
  running,
  clientId,
  frames       \* frames run so far

clientVars == <<main, listener, saving, connecting, running, clientId, frames>>

Nobody == -1   \* client_id of a client that does not know its id

ClientInit ==
  /\ main = [c \in Clients |-> "connecting"]
  /\ listener = [c \in Clients |-> "polling"]
  /\ saving = [c \in Clients |-> Nobody]
  /\ connecting = [c \in Clients |-> TRUE]
  /\ running = [c \in Clients |-> TRUE]
  /\ clientId = [c \in Clients |-> Nobody]
  /\ frames = [c \in Clients |-> 0]

Packet(c, type, timestamp) ==
  [type |-> type, client |-> c, timestamp |-> timestamp]

MainGoes(c, from, to) ==
  /\ main[c] = from
  /\ main' = [main EXCEPT ![c] = to]

-----------------------------------------------------------------------------
(* The main thread. *)

\* One turn of while (connecting): send, then sleep 50 ms.
SendConnect(c) ==
  /\ main[c] = "connecting"
  /\ connecting[c]
  /\ toServer' = toServer \cup {Packet(c, "CLIENT_CONNECT", 0)}
  /\ UNCHANGED <<clientVars, toClient>>

\* Mutated: the game starts after one send, acknowledged or not.
EnterGameWithoutAck(c) ==
  /\ MainGoes(c, "connecting", "playing")
  /\ UNCHANGED <<listener, saving, connecting, running, clientId, frames, pathVars>>

EnterGame(c) ==
  /\ MainGoes(c, "connecting", "playing")
  /\ ~connecting[c]
  /\ UNCHANGED <<listener, saving, connecting, running, clientId, frames, pathVars>>

\* One frame of the game loop; its InputPacket is stamped with the client's clock.
Frame(c) ==
  /\ main[c] = "playing"
  /\ frames[c] < MaxFrames
  /\ frames' = [frames EXCEPT ![c] = @ + 1]
  /\ toServer' = toServer \cup {Packet(c, "INPUT", frames[c] + 1)}
  /\ UNCHANGED <<main, listener, saving, connecting, running, clientId, toClient>>

CloseWindow(c) ==
  /\ MainGoes(c, "playing", "leaving")
  /\ UNCHANGED <<listener, saving, connecting, running, clientId, frames, pathVars>>

\* Mutated: a disconnect can be sent before the window closes.
SendDisconnectOnceConnected(c) ==
  /\ main[c] \in {"playing", "leaving"}
  /\ running[c]
  /\ toServer' = toServer \cup {Packet(c, "CLIENT_DISCONNECT", 0)}
  /\ UNCHANGED <<clientVars, toClient>>

\* One turn of while (running): send, then sleep 50 ms.
SendDisconnect(c) ==
  /\ main[c] = "leaving"
  /\ running[c]
  /\ toServer' = toServer \cup {Packet(c, "CLIENT_DISCONNECT", 0)}
  /\ UNCHANGED <<clientVars, toClient>>

\* Mutated: nobody waits for the acknowledgement.
StopSendingAtOnce(c) ==
  /\ MainGoes(c, "leaving", "joining")
  /\ UNCHANGED <<listener, saving, connecting, running, clientId, frames, pathVars>>

StopSending(c) ==
  /\ MainGoes(c, "leaving", "joining")
  /\ ~running[c]
  /\ UNCHANGED <<listener, saving, connecting, running, clientId, frames, pathVars>>

JoinListener(c) ==
  /\ MainGoes(c, "joining", "exited")
  /\ listener[c] = "stopped"
  /\ UNCHANGED <<listener, saving, connecting, running, clientId, frames, pathVars>>

-----------------------------------------------------------------------------
(* The listening thread. *)

CanReceive(c) ==
  /\ listener[c] = "polling"
  /\ saving[c] = Nobody
  /\ running[c]

\* connecting = false; the id is stored by a statement of its own, SaveId.
HandleConnectEcho(c, p) ==
  /\ p.type = "CLIENT_CONNECT"
  /\ connecting' = [connecting EXCEPT ![c] = FALSE]
  /\ saving' = [saving EXCEPT ![c] = p.sender]
  /\ UNCHANGED <<main, listener, running, clientId, frames, toServer>>

HandleDisconnectEcho(c, p) ==
  /\ p.type = "CLIENT_DISCONNECT"
  /\ running' = [running EXCEPT ![c] = FALSE]
  /\ UNCHANGED <<main, listener, saving, connecting, clientId, frames, toServer>>

Receive(c, p) ==
  /\ CanReceive(c)
  /\ p.client = c
  /\ Arrives(p, toClient)
  /\ toClient' = Remaining(p, toClient)
  /\ \/ HandleConnectEcho(c, p)
     \/ HandleDisconnectEcho(c, p)

SaveId(c) ==
  /\ saving[c] # Nobody
  /\ clientId' = [clientId EXCEPT ![c] = saving[c]]
  /\ saving' = [saving EXCEPT ![c] = Nobody]
  /\ UNCHANGED <<main, listener, connecting, running, frames, pathVars>>

\* Both loops of the listener end when running is false.
StopListening(c) ==
  /\ listener[c] = "polling"
  /\ saving[c] = Nobody
  /\ ~running[c]
  /\ listener' = [listener EXCEPT ![c] = "stopped"]
  /\ UNCHANGED <<main, saving, connecting, running, clientId, frames, pathVars>>
=============================================================================
