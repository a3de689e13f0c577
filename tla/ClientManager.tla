---------------------------- MODULE ClientManager ----------------------------
(***************************************************************************)
(* ClientManager (src/server/client_manager.cpp): the server's registry of *)
(* connected clients, an unordered_map from an id the server hands out to  *)
(* the entry of one client address.  A client process has an address (IP   *)
(* and ephemeral port) of its own, so an address is a client.              *)
(* An entry keeps what the session protocol reads of a ClientAddr: the     *)
(* address, the timestamp of last_input, and player.id.                    *)
(***************************************************************************)
EXTENDS Integers, FiniteSets, Functions

CONSTANTS
  IdHalf,      \* 2^7 in the code: an int8_t holds -IdHalf .. IdHalf-1
  MaxIds       \* bound: how many ids the model lets the server hand out

ASSUME ManagerAssumption ==
  /\ IdHalf \in Nat \ {0}
  /\ MaxIds \in Nat \ {0}

VARIABLES
  clients,     \* id -> entry
  idx          \* the next id

managerVars == <<clients, idx>>

NoId == -1
NoInput == 0   \* InputPacket{}.header.timestamp

\* ClientAddr::ClientAddr(addr, name): no input yet, player.id is -1.
NewEntry(a) == [addr |-> a, lastInput |-> NoInput, playerId |-> NoId]

ManagerInit ==
  /\ clients = [i \in {} |-> NewEntry(i)]
  /\ idx = 0

\* The ids whose entry has address a: where add's and get's find_if looks.
EntriesOf(a) == {i \in DOMAIN clients : clients[i].addr = a}

count == Cardinality(DOMAIN clients)

\* ClientID is an int, PlayerState::id an int8_t: the assignment wraps.
Narrow(n) == ((n + IdHalf) % (2 * IdHalf)) - IdHalf

\* The half of add that emplaces; on its own, add without its find_if.
AddBlindly(a, id) ==
  /\ idx < MaxIds
  /\ id = idx
  /\ clients' = [i \in DOMAIN clients \cup {idx} |->
                   IF i = idx THEN NewEntry(a) ELSE clients[i]]
  /\ idx' = idx + 1

(***************************************************************************)
(* add(a), which returns the entry with this id: the one a already has, or *)
(* a new one under the next id.                                            *)
(***************************************************************************)
Add(a, id) ==
  \/ /\ id \in EntriesOf(a)
     /\ UNCHANGED managerVars
  \/ /\ EntriesOf(a) = {}
     /\ AddBlindly(a, id)

\* Mutated remove: the freed id is the next one handed out.
RemoveAndReuseId(id) ==
  /\ clients' = Restrict(clients, DOMAIN clients \ {id})
  /\ idx' = id

Remove(id) ==
  /\ clients' = Restrict(clients, DOMAIN clients \ {id})
  /\ UNCHANGED idx
=============================================================================
