--------------------------------- MODULE Udp ---------------------------------
(***************************************************************************)
(* The UDP path between the game clients and the server, as sets of        *)
(* packets in transit.  The program only calls sendto and recvfrom; what   *)
(* the path may do with a packet is chosen by three constants.  Equal      *)
(* packets in transit at the same time are one packet of the set: a second *)
(* copy that would have arrived too is a duplicate, which Duplicates       *)
(* allows, and one that would not have is a loss.                          *)
(***************************************************************************)
EXTENDS Integers

CONSTANTS
  Loses,       \* may a packet in transit disappear?
  Duplicates,  \* may a packet be received more than once?
  Reorders     \* may a packet overtake one sent before it?

ASSUME PathAssumption == {Loses, Duplicates, Reorders} \subseteq BOOLEAN

VARIABLES
  toServer,    \* packets [type, client, timestamp] a client sent
  toClient     \* packets [type, client, sender] the server sent

pathVars == <<toServer, toClient>>

PathInit == toServer = {} /\ toClient = {}

(***************************************************************************)
(* A client sends its CLIENT_CONNECT packets, then its INPUT packets with  *)
(* growing timestamps, then its CLIENT_DISCONNECT packets, and the server  *)
(* answers in that order too: the packets tell which was sent first.       *)
(***************************************************************************)
SentBefore(p, q) ==
  /\ p.client = q.client
  /\ \/ p.type = "CLIENT_CONNECT" /\ q.type # "CLIENT_CONNECT"
     \/ p.type = "INPUT" /\ q.type = "CLIENT_DISCONNECT"
     \/ /\ p.type = "INPUT" /\ q.type = "INPUT"
        /\ p.timestamp < q.timestamp

Arrives(p, path) ==
  /\ p \in path
  /\ Reorders \/ \A q \in path : ~SentBefore(q, p)

(***************************************************************************)
(* What is left in transit once p was received.  A path that duplicates    *)
(* keeps p, to be received again or never: its loss is then that nobody    *)
(* receives it.                                                            *)
(***************************************************************************)
Remaining(p, path) == IF Duplicates THEN path ELSE path \ {p}

LosePacket ==
  /\ Loses
  /\ \/ /\ \E p \in toServer : toServer' = toServer \ {p}
        /\ UNCHANGED toClient
     \/ /\ \E p \in toClient : toClient' = toClient \ {p}
        /\ UNCHANGED toServer
=============================================================================
