-------------------------------- MODULE Lobby --------------------------------
(***************************************************************************)
(* What the session protocol promises, without packets or threads: who is  *)
(* registered under which id, and where each client is in its life.  A     *)
(* client plays only while it is registered, under an id that was given to *)
(* nobody else before, and is struck off only once it has left.  The lobby *)
(* may admit anybody it has no entry for, a client that already left too:  *)
(* that the protocol forgets it in the end is not promised here.           *)
(***************************************************************************)
EXTENDS Integers, FiniteSets, Functions

CONSTANTS Clients, MaxPlayers

VARIABLES
  members,     \* id -> client
  issued,      \* ids given out so far are 0 .. issued-1
  phase        \* client -> "outside", "inside" or "gone"

vars == <<members, issued, phase>>

Init ==
  /\ members = [i \in {} |-> i]
  /\ issued = 0
  /\ phase = [c \in Clients |-> "outside"]

IsMember(c) == \E i \in DOMAIN members : members[i] = c

Admit(c) ==
  /\ ~IsMember(c)
  /\ Cardinality(DOMAIN members) < MaxPlayers
  /\ members' = [i \in DOMAIN members \cup {issued} |->
                   IF i = issued THEN c ELSE members[i]]
  /\ issued' = issued + 1
  /\ UNCHANGED phase

Enter(c) ==
  /\ phase[c] = "outside"
  /\ IsMember(c)
  /\ phase' = [phase EXCEPT ![c] = "inside"]
  /\ UNCHANGED <<members, issued>>

Leave(c) ==
  /\ phase[c] = "inside"
  /\ phase' = [phase EXCEPT ![c] = "gone"]
  /\ UNCHANGED <<members, issued>>

StrikeOff(i) ==
  /\ phase[members[i]] = "gone"
  /\ members' = Restrict(members, DOMAIN members \ {i})
  /\ UNCHANGED <<issued, phase>>

Next ==
  \/ \E c \in Clients : Admit(c) \/ Enter(c) \/ Leave(c)
  \/ \E i \in DOMAIN members : StrikeOff(i)

Spec == Init /\ [][Next]_vars
=============================================================================
