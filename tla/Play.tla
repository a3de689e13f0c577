--------------------------------- MODULE Play ---------------------------------
(***************************************************************************)
(* Prediction and reconciliation of one client in the game: the frame loop *)
(* of Client::run, the GAME_STATE branch of Client::listen_thread, and the *)
(* turns of Server::serve that play its input and broadcast its position.  *)
(*                                                                         *)
(* A position is a place on a line with a wall at either end, an input is  *)
(* the velocity it stands for.  The client's clock counts its frames; the  *)
(* server's clock is get_now_millis() of another machine, whose            *)
(* steady_clock started at another time: it is skew ahead of the client's, *)
(* or behind where skew is negative.                                       *)
(***************************************************************************)
EXTENDS Integers, Sequences, SequencesExt

CONSTANTS
  Velocities,    \* what the keys can ask for
  Speed,         \* how far an input moves a player at most
  Wall,          \* positions are 0 .. Wall
  Skews,         \* how far apart the two clocks may have started
  Loses,         \* may a packet be lost?
  Reorders,      \* may a later packet arrive first?
  MaxFrames,     \* bound: frames of the client
  MaxTicks,      \* bound: ticks the server catches up on in one turn
  MaxInTransit   \* packets a socket buffer holds; the next one is dropped

ASSUME PlayAssumption ==
  /\ Speed \in Nat /\ Velocities \subseteq -Speed .. Speed
  /\ Skews \subseteq Int
  /\ {Loses, Reorders} \subseteq BOOLEAN
  /\ {Wall, MaxFrames, MaxTicks, MaxInTransit} \subseteq Nat

VARIABLES
  main,         \* where the main thread is in its frame
  listener,     \* where the listening thread is
  input,        \* the InputPacket of the current frame
  frames,       \* frames so far: the client's clock
  local,        \* local_player
  unacknowledged,
  adopted,      \* the last GAME_STATE that overwrote local_player
  replayed,     \* unacknowledged.size() when that one was adopted
  player,       \* the server's position of the client
  lastInput,    \* last_input of the client's entry
  skew,         \* the server's clock minus the client's
  up, down      \* INPUT packets to, GAME_STATE packets from the server

clientVars == <<main, listener, input, frames, local, unacknowledged, adopted, replayed>>
serverVars == <<player, lastInput, skew>>
vars == <<clientVars, serverVars, up, down>>

Input(timestamp, vel) == [timestamp |-> timestamp, vel |-> vel]

(***************************************************************************)
(* A GAME_STATE as far as this client's player is concerned.  covers is    *)
(* the timestamp of the last input the server played.  The packet does not *)
(* say it: the client can only tell 0, when player.id is still -1.         *)
(***************************************************************************)
State(timestamp, pos, covers) ==
  [timestamp |-> timestamp, pos |-> pos, covers |-> covers]

Spawn == 0

Init ==
  /\ main = "frame" /\ listener = "saving"
  /\ input = Input(0, 0) /\ frames = 0
  /\ local = Spawn /\ unacknowledged = <<>>
  /\ adopted = State(0, Spawn, 0) /\ replayed = 0
  /\ player = Spawn /\ lastInput = Input(0, 0) /\ skew \in Skews
  /\ up = <<>> /\ down = <<>>

\* Mutated: walls are not looked at.
PlayerUpdatedUnchecked(pos, vel) == pos + vel

\* player_update on the line: a step into the wall ends at the wall.
PlayerUpdated(pos, vel) ==
  CASE pos + vel < 0    -> 0
    [] pos + vel > Wall -> Wall
    [] OTHER            -> pos + vel

Replay(pos, inputs) == FoldLeft(LAMBDA x, i : PlayerUpdated(x, i.vel), pos, inputs)

\* The receiving socket drops what its buffer cannot hold.
Deliver(path, packet) ==
  IF Len(path) < MaxInTransit THEN Append(path, packet) ELSE path

\* The packets in transit that may be received next.
Arriving(path) == IF Reorders THEN DOMAIN path ELSE DOMAIN path \cap {1}

-----------------------------------------------------------------------------
(* The main thread: one frame is GetInput, Predict and SendInput. *)

(***************************************************************************)
(* get_input and unacknowledged.push_back, which takes no lock.  While the *)
(* listener erases from and iterates over the vector the push may be lost. *)
(***************************************************************************)
GetInput ==
  /\ main = "frame"
  /\ frames < MaxFrames
  /\ frames' = frames + 1
  /\ \E vel \in Velocities : input' = Input(frames + 1, vel)
  /\ \/ unacknowledged' = Append(unacknowledged, input')
     \/ listener = "replaying" /\ UNCHANGED unacknowledged
  /\ main' = "predict"
  /\ UNCHANGED <<listener, local, adopted, replayed, serverVars, up, down>>

\* Under state_mutex.  client_id is -1 until the listener has saved it.
Predict ==
  /\ main = "predict"
  /\ listener # "replaying"
  /\ local' = IF listener = "saving" THEN local ELSE PlayerUpdated(local, input.vel)
  /\ main' = "send"
  /\ UNCHANGED <<listener, input, frames, unacknowledged, adopted, replayed, serverVars, up, down>>

SendInput ==
  /\ main = "send"
  /\ up' = Deliver(up, input)
  /\ main' = "frame"
  /\ UNCHANGED <<listener, input, frames, local, unacknowledged, adopted, replayed, serverVars, down>>

-----------------------------------------------------------------------------
(* The listening thread. *)

\* client_id = header->sender; the main thread is past connecting already.
SaveId ==
  /\ listener = "saving"
  /\ listener' = "polling"
  /\ UNCHANGED <<main, input, frames, local, unacknowledged, adopted, replayed, serverVars, up, down>>

\* upper_bound: how many inputs of a sequence in timestamp order come first
\* that are no later than timestamp.
UpperBound(inputs, timestamp) ==
  CHOOSE n \in 0 .. Len(inputs) :
    /\ \A i \in 1 .. n : inputs[i].timestamp <= timestamp
    /\ \A i \in n + 1 .. Len(inputs) : inputs[i].timestamp > timestamp

\* What the erase of the inputs up to there leaves.
After(inputs, timestamp) ==
  SubSeq(inputs, UpperBound(inputs, timestamp) + 1, Len(inputs))

\* find_if finds no player of this id: the state is left alone.
Ignore ==
  /\ listener = "polling"
  /\ \E i \in Arriving(down) :
       /\ down[i].covers = 0
       /\ down' = RemoveAt(down, i)
  /\ UNCHANGED <<clientVars, serverVars, up>>

\* Mutated: the predicted position is kept.
AdoptTimestampOnly ==
  /\ listener = "polling"
  /\ \E i \in Arriving(down) :
       /\ down[i].covers # 0
       /\ adopted' = down[i]
       /\ down' = RemoveAt(down, i)
  /\ unacknowledged' = After(unacknowledged, adopted'.timestamp)
  /\ replayed' = Len(unacknowledged')
  /\ listener' = "replaying"
  /\ UNCHANGED <<main, input, frames, local, serverVars, up>>

\* Takes state_mutex, overwrites local_player, erases what the state covers.
Adopt ==
  /\ listener = "polling"
  /\ \E i \in Arriving(down) :
       /\ down[i].covers # 0
       /\ adopted' = down[i]
       /\ down' = RemoveAt(down, i)
  /\ local' = adopted'.pos
  /\ unacknowledged' = After(unacknowledged, adopted'.timestamp)
  /\ replayed' = Len(unacknowledged')
  /\ listener' = "replaying"
  /\ UNCHANGED <<main, input, frames, serverVars, up>>

(***************************************************************************)
(* The loop over unacknowledged, then state_mutex is released.  An input   *)
(* pushed meanwhile is among those it visits, or not.                      *)
(***************************************************************************)
ReplayInputs ==
  /\ listener = "replaying"
  /\ \E n \in replayed .. Len(unacknowledged) :
       local' = Replay(local, SubSeq(unacknowledged, 1, n))
  /\ listener' = "polling"
  /\ UNCHANGED <<main, input, frames, unacknowledged, adopted, replayed, serverVars, up, down>>

-----------------------------------------------------------------------------
(***************************************************************************)
(* One turn of serve: a packet, the ticks that are due, a broadcast.  Each *)
(* tick moves the player by its last input.                                *)
(***************************************************************************)
Ticks(pos, last, n) == Replay(pos, [k \in 1 .. n |-> last])

Broadcast(n, last) ==
  /\ player' = Ticks(player, last, n)
  /\ lastInput' = last
  /\ down' = Deliver(down, State(frames + skew, player', last.timestamp))
  /\ UNCHANGED <<clientVars, skew>>

InputTurn ==
  \E i \in Arriving(up), n \in 0 .. MaxTicks :
    /\ up' = RemoveAt(up, i)
    /\ Broadcast(n, IF up[i].timestamp > lastInput.timestamp THEN up[i] ELSE lastInput)

\* A packet of another client started the turn.
OtherTurn ==
  /\ \E n \in 0 .. MaxTicks : Broadcast(n, lastInput)
  /\ UNCHANGED up

Lose ==
  /\ Loses
  /\ \/ /\ \E i \in DOMAIN up : up' = RemoveAt(up, i)
        /\ UNCHANGED down
     \/ /\ \E i \in DOMAIN down : down' = RemoveAt(down, i)
        /\ UNCHANGED up
  /\ UNCHANGED <<clientVars, serverVars>>

Next ==
  \/ GetInput \/ Predict \/ SendInput
  \/ SaveId \/ Ignore \/ Adopt \/ ReplayInputs
  \/ InputTurn \/ OtherTurn
  \/ Lose

Spec == Init /\ [][Next]_vars

-----------------------------------------------------------------------------
Positions == 0 .. Wall
Inputs == [timestamp : Nat, vel : Int]
States == [timestamp : Int, pos : Positions, covers : Nat]

TypeOK ==
  /\ main \in {"frame", "predict", "send"}
  /\ listener \in {"saving", "polling", "replaying"}
  /\ input \in Inputs /\ frames \in Nat
  /\ local \in Positions /\ unacknowledged \in Seq(Inputs)
  /\ adopted \in States /\ replayed \in 0 .. Len(unacknowledged)
  /\ player \in Positions /\ lastInput \in Inputs /\ skew \in Skews
  /\ up \in Seq(Inputs) /\ down \in Seq(States)

(***************************************************************************)
(* "authoritative server reconciliation": once the client adopted a state  *)
(* that covers its last input it shows the position the server decided on, *)
(* whatever was lost, delayed or raced on the way there, up to the inputs  *)
(* it plays a second time because the state bears an earlier time than     *)
(* they do: none where the server's clock is not behind, and never more    *)
(* than the frames between that time and now.                              *)
(***************************************************************************)
Behind == IF adopted.timestamp < frames THEN frames - adopted.timestamp ELSE 0

Converges ==
  main = "frame" /\ listener = "polling" /\ frames > 0 /\ adopted.covers = frames =>
    local - adopted.pos \in -(Behind * Speed) .. (Behind * Speed)

(***************************************************************************)
(* The predicted position leaves the authoritative one by at most the      *)
(* inputs made since that state was sent, or since the time it bears if    *)
(* that is earlier, and one: the input of the current frame may be applied *)
(* by the replay and by the prediction.  A state that arrives late moves   *)
(* the player back, never further away from what the server said.          *)
(***************************************************************************)
Lead == IF skew > 0 THEN skew ELSE 0

DriftBounded ==
  LET since == frames - adopted.timestamp + Lead + 1
  IN local - adopted.pos \in -(since * Speed) .. (since * Speed)
=============================================================================
