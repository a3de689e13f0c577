---------------------------------- MODULE View ----------------------------------
(***************************************************************************)
(* Interpolation: the two StateBuffers of a client (state_buffer.hpp), the *)
(* listening thread that appends to them, and the part of a frame of       *)
(* Client::run that trims them and draws from them.                        *)
(*                                                                         *)
(* What the server broadcasts moves at constant speed: at time n it is at  *)
(* place n.  A thing drawn in the past is then drawn in the right place    *)
(* when it is drawn at the render time.                                    *)
(***************************************************************************)
EXTENDS Integers, Sequences, FiniteSets, FiniteSetsExt, SequencesExt

CONSTANTS
  Me, Other,      \* ids of this client's player and of another
  Delay,          \* INTERPOLATION_DELAY
  Skew,           \* the server's clock minus this client's
  Word,           \* uint64_t differences are modulo this
  Reorders,       \* may a later packet arrive first?
  MaxTime,        \* bound: the client's clock
  MaxBroadcasts   \* bound: states the server sends

ASSUME ViewAssumption ==
  /\ {Me, Other, Delay, MaxTime, MaxBroadcasts} \subseteq Nat /\ Me # Other
  /\ Delay <= MaxTime /\ MaxTime < Word
  /\ Skew \in Int /\ Word \in Nat /\ Reorders \in BOOLEAN

NoId == -1
Kinds == {"state", "bullets"}

VARIABLES
  now,          \* the client's steady clock
  known,        \* has the server had an input of this client?
  broadcasts,   \* how many
  path,         \* packets in transit, by kind; one that never arrives is lost
  arrived,      \* all packets that came, in order of arrival
  buffer,       \* game_state_buffer and bullet_state_buffer
  main,         \* where the main thread is in its frame
  renderTime,   \* render_time, once a buffer is to be drawn
  drawn         \* the last drawing from each buffer

vars == <<now, known, broadcasts, path, arrived, buffer, main, renderTime, drawn>>

NoPacket == [timestamp |-> 0, ids |-> {}]
Nothing == [time |-> 0, from |-> NoPacket, to |-> NoPacket, things |-> {}]

Init ==
  /\ now = Delay /\ known = FALSE /\ broadcasts = 0
  /\ path = [k \in Kinds |-> <<>>]
  /\ arrived = [k \in Kinds |-> <<>>]
  /\ buffer = [k \in Kinds |-> <<>>]
  /\ main = "sizeOfBullets" /\ renderTime = 0
  /\ drawn = [k \in Kinds |-> Nothing]

PassTime ==
  /\ now < MaxTime
  /\ now' = now + 1
  /\ UNCHANGED <<known, broadcasts, path, arrived, buffer, main, renderTime, drawn>>

-----------------------------------------------------------------------------
(***************************************************************************)
(* send_game_state and send_bullet_state, as often as packets wake the     *)
(* server.  A player is listed under -1 until its first input arrives, and *)
(* stands at the spawn until then (World, UnknownAreFresh).  The other     *)
(* player is in the game while a bullet of its is in flight.               *)
(***************************************************************************)
Broadcast ==
  /\ broadcasts < MaxBroadcasts
  /\ broadcasts' = broadcasts + 1
  /\ known' \in {k \in BOOLEAN : known => k}
  /\ \E others \in SUBSET {Other} :
       path' = [path EXCEPT
         !["state"] = Append(@, [timestamp |-> now + Skew,
                                 ids |-> others \cup {IF known' THEN Me ELSE NoId}]),
         !["bullets"] = Append(@, [timestamp |-> now + Skew, ids |-> others])]
  /\ UNCHANGED <<now, arrived, buffer, main, renderTime, drawn>>

\* The listener appends what arrives next, under state_mutex.  What was sent
\* before it and has not come is lost, or comes later on a path that reorders.
PushBack(k) ==
  \E i \in DOMAIN path[k] :
    /\ buffer' = [buffer EXCEPT ![k] = Append(@, path[k][i])]
    /\ arrived' = [arrived EXCEPT ![k] = Append(@, path[k][i])]
    /\ path' = [path EXCEPT ![k] = IF Reorders THEN RemoveAt(@, i)
                                   ELSE SubSeq(@, i + 1, Len(@))]
    /\ UNCHANGED <<now, known, broadcasts, main, renderTime, drawn>>

-----------------------------------------------------------------------------
\* StateBuffer::remove_unused: the front goes while this many are too many.

\* Mutated: states go as soon as they are past themselves.
UnusedEarly(states, time) ==
  CHOOSE n \in 0 .. Len(states) - 2 :
    /\ \A i \in 1 .. n : states[i].timestamp <= time
    /\ n = Len(states) - 2 \/ states[n + 1].timestamp > time

Unused(states, time) ==
  CHOOSE n \in 0 .. Len(states) - 2 :
    /\ \A i \in 1 .. n : states[i + 1].timestamp <= time
    /\ n = Len(states) - 2 \/ states[n + 2].timestamp > time

RemoveUnused(states, time) == SubSeq(states, Unused(states, time) + 1, Len(states))

\* t of render_state and render_bullets is Elapsed / Span.
Elapsed(time, a) == (time - a.timestamp) % Word
Span(a, b) == (b.timestamp - a.timestamp) % Word

\* Where the server has a thing: in motion, except players without an id.
PlaceIn(packet, id) == IF id = NoId THEN 0 ELSE packet.timestamp

\* Mutated: players are looked for in b, too.
PlayersDrawnFromB(a, b) ==
  {[id |-> id, from |-> PlaceIn(b, id), to |-> PlaceIn(b, id)] : id \in b.ids \ {Me}}

(***************************************************************************)
(* Players in both packets move from a to b, others are where b has them.  *)
(* A player without an id is found in a's unused slots too, at the spawn.  *)
(* The client's own id in b is skipped.                                    *)
(***************************************************************************)
PlayersDrawn(a, b) ==
  {[id |-> id, from |-> IF id \in a.ids THEN PlaceIn(a, id) ELSE PlaceIn(b, id),
    to |-> PlaceIn(b, id)] : id \in b.ids \ {Me}}

\* The previous position of a bullet is searched in b, and found there.
BulletsDrawn(a, b) ==
  {[id |-> id, from |-> PlaceIn(b, id), to |-> PlaceIn(b, id)] : id \in b.ids}

\* Mutated: one state is taken for enough.
LookAtSizeOne(at, k, then, otherwise) ==
  /\ main = at
  /\ IF Len(buffer[k]) >= 1
     THEN main' = then /\ renderTime' = now - Delay
     ELSE main' = otherwise /\ UNCHANGED renderTime
  /\ UNCHANGED <<now, known, broadcasts, path, arrived, buffer, drawn>>

\* size() is read without the mutex; only this thread makes a buffer smaller.
LookAtSize(at, k, then, otherwise) ==
  /\ main = at
  /\ IF Len(buffer[k]) >= 2
     THEN main' = then /\ renderTime' = now - Delay
     ELSE main' = otherwise /\ UNCHANGED renderTime
  /\ UNCHANGED <<now, known, broadcasts, path, arrived, buffer, drawn>>

Render(at, k, Things(_, _), then) ==
  LET states == RemoveUnused(buffer[k], renderTime)
  IN  /\ main = at
      /\ main' = then
      /\ buffer' = [buffer EXCEPT ![k] = states]
      /\ drawn' = [drawn EXCEPT ![k] = [time |-> renderTime, from |-> states[1], to |-> states[2],
                                        things |-> Things(states[1], states[2])]]
      /\ UNCHANGED <<now, known, broadcasts, path, arrived, renderTime>>

RenderBullets == Render("renderBullets", "bullets", BulletsDrawn, "sizeOfState")
RenderState == Render("renderState", "state", PlayersDrawn, "sizeOfBullets")

Frame ==
  \/ LookAtSize("sizeOfBullets", "bullets", "renderBullets", "sizeOfState")
  \/ RenderBullets
  \/ LookAtSize("sizeOfState", "state", "renderState", "sizeOfBullets")
  \/ RenderState

Next ==
  \/ PassTime \/ Broadcast
  \/ \E k \in Kinds : PushBack(k)
  \/ Frame

Spec == Init /\ [][Next]_vars

-----------------------------------------------------------------------------
Packet == [timestamp : Int, ids : SUBSET {Me, Other, NoId}]

TypeOK ==
  /\ now \in Delay .. MaxTime /\ known \in BOOLEAN
  /\ broadcasts \in 0 .. MaxBroadcasts /\ renderTime \in 0 .. now - Delay
  /\ {path, arrived, buffer} \subseteq [Kinds -> Seq(Packet)]
  /\ main \in {"sizeOfBullets", "renderBullets", "sizeOfState", "renderState"}
  /\ main = "renderBullets" => Len(buffer["bullets"]) >= 2
  /\ main = "renderState" => Len(buffer["state"]) >= 2

Drew(k) == drawn[k] # Nothing

Sorted(states) ==
  \A i, j \in DOMAIN states : i < j => states[i].timestamp <= states[j].timestamp

\* Have packets from before and from after the time come?
CameAround(states, time) ==
  \E i, j \in DOMAIN states : states[i].timestamp <= time /\ time < states[j].timestamp

(***************************************************************************)
(* Every frame draws from two states around its render time, the last one  *)
(* before it and the first one after it, if such states had come, in order.*)
(* A late packet stays behind the ones it should precede, and then this    *)
(* does not hold (state_buffer.hpp:16 says it does).                       *)
(* Then t is in [0, 1) and its unsigned differences are what they seem.    *)
(***************************************************************************)
Encloses ==
  [][\A k \in Kinds :
       drawn[k] # drawn'[k] /\ Sorted(arrived[k]) /\ CameAround(arrived[k], renderTime)
       => LET a == drawn'[k].from
              b == drawn'[k].to
          IN  /\ a.timestamp <= renderTime /\ renderTime < b.timestamp
              /\ \A i \in DOMAIN arrived[k] : arrived[k][i].timestamp <= a.timestamp
                                              \/ b.timestamp <= arrived[k][i].timestamp
              /\ Elapsed(renderTime, a) < Span(a, b)]_vars

(***************************************************************************)
(* "interpolates between render times for a smooth render" (README.md:16): *)
(* a player who moves at constant speed, and is in both states around the  *)
(* render time, is drawn where it was at that time.                        *)
(***************************************************************************)
PlayersAreSmooth ==
  LET d == drawn["state"]
  IN  Drew("state") /\ d.from.timestamp <= d.time /\ d.time < d.to.timestamp =>
        \A thing \in d.things :
          thing.id \in d.from.ids \ {NoId} =>
            (d.time - thing.from) * Span(d.from, d.to)
              = Elapsed(d.time, d.from) * (thing.to - thing.from)

(***************************************************************************)
(* "find in previous frame (A)" (client.cpp:182): a bullet that both       *)
(* states list is drawn between its two places.  Does not hold.            *)
(***************************************************************************)
BulletsComeFromA ==
  Drew("bullets") =>
    \A thing \in drawn["bullets"].things :
      thing.id \in drawn["bullets"].from.ids =>
        thing.from = PlaceIn(drawn["bullets"].from, thing.id)
=============================================================================
