# TLA+ models of Hido

Hido is a multiplayer shooter over UDP: one authoritative server, up to `MAX_PLAYERS` clients, C++ on both sides
(`src/src/`), and a vendored loader for the TMX maps both sides play on (`src/lib/libtmx-parser/`). This
directory holds its TLA+ models, the TLC configurations that check them, and TLAPS proofs.

```
tlc -workers 2 -config world_safety.cfg MCWorld.tla     # any run: see "The runs"
tlapm WorldProofs.tla                                   # any module named ...Proofs, and OperatorFacts
```

File names below are those of `src/src/`, of its subdirectories, or of the loader.

## 1. The system

### Components, their state and their operations

| component | state | operations | modules |
|---|---|---|---|
| **ClientManager** (`client_manager.cpp`) | `clients`: id -> `ClientAddr`; `idx`, the next id | `add`, `get`, `remove`, `count` | `ClientManager` |
| **Server, session** (`server.cpp:110-180`) | the registry, `running` | `process_events` for CONNECT, INPUT, DISCONNECT; `shutdown` on SIGINT | `Server` |
| **Server, game loop** (`server.cpp:66-103, 246-300`) | `last_t`, `now`, `accumulate` | one packet, the ticks due, GAME_STATE and BULLET packets to everybody | `World`, `Play` |
| **Server, simulation** (`server.cpp:182-244`) | every client's `player`, `bullet_state`, `bullet_idx` | players move and shoot, bullets move, bullets hit | `World` |
| **Client, main thread** (`client.cpp:48-137`) | `connecting`, `running`, `client_id`, `local_player`, `unacknowledged` | connect loop, frames, disconnect loop, join | `Client`, `Play`, `View` |
| **Client, listening thread** (`client.cpp:204-290`) | the same fields, shared; the two state buffers | receives GAME_STATE, BULLET, the echoes of CONNECT and DISCONNECT | `Client`, `Play`, `View` |
| **Client, interpolation** (`state_buffer.hpp`, `client.cpp:138-202`) | `game_state_buffer`, `bullet_state_buffer` | `push_back`, `remove_unused`, `render_state`, `render_bullets` | `View` |
| **Movement and collision** (`player.cpp`, `bullet.cpp`, `map.cpp`) | none | `player_update`, `bullet_update`, `get_intersect_rects`, `get_tiles_with_property` | `GameMap`, `Walk` |
| **XML parser** (`tinyxml2.cpp`) | the document's nodes and pools, the text, `_errorID` | `LoadFile`, `ParseDeep` and below, queries, `StrPair`, `XMLPrinter` | `XmlNode`, `Xml`, `XmlPrinter`, `XmlText` |
| **Map loader** (`tmxparser.cpp`, `base64.cpp`) | the `TmxMap` being filled | `parseFromFile`, one handler per element, layer data | `Base64`, `Tmx`, `MapFile` |
| **MapRenderer** (`map_renderer.cpp`) | one texture of the whole map | `setup` | `MapFile` |
| **UDP path** (external) | packets in transit | loses, duplicates, reorders | `Udp`; queues in `Play`, `View` |

### How they interact

Nothing but datagrams connects a client and the server. A client repeats CLIENT_CONNECT every 50 ms until the
server's echo resets `connecting`, sends one INPUT per frame, and repeats CLIENT_DISCONNECT every 50 ms until
the server's echo resets `running`. The server is one thread: each turn of `serve` handles a packet, takes the
ticks that are due and broadcasts. A tick runs three loops over the registry and over `bullet_state`; two of
them erase from the vector they iterate over. The client is two threads which share `connecting` and `running`
(atomics), `client_id` (not atomic), `local_player` and the buffers (under `state_mutex`), and `unacknowledged`
(erased and read under `state_mutex`, pushed without it). Both programs load the same map once, at start, and
ask it for the blocked tiles around a rectangle whenever something moves.

### What is hard about it, and what must hold

* **Session.** Every packet may be lost, repeated or late, and a retry repeats what was already done. The
  registry must not exceed the slots of a GAME_STATE, an address must not get two entries, a client in session
  must stay registered under the id it stored, an id must never come to name somebody else, who connects must
  get in, and who leaves must be forgotten, stay forgotten, and end.
* **Two client threads.** The id is stored after `connecting` is reset; the main thread waits for flags that
  only a live listener sets.
* **Prediction.** `local_player` is written by both threads. Reconciliation must bring it back to what the
  server decided, although inputs and states are compared by two clocks that nothing brings together.
* **Simulation.** "Smart erase" moves the last bullet into the place of the erased one, inside one loop and
  inside two. No bullet may be moved twice or not at all, lost or doubled; each hits one player once; no hit may
  be passed over; and the turn must end although iterators step back.
* **Clocks.** The server counts ticks from the time the last one was *done*. It must never simulate more time
  than has passed.
* **Interpolation.** A buffer is filled by one thread and trimmed by the other, read as though sorted, and its
  times are subtracted unsigned. A frame must find the two states around its render time.
* **Collision.** Walls are resolved one after the other against a rectangle the earlier ones have moved; outside
  the map there are no walls at all.
* **Map files.** Errors pass up through nine levels of handlers, a gid becomes a tile of one of several
  tilesets, the parser owns half-built nodes while it recurses and converts text in place.

`PROJECT.json` lists each hazard with its line and the properties that cover it.

## 2. The modules

An arrow points to the module that extends or instantiates.

```
Udp, ClientManager --> Server ---+
Udp -----------------> Client ---+--> Session --> MCSession, SessionProofs
                       Lobby ....refined by....^
GameMap --> OperatorFacts --> PlayProofs, WalkProofs, WorldProofs, XmlTextProofs, MapFileProofs
Play --> MCPlay, PlayProofs
GameMap --> Walk --> MCWalk, WalkProofs
GameMap --> World --> MCWorld, WorldProofs
View --> ViewProofs
XmlNode --> Xml -----------------+
XmlNode, Base64 --> Tmx ---------+--> MapFile --> XmlPrinter --> MCMapFile
GameMap -------------------------+           --> MapFileProofs
XmlText --> MCXmlText, XmlTextProofs
```

**`Udp`.** `toServer` and `toClient` are sets of packets. `Duplicates` keeps a received packet in transit,
`Reorders` lets any packet be next, `Loses` removes packets. Without `Reorders` the packets of one client arrive
in the order of its life, which is the order it sent them in.

**`ClientManager`, `Server`.** `clients` is a function from ids to entries. `process_events` is one action,
because the server is one thread; its branches are the disjuncts `RejectWhenFull` (the early return that stands
in front of every packet type), `HandleConnect`, `IgnoreUnknown`, `HandleInput` and `HandleDisconnect`. The
disconnect echo reads the address through a pointer into the entry `remove` just freed: `EchoAfterRemove` is the
resulting choice. `Narrow` is the conversion of an `int` id to the `int8_t` of `PlayerState::id`, with
half-range `IdHalf` (128 in the code).

**`Client`.** `main` and `listener` are the program counters of the two threads; a step is one turn of a loop or
one access to a shared field. `connecting = false` and `client_id = header->sender` (`client.cpp:283, 285`) are
two steps, with `saving` holding the id in between. `Frame` is a frame as far as the server sees it: one stamped
INPUT.

**`Session`** composes these, states the fairness and the properties, and maps the state to **`Lobby`**, the
abstract specification: who is registered under which id, and whether each client is outside, inside or gone. A
lobby admits within capacity under a fresh id, lets only members enter, and strikes off only those who left.

**`Play`.** One client in the game after the connect echo. A position is a place on a line with a wall at both
ends, an input is a velocity, and a step into a wall ends at the wall. `skew` is how far the server's clock is
ahead of the client's, or behind; it is one of `Skews` from the start and stays. A frame is `GetInput` (the
unlocked `push_back`), `Predict` (under `state_mutex`) and `SendInput`; a GAME_STATE is `Adopt` (overwrite,
erase) and `ReplayInputs` (the loop), with the mutex held from one to the other. A `push_back` that races with
the critical section may be lost, and the loop may or may not see it. `InputTurn` and `OtherTurn` are turns of
`serve` that an INPUT of this client, or a packet of another, starts. A GAME_STATE carries, besides the
timestamp the program sends, `covers`: the last input it contains. The program does not send it; the model uses
it for what the client can tell (whether its player has an id yet) and to state properties.

**`GameMap`** is the game's side of a map, as pure operators: which tiles lie around a rectangle, in which
order, and what `player_update` and `bullet_update` make of them. `Around` is the two loops over rows and
columns, `Counts` the condition inside them, and the wall loop of `player_update` is a fold. **`Walk`** lets a
player and a bullet make any sequence of moves on a map, in a room: tiles off the edges of the map such that
whatever is next to one of them, cornerwise too, is in the room as well or a wall (`ClosedByWalls`). The edges
themselves need not be walls; in `map1.tmx` many are blank.

**`World`** is the server's simulation. `ReceivePacket` is the packet that ends `epoll_wait`; `phase` says which
loop of `update` runs, `todo` which clients it has not reached (the registry is an `unordered_map`: any order),
`itr` is the iterator into `bullet_state`. `MovePlayer`, `MoveBullet` and `Test` are one iteration each,
`SmartErase` the swap with `back()` and `pop_back()`, `AfterErase` and `Back` where the iterator is after the
two erasures. `TestWild` is what is left of the inner loop once the iterator stands in front of the vector: it
may find nothing, or write to memory that is not its own; what happens after that is not modelled. `TickTaken`
is the clock. The variables `struck`, `stopped`, `ticks` and a bullet's `born` and `start` record what happened,
for the properties; nothing reads them. `HandleInput` narrows the id as `Server`'s does. Registration is only
what the simulation sees of it (`Join`, `HandleInput`, `Leave`); its protocol is `Session`.

**`View`** is interpolation. What the server broadcasts moves at unit speed, so where a thing should be drawn is
known. `PushBack` is the listener. A frame is `LookAtSize` (size() without the mutex), then `RenderBullets` or
`RenderState`: `RemoveUnused`, and the drawing from the first two states. `Unused` is the number of pops the
loop of `remove_unused` makes. Differences are modulo `Word`. `arrived`, the whole history, is for the
properties.

**`XmlNode`, `Xml`.** The text of a document is a sequence of lexical items. `Xml` is `ParseDeep`, an item a
step, with the recursion as a stack of open elements; `depth` is the counter that each call raises and lowers,
and `live` counts, per memory pool, what is allocated. A text reaches up to the next `<`, so white space is an
item of its own only in front of markup, and a text the file ends with has no end. **`XmlText`** goes to the
characters of one value: `Flush` and the conversion steps are `StrPair::GetStr`, in place, pointer by pointer;
`PushText` is `XMLPrinter` and a second parse. A character reference is summed digit by digit from its end, the
factor and each product modulo `Unsigned`, an `unsigned int`. **`XmlPrinter`** is what the printer makes of a
whole document; only there a node is visited by recursion.

**`Base64`, `Tmx`, `MapFile`.** `Tmx` has an operator for each handler of `tmxparser.cpp`, returning a code and
a value; `MapFile` is `parseFromFile` over them, an element a step, from the disk over `Xml` to the `TmxMap`,
and then `MapRenderer::setup`. A tileset in a file of its own is read by a second document on the way.

Definitions marked *Mutated* are faulty variants of the definition that follows; no specification uses them.
They show that each property can fail: put in the place of the original, TLC finds the property violated.

## 3. The runs

Symmetry is used in `session_safety` only, which checks no liveness. Deadlock is not an error: when every client
has ended, the map is drawn or the bounds are spent, nothing is left to do.

| run | question | bounds |
|---|---|---|
| `session_safety` | Do registry, ids and threads stay consistent whatever the path does, and is every step one of the lobby's? | 3 clients, 2 places, 3 ids, 2 frames, int8_t of half-range 2; duplicates, reorders |
| `session_liveness` | Does who connects get in, and who leaves get removed? | 2 clients, 3 places, 3 ids, 1 frame; lossy, in order |
| `play_safety` | Does reconciliation pull the prediction back to the server, over a path that loses and reorders? | 3 frames, 2 ticks a turn, 2 packets each way, 4 positions, steps of 2; server's clock 1 behind, level, 1 ahead |
| `walk_safety` | Do moves resolve as a walk pixel by pixel would, and does nothing get into a wall, out of its room or off the map? | all 32 closed rooms of 4 by 5 tiles over 5 inner cells, and all of `map1.tmx`; a pixel is four of the game's, steps up to a tile |
| `world_safety` | Do the loops of `update` treat every bullet and hit exactly once, does the clock hold, does every turn end? | 2 clients, corridor of 2 tiles, tick of 2 ms, up to 6 ms wait, delays of 1 ms |
| `view_safety` | Does a frame draw from the two states around its time, and other players where they were? | 3 broadcasts to each buffer, 4 instants, delay 2, any order of arrival |
| `map_file` | What does the whole path from the disk to the textures make of sound and unsound files? | all texts of up to 4 items of 13 kinds, nesting up to the depth limit of 8, and as many elements beside one another; maps of 2 by 2 cells with any two of 7 parts in any variant |
| `xml_text` | Is a value read as what it means, without leaving its bytes, and again after printing? | all sequences of 3 of 25 pieces, in 4 kinds of value |
| `session_lost_ack`, `session_full`, `world_wild`, `view_bullets` | one finding each, below | the least that shows it, or those of the passing run |

The properties stand in `Session`, `Play`, `Walk`, `World`, `View`, `MapFile` and `XmlText` with a comment each.

Why the bounds are enough. *Session:* three clients for two places let one be rejected while two play, leave and
make room. With three ids one client can be registered again after it left, and with `IdHalf=2` the third id
already wraps (as the 129th does in the code). Two INPUT packets can overtake each other. With duplication and
reordering, loss is covered for safety: a packet that stays in transit and is never received is lost. *Play:*
three frames are one input played, one in flight and one being made; with steps of two places a wall is met in
the middle of a step. *World:* a turn of several ticks fires several bullets from either player, in either
direction, so there are bullets to the left and the right of the iterator when one of them is erased at a wall
or by a hit, the first and the last of the vector among them; a click on the player's own corner fires one that
stands still. Two packets fit with time for ticks in between, so a client can leave with bullets in flight.
`MaxBulletsPerPacket` of 2 is exceeded. With `IdHalf=1` the second client's id becomes -1. The tick, the
corridor and the bullets are scaled together: a bullet crosses a tile in two ticks as 300 pixels a second cross
16 in 3.3. *View:* with three states in a buffer, one can be trimmed, the two around the render time can be any
two of them, and a late one can arrive before, between or after. *Walk:* every neighbourhood of walls that a
player can meet in two tiles each way occurs with steps of up to a tile, which is what a slow frame makes of 80
pixels a second. `map1.tmx` is there with all its tiles, so TLC also evaluates `WalkAssumption`, on which the
proofs rest, for the map the game is played on: the 199 tiles around the spawn are closed off. *Files:* one
defect at a time shows that it is reported, two that neither hides the other; the usual parts are two tilesets,
one in a file, and a layer in each encoding. `FlipUnit`, `Word` and `Unsigned` are smaller than in the code
because TLC's integers have 32 bits; the flags are still the three bits above every gid used.

### Fairness

Only `session_liveness`, `session_lost_ack` and `session_full` use it. `FairSpec` assumes weak fairness of the
loops of both client threads (they run on an operating system's scheduler and wait at most 50 ms or 10 ms), and
strong fairness of receiving a packet of each client, in each direction: a retrying sender gets a packet through
sooner or later. That is the least the retry loops themselves rely on. Nothing is assumed of the user
(`CloseWindow`), of frames, of losses or of `Shutdown`, and the liveness properties allow for a server that was
shut down. Liveness is checked on a path that keeps order and with a place more than clients; at capacity it
does not hold (`session_full`). `DisconnectReachesServer` is checked on that path only; out of order a late
CONNECT may register a client again (section 5), and the property is false.

`TurnsEnd` needs no fairness: it says that every step of a turn lowers a measure, so a server that takes steps
gets back to `epoll_wait`.

## 4. What is proved

Eight modules hold proofs, for every value of the constants within the named assumptions of the modules
(`ServerAssumption`, `WorldAssumption` and their like say that bounds are numbers and switches are Boolean; what
more they say is given below). Every safety property the runs check is proved, except three of `map_file` and
one half of `ReadsAsMeant`.

### `SessionProofs`

| theorem | property |
|---|---|
| `TypeCorrect` | `TypeOK` |
| `Consistent` | `IInv`, the inductive invariant |
| `CapacityHolds`, `AddressesHold` | `WithinCapacity`, `OneEntryPerClient` |
| `RegistrationHolds`, `ListenerHolds` | `PlayingIsRegistered`, `ListenerOutlivesGame` |
| `IdsNeverReused`, `IdentityHolds` | `IdNamesOneClient`, `IdentityStable` |
| `InputsMoveForward` | `InputNeverRewinds` |
| `OnlyConnectsRevive` | `OnlyConnectRevives` |
| `ForgottenForGood` | once a client left, was removed and has no CONNECT on its way, it stays so |
| `Refinement` | `ImplementsLobby` |

`PlayingIsRegistered` is not inductive: to know that no step takes a playing client's entry away one must know
that no DISCONNECT of it is in transit (`DisconnectMeansLeft`), and to know that the id it is about to store is
right one must know that about every CONNECT echo on its way and about the id the listener holds in `saving`
(`IdsInTransit`). `AddressesDiffer` makes "the id of its entry" one id, and `AcknowledgedHasEntry` links the
flag `connecting` with the registry. `IInv` is the conjunction of these with `TypeOK` and `WithinCapacity`. The
refinement uses `IInv` where the lobby asks more than the code's guard: `EnterGame` only tests `connecting`,
`Enter` asks for membership; `HandleDisconnect` tests nothing, `StrikeOff` asks that the client has left.

Both theorems on coming back are about any path: a late CONNECT is the only packet that brings a client back
(`OnlyConnectRegisters`; that it does is in section 5), and a client that left sends none (`NoConnectSent`).

### `WorldProofs`

For every map whose layers are all there (`WholeMap`), every number of clients and bullets and every clock:

| theorem | property |
|---|---|
| `LoopsHold` | `LoopInv`: registry, bullets and iterators fit together |
| `NoBulletIsLost` | `NoBulletLost` |
| `HitsCounted` | `EveryHitCounted` |
| `HitsStayResolved` | `HitsAreResolved` |
| `ClockNeverOvertaken` | `NeverAheadOfClock` |
| `EveryTurnEnds` | `TurnsEnd` |
| `TypeCorrect` | `TypeOK` |
| `FlightIsStraight` | `BulletsFlyStraight` |
| `UnknownStayFresh` | `UnknownAreFresh` |

`LoopInv` says where the iterator of each loop may be: 1 to one past the end, and while a bullet is tested
against the clients also 0, the place in front of the vector. The effect of each step of `update` on top of it
is a lemma (`MovePlayerEffect`, `MoveBulletEffect`, `TestEffect`), and each property adds the one conjunct it
misses. `IdsInv`: every id is below `bulletIdx`, and no two bullets share one. `AccountInv` adds where the
others are: an erasure takes one bullet out of the vector, whichever it moves (`OneFlightEnds`), and the same
step enters it in `struck` or in `stopped`. `HitsInv`: a bullet that hit is not in the vector any more, so a
second hit is by another bullet; with it the number of hits of a victim grows by one as its health falls by one.
`ResolvedInv`: the clients the inner loop is past are not hit by the bullet at the iterator, and nobody is hit
by those before it; the swap brings in a bullet from behind, but the iterator steps back, so it is looked at
again. `ClockInv`: the ticks taken fit between the boot and `last_t`, and with what is accumulated still before
`now`. `EveryTurnEnds` compares the measure `ToGo` before and after each step, in lexicographic order: the time
accumulated, the loop, twice the bullets to go, the clients to go.

The last three rest on `WorldInv`. `EntriesInv` knows of each entry that its player is a rectangle of the size
of the spawn, which wall resolution keeps (`AxisMoveTypes` of `OperatorFacts`), and that a client that has sent
nothing has not moved (`AxisMoveStill`: where nobody moves no wall pushes; if it did, the unknown would not be
fresh). `SendersInv` follows each bullet to the client that fired it, so that a bullet without a sender needs a
client whose id an `int8_t` turns into -1. `FlightInv` says of each bullet that its place is its start and one
step for each tick since it was born, one less while `update` has not come to it in this tick; smart erase keeps
that because the bullet it moves comes from behind the iterator and the iterator steps back.

### `ViewProofs`

For every delay, skew and number of packets, with or without reordering. `ViewAssumption` also says that the
clock does not reach `Word`: milliseconds in 64 bits.

| theorem | property |
|---|---|
| `TypeCorrect` | `TypeOK` |
| `ViewInvHolds` | `ViewInv`, the inductive invariant |
| `FramesEnclose` | `Encloses` |
| `SmoothPlayers` | `PlayersAreSmooth` |

That the loop of `remove_unused` stops at one number of pops is `UnusedExists`, from the well-foundedness of the
naturals. What is inductive is `Trimmed` for `renderTime`, which never goes back: what was thrown away for an
earlier frame is past every later one, and the first state left is, too, as soon as one is gone. That is why a
frame finds the last state before its time (`DrawsAround`). `PlaceInv` says that the size read without the mutex
is still there when the frame draws, because only the listener touches the buffer in between, and it appends.

### `PlayProofs`

For every number of places, frames, ticks and packets, every speed, with or without loss and reordering, and
however the clocks are apart.

| theorem | property |
|---|---|
| `TypeCorrect` | `TypeOK` |
| `ReconciliationConverges` | `Converges` |
| `PredictionStaysNear` | `DriftBounded` |

Both signs of `skew` occur: nothing in the code brings the clocks together. The code compares an input's time
with the server's time of broadcast (`client.cpp:251`). A server that is behind acknowledges too little, and
inputs it has played are replayed (section 5): `Converges` allows for the frames between the time the adopted
state bears and now (`Behind`), which are none for a server that is level or ahead. One that is ahead
acknowledges too much, and inputs on their way are forgotten: `DriftBounded` allows for as many frames more
(`Lead`). `TypeInv` has that `unacknowledged` is in the order of its timestamps, without which `upper_bound` has
no answer. `ReconInv`: no state covers an input that was not sent yet (`HonestStates`), and an input that is
kept is later than the adopted state's time or than what it covers (`LaterKept`), so once the last input is
covered those left are within `Behind`, and each moves by `Speed` at most (`ReplayDrift`). `DriftInv`: no state
was sent later than now (`PastStates`), so each frame since the adopted one is replayed or predicted, once,
except that the one that raced with the critical section may be counted twice or not at all; timestamps grow by
one at least, so no more inputs are kept than frames have passed (`KeptAreFew`).

### `OperatorFacts`

Facts about operators alone, which the other proofs share. Loops over data are folds in the models. The provers
cannot use the library's induction theorems, which take an operator as a parameter, so these facts do without: a
recursive function over a sequence exists (`StepwiseExists`), its values are those of a run that begins with the
base and makes one step for each element, and a set of numbers that has 0, and with each number the next, has
all of them (`UpTo`), because the least one missing (`LeastNatural`) would have no predecessor. A statement
about a fold is then one about every prefix of the run (`FlattenRun`, `TilesRun`, `AxisRun`).

For every map whose layers are all there:

* `FoundTiles`: `get_intersect_rects` returns tiles of a visible layer with the property, and misses none that
  the rectangle lies over.
* `BulletsEndAtWalls`: `bullet_update` reports a wall exactly if the bullet lies over one and on the map.
* `MovesAlongX`, `MovesAlongY`: a player who stands in no wall and is displaced by less than its own size and a
  tile, on the map, ends where a walk would: nothing on the way is blocked, and the way is all of it or the next
  pixel is blocked. The walls are resolved one after the other, each against what the ones before left
  (`PushedAlong`); the order does not matter, because a push along an axis only ever takes back a part of the
  displacement (`PushedOnce`).

### `WalkProofs`

For every sequence of maps with rooms closed by walls, all layers visible, and steps of up to a tile
(`WalkAssumption`). The game's map is one (`walk_safety`); the player makes 80 pixels a second and a bullet 300,
tiles have 16, and updates are 16 ms apart. A frame of a fifth of a second would break the last part; the
server's ticks are always 16 ms.

| theorem | property |
|---|---|
| `TypeCorrect` | `TypeOK` |
| `WalkInvHolds` | `WalkInv`, the inductive invariant |
| `NobodyInWalls` | `NeverInWall` |
| `UpdatesAreWalks` | `WalksPixelByPixel` |

`NeverInWall` alone is not inductive: outside the map there are no walls at all, so one must know that a step
leads nowhere off it (`AwayFromEdges`). That holds in a room, and nobody leaves one (`StaysInRoom`): each pixel
of where a step ends is in the tile of a pixel of where it began or in one next to it, which is of the room or a
wall, and it is no wall because the step was resolved. `UpdatesAreWalks` compares `MovesAlongX` and
`MovesAlongY` with the run of `Walked` (`StepsUpTo`).

### `XmlTextProofs`

For every set of texts, of any length, over all 255 characters. `TextsAssumption` says what makes a text one
value: no character of it is 0, and its end tag is not inside it.

| theorem | property |
|---|---|
| `TypeCorrect` | `TypeOK`: conversion stays within the value, and the writer is never ahead of the reader |
| `PrintedReadsBack` | `ReadsAsMeant` of a text that `XMLPrinter` wrote |

The writer stays behind because nothing is shorter than what it means: an entity is at least four characters for
one, and a character reference at least four characters for what it encodes, except `&#;`, which the empty sum
makes the character 0. That follows from where the digits of a reference can lie (`DigitsFound`,
`ReferenceFits`): the search for the semicolon ends at the 0 that `Flush` put at the end of the value. `TextInv`
must know that there is a 0 there and none before it (`Unread`). What is written for a comment or CDATA is what
was read of it, so it must still have no end tag inside; but line ends become shorter while it is converted, and
two parts of a tag could meet. They cannot, because no end tag contains a line end: `NoTag(ToCome, ...)` says it
of what is written followed by what is still to be read. In a text or an attribute the end tag is one of the
characters that are escaped (`PrintedKeepsInside`).

`PrintedReadsBack` lays the printed text out in pieces, one for each character of the value (`FlattenLaid`,
`PrintingLaid`), and its invariant `RoundTripInv` says that the reader always stands between two of them and the
writer behind as many characters of the value. In a piece the reader can do one thing only (`ReadingStep`): a
piece that begins with an ampersand is an entity, no two names of entities begin with the same two letters
(`EntityAlone`), none begins with `#`, and a line feed is never next to a carriage return. For a value with a
carriage return it is false, and the code does not print one that reads back.

### `MapFileProofs`

For every set of disks with any files of any length, every depth limit above 1 (`MaxDepthAssumption`; with 1 not
even the document could be parsed), and every word and flag. `DisksAssumption` only says that a file is a
sequence of items, that the item after a text is markup (the text reaches up to it), and that the attributes of
a tag are a sequence of attributes.

| theorem | property |
|---|---|
| `InvariantsHold` | `ParserInv` and `LoaderInv`, the inductive invariants |
| `TypesHold` | `TypeOK` |
| `NoNodesLost` | `NoNodeLost` |
| `ParsedAreComplete` | `ParsedIsComplete` |
| `OnlyWellFormedAccepted` | `ParsesWellFormed` |

*The parser.* `NoNodeLost` sums what the nodes of the whole tree take, and a tree has any depth. So `Allocs` is
defined level by level, and a `Tree` of a height is a node whose levels below that are empty; on the stack an
element at depth k is a tree of height `MaxDepth - k`, which is why a limit on the depth is needed to count at
all. `ParserInv` says that of the stack, and `NoNodeLost` with it. Its steps are three facts about what a stack
holds (`Held`): a new node adds what it takes (`Pushed`, `Inserted`), closing an element moves it below the one
around it and changes nothing (`InsertedTree`: each level of the new tree is the old level and the kid's level
before), and an abandoned element gives back what its whole tree took (`Popped`). A document read again starts
from nothing.

*What the parser accepts.* `ParsesWellFormed` compares the parser, which sees one item and its stack, with a
definition over the whole text (`WellFormed`, by the depth after each item). The inductive invariant is
`ReadInv`. While the parser reads, there is a place in the text (`ReadTo`) such that the rest is what it has
still to read, every item before it is one a well-formed text may have there (`Admitted`), the stack is as high
as the depth at that place and names, at every depth, the element opened there last (`AllOpen`), and the
document's children tell whether only declarations have been read (`Prologue`). That the depth counter is the
height of the stack is `DepthInv`: each call that returns has counted down, also past an error, or a file with
many elements beside one another would be refused. When it has given up, the text is not well formed, and the
error is set or will be before the outermost call returns. What takes an argument is that the stack is enough:
the last element of the stack is the one the definition looks for in the text (`InnermostIsMatched`), because
what was opened at a depth is forgotten only when it is closed (`StillOpen`, `OneMoreOpen`); a declaration is
taken where the definition allows one (`DeclarationPlaced`); and an item refused condemns the whole text,
whatever follows (`UnsoundIsNot`, `MisplacedIsNot`, `UnendedIsNot`), while an end tag without its start makes
what follows irrelevant (`AdmittedIs`).

*The loader.* `ParsedIsComplete` is about every element below `<map>` that is read, so each handler has a lemma:
if it succeeds, what it was given is complete (`PropertiesParsed`, `ObjectGroupParsed`, `TilesetParsed` and so
on), because the first failure of a loop is its result (`FirstFailure`). `LoaderInv` collects these over the
five loops of `_parseMapNode`: of the children of one name, those before the one at the head of `queue` are
complete and have their place in the map (`Kept`), and the rest of `queue` are the children still to come, in
their order. It must also know that a node found in a document is a node whose children are nodes (`Whole`), or
a handler would be given something else; `ParserInv` gives it that of the document (`TreeIsWhole`), and the
map's element and the children in `queue` keep it while another document is read. Gids are no part of it: the
error of a tile is overwritten by the next one's (section 5).

### Only model-checked

* Liveness under fairness: `ConnectCompletes`, `DisconnectReachesServer`.
* `TreePrintsBack`: printing a tree is a recursion over it (`PrintNode`), which the provers do not handle.
* `WallsAsWritten` and `DrawnAsWritten`: what a map was meant to be is part of the disk (`gids`, `blocked`), as
  data that the run generates together with the file; no assumption on a disk short of the file's whole format
  links the two.
* `ReadsAsMeant` of a text that was not printed: what it means is part of the text given (`MCXmlText`), and to
  define it for every text takes recursion.

## 5. Findings

Each of the first four is a run that TLC ends with a counterexample, against a sentence of the source or its
README.

* `session_lost_ack`: the server acknowledges a disconnect once. If that echo is lost, retries are dropped as
  "client already deleted" (`server.cpp:152`) and the client never ends.
* `session_full`: a full server drops every packet before it looks at its type (`server.cpp:128`), its own
  players' INPUT and DISCONNECT included. Nobody can move or leave.
* `world_wild`: after the first bullet of the vector has hit, `itr--` puts the iterator in front of `begin()`
  and the loop over the clients goes on there (`server.cpp:239`): it reads, and may swap and pop, a bullet that
  does not exist.
* `view_bullets`: "find in previous frame (A)" searches `b.bullets` (`client.cpp:183`). Bullets are never
  interpolated; they are drawn at their newer place.

The models hold six more, for which no run is kept. Their steps are part of the passing runs, and what is left
of each promise is stated there.

* **Freed address.** The acknowledgement of a disconnect is sent to an address read from the entry `remove` has
  just freed (`server.cpp:177`). Where the memory holds something else by then, the client never ends although
  no packet was lost: with `FreedAddrIntact=FALSE`, `LeavingEnds` is false on a path without losses.
* **Late CONNECT.** A repeated CONNECT that arrives after the DISCONNECT registers a client that has ended, for
  ever (`client_manager.cpp:30`), although UDP is known to reorder (`server.cpp:24`). What is left on any path
  is `OnlyConnectRevives`; with `Reorders=TRUE`, `DisconnectReachesServer` is false.
* **Narrow ids.** "IMPORTANT: save ID, now client knows who it is" (`client.cpp:284`), but the server lists its
  player under that id narrowed to an `int8_t` (`server.cpp:164`). From the 129th connect on the two differ, and
  the client ignores every state as one it is not in. `UnknownAreFresh` allows for an id that becomes -1.
* **Two clocks.** "delete all inputs before last_acknowledged" (`client.cpp:250`) compares times of two
  machines' steady clocks. If the server's is behind, inputs it has played are replayed on top of the state that
  contains them. `Converges` bounds what that comes to.
* **Late states.** "shorten such that a=buffer[0] < render_time < b=buffer[1]" (`state_buffer.hpp:16`), but
  packets are kept in the order of arrival: after 5 and 3, a frame at a time between them is drawn from a=5 and
  b=3. `Encloses` holds for the frames whose states came in order.
* **Unknown gids.** "tile indices could not be found" (`tmxparser.cpp:597`) is reported for a tile, and
  overwritten by the result of the next one (`tmxparser.cpp:494, 510`): a layer with an unknown gid loads as a
  success unless it is the last tile's. `ParsedIsComplete` leaves gids out.

Two more things met on the way contradict no sentence of the repository: inputs count as acknowledged by the
time of the broadcast, so those still on their way are deleted unplayed (`client.cpp:251`); and a state handled
between `push_back` and the prediction replays the new input, and the frame predicts it again (`DriftBounded`
allows for it).

## 6. Not modelled, and why

* **Program entry points**: argument parsing and construction. Sockets are created and may fail at start;
  afterwards only loss, order and duplication matter.
* `player_render` and `bullet_render`, the window and the camera: drawing calls that keep no state.
* **A client that crashes** takes no step any more, which every run allows. Nothing times it out, and its entry
  stays; no sentence of the repository promises otherwise.
* **The states a client receives while its `client_id` is still -1**: it adopts any player listed under -1.
  `World`'s `UnknownAreFresh` says that such a player stands at the spawn, unhurt, but for clients whose id
  becomes -1 in an `int8_t`.
* **In `Play`** a frame is as long as a tick. In the code they differ, so a prediction is only approximately
  what the server computes. `DriftBounded`, and `Converges` where the server's clock is behind, count in steps,
  and would count in distances; with clocks level `Converges` does not depend on it.
* **Floats.** Coordinates and displacements are whole pixels; a bullet of `World` flies along one axis.
* **tinyxml2**: editing a document after it was parsed, cloning, the printer's layout, conversion of numbers,
  and how the memory pools hand out blocks; the loader uses none of the first three. The null pointer
  `InsertAfterChild` would return for a node of another parent has no caller. What odd character references mean
  is said nowhere: "&#;", which ends the value early, and numbers beyond 32 bits are texts of the run and must
  stay within the value, but `ReadsAsMeant` asks nothing of them. "&#0;" is in no text.
* **libtmx-parser**: `parseFromMemory` and texture coordinates, which the game does not call; compressed data,
  which it rejects; attributes of the wrong type (an error for some, 0 for others); offsets, names and colours,
  which nobody reads. When a property without a name or value ends the loop over properties, those before it
  stay in the map. The model stops at a map whose loading failed; the game only logs the failure
  (`map.cpp:10-13`) and goes on with what was read.

## 7. The plan

What is left, most useful first:

1. **`World` with rectangles**: bullets in two dimensions.
2. **Composition of `Session` and `Play`**, so that GAME_STATE packets carry several players and reach a client
   whose id is not stored yet.
3. **Layer data in two steps**: what `Base64Decode` and the csv loop make of what they are given for every
   layer, as lemmas about operators, and from them `WallsAsWritten` for maps whose gids are what these operators
   read.
