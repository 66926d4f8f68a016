# TLA+ models of Mirror-R-Type

Mirror-R-Type is a networked shoot-'em-up in C++: an authoritative server that runs many
games at once, its client, a second game (Bagario) and an entity-component engine both share.
This directory holds TLA+ models of the parts whose correctness depends on the order of
events (threads, packets, screens, handlers, players who come and go), the TLC runs that check
them on small instances, and theorems about them that TLAPS checks for every value of the
constants.

Paths below are relative to the repository; `server/` stands for `src/r-type/server/src/`,
`client/` for `src/r-type/client/src/`, `logic/` for `src/r-type/game-logic/`, `engine/` for
`src/engine/`, `bagario/` for `src/bagario/`.

## 1. The system

### Threads

- The server's **main thread** runs `Server::run`: every tick it takes the packets received
  since the last one and handles them (`NetworkHandler::process_packets`), updates lobbies and
  rooms (countdowns, which may start games), has every active session updated and waits for that
  (`GameSessionManager::update_all`), sends what the sessions queued
  (`broadcast_all_session_events`), and destroys the sessions that ended.
- The **workers** of `SessionThreadPool` each take session updates from a queue.
- The **network thread** of `AsioNetworkPlugin` runs the io context: it accepts, reads,
  queues packets and calls `Server::on_tcp_client_disconnected` itself.
- The **client** has its own network thread and one loop, `ClientGame::run`, which handles packets,
  updates the screen it shows and applies level changes behind a fade.
- **Bagario's server** does everything in one loop, `BagarioServer::run`.

### Components, their state and how they interact

| component | state | operations | talks to |
|---|---|---|---|
| `SessionThreadPool`, `GameSessionManager` | task queue, two counters, shutdown flag, two mutexes, two condition variables; `sessions_` | schedule a batch, wait for it, take and run a task, signal; create, update all, clean up, destroy the pool | called by `Server::run`; runs `GameSession::update` |
| `RoomManager` | `rooms_`, `player_to_room_`, next id | create, join, leave, start, countdown end, removal of empty rooms | called by the room handlers; calls `on_game_start` |
| `LobbyManager` | `lobbies_`, `player_to_lobby_`, next id | join (find or create), leave, countdown end | called by the lobby handlers; calls `on_game_start` |
| `Server` | `connected_clients_`, `player_to_client_`, per-client flags | connection and lobby/room handlers, game start, game over, chat, kick | every other server component |
| `AsioNetworkPlugin`, `NetworkHandler` | `tcp_clients_`, `received_packets_`, UDP association tables | accept, read chain, queue, receive, send, disconnect | shared by the network and the main thread |
| `GameSession`, `LevelSystem`, `CheckpointSystem` | players, lives, respawns, level controller, announcements, pause, `is_active_` | the tick, add and remove player, pause | run by a worker; reports game over to `Server` |
| collision, health, score, level, bonus and shooting systems | components of ships, enemies, bullets, bonuses, turrets; `ToDestroy` | one pass each per tick; handlers of damage, death and kill events | the session's event bus and registry |
| `SparseSet`, `Registry`, `EventBus` | sparse, dense and data arrays per component type; subscriptions | insert, erase, lookup, iterate; subscribe, publish | every system of a session |
| `ServerNetworkSystem`, `PacketSender` | queued spawns, destructions, shots and inputs; who has a UDP connection | queue, snapshot, broadcast, resynchronize | session to clients, by UDP |
| client `EntityManager` | `server_to_local_`, local ship, locally integrated entities, stale counters | spawn, update, remove, snapshot | packets of the session |
| client `MenuManager`, `ScreenManager`, `ClientGame` | current screen, dialog, room shown, chat overlay, fade | clicks, answers of the server, game start and over, level change | `NetworkClient`, by TCP and UDP |
| `BagarioServer`, `BagarioSession` | `m_players`, `m_player_cells`, cells and viruses of the registry | join, leave, split, eject, the tick with its collision events | its clients |
| `GlobalLeaderboardManager` | scores, one JSON file | load, insert, save | game over |

### What is hard here

1. *Threads.* The barrier between the main thread and the workers is hand-made out of two
   atomics and two condition variables; sessions are passed as raw pointers and have no lock.
2. *Two threads and one callback.* The end of a connection is reported by a direct call on
   the network thread, or on the main thread for a kick, and overtakes queued packets.
3. *Memberships in several structures.* The player list of a room and `player_to_room_`, the
   lobby and `player_to_lobby_`, the session's players and the client's `session_id`, Bagario's cells
   and `m_player_cells`: each operation must change both sides, and handlers of one component do
   not ask the others.
4. *Batches.* All the packets of a tick are handled before lobbies, rooms and sessions are
   updated, so one packet finds what another left half cleaned up.
5. *Long flows.* Lives, respawns, level changes, announcements and the end of a game are
   spread over several systems with their own timers, each taking the others' results at
   another place of the tick.
6. *Handlers that run twice.* Systems are initialised twice, so damage, score and level handlers are
   subscribed twice; Bagario's session handles every collision event twice.  What is destroyed
   stays in the registry to the end of the tick and meets others there.
7. *A network that loses and overtakes.* Spawns, destructions, shots and the end of a game are sent
   once by UDP, level notices in one burst, a snapshot holds at most 55 entities, and the one UDP
   handshake of a connection is what resynchronizes a client.
8. *Requests and answers.* The client changes screens by clicks, by answers and by the
   server's own messages, and an answer may arrive on a screen that no longer waits for it; the start
   of a game comes by TCP, its end by UDP.
9. *Order of assignments* in the sparse set when an element is moved onto a hole, and elements
   left over when an entity is inserted a second time.

`PROJECT.json` lists each hazard at its line, with the properties that cover it or why none does.

### What makes each part correct

- *Pool:* a batch is a barrier; each active session is updated once per tick by one worker;
  no worker holds a destroyed session; no wait is for ever.
- *Rooms and lobbies:* a player is in at most one, both structures agree, capacity holds,
  a countdown runs only when the game can start, a started room is closed, the longest standing
  player of a room is its host.
- *Server:* what clients are told and what the sessions hold agree; nobody plays two games; a
  message is read only where its author is.
- *Connections:* packets are handled once and in order; every client is listened to; a client
  whose connection ended is forgotten; the two threads do not lock each other out.
- *Session:* lives never go below zero; ships and respawns agree with lives; the end is
  reported once and for the right reason; bosses and announcements belong to their level; who
  waits for a ship gets it.
- *Fight:* what died in a tick is gone after it; a ship costs one life, whatever hits it and its
  wreck; levels follow scores; scores survive deaths.
- *Replication:* when everything has arrived the client shows what lives; it steers its own ship
  and no other; shots are on the right side.
- *Client:* its screens follow the server's rooms; the chat is shown where the player looks; the
  map behind a fade is the announced one and the screen comes back.
- *Bagario:* every cell is steered by somebody; a player is told once that it was eaten, exactly when it
  has no cell left; nobody exceeds the limit of cells.
- *Sparse set:* it is a map, and its iteration visits every entity once, whoever is inserted twice.

## 2. The modules

| module | models | relation to others |
|---|---|---|
| `TickBarrier` | what the pool promises `Server::run` | abstract specification |
| `SessionThreadPool` | `SessionThreadPool.cpp`, `GameSessionManager.cpp`, the end of `Server::run` | implements `TickBarrier` |
| `PlayerIds` | the ids of players both managers name | shared by the two managers |
| `RoomManager` | `RoomManager.cpp`, `Lobby.cpp` as rooms use it | extended by `ClientApp` and `GameServer` |
| `LobbyManager` | `LobbyManager.cpp`, `Lobby.cpp` | extended by `GameServer` |
| `GameServer` | the handlers of `Server.cpp` | composes both managers, implements the rooms |
| `Connections` | `AsioNetworkPlugin.cpp` (TCP), `NetworkHandler.cpp`, disconnection and kick of `Server.cpp` | |
| `GameSession` | `GameSession.cpp`, `LevelSystem`, `CheckpointSystem` | one task of the pool |
| `Combat` | collision, health, score, level, bonus and shooting systems, deaths and respawns of `GameSession.cpp` | a tick of the session, where `GameSession` has only who dies |
| `Replication` | `ServerNetworkSystem.cpp`, `PacketSender.cpp`, handshake of `Server.cpp`, client `EntityManager.cpp` | the session's entities as one client sees them |
| `ClientApp` | `MenuManager.cpp`, `ScreenManager.cpp`, the screens, `NetworkClient.cpp`, chat of `ClientGame.cpp`, room handlers of `Server.cpp` | composes a client with the server's rooms |
| `LevelFade` | the fade of `ClientGame.cpp`, announcements of `GameSession.cpp` | composes the client's fade with the session's level changes |
| `Bagario` | `BagarioServer.cpp`, `BagarioSession.cpp`, `BagarioCollisionSystem.cpp` | |
| `PartialMap` | what a component container promises | abstract specification |
| `SparseSet` | `SparseSet.hpp` | implements `PartialMap` |
| `MC...` | small instances for TLC | extend the module they name |
| `...Proofs` | theorems and proofs | extend the module they name |

A definition named `X_Something` next to `X` is a *mutant*: the same operation with a
plausible mistake in it.  For each property of each passing run there is one that TLC finds
to violate the property, so that no property is kept that the code could not break.

### SessionThreadPool

One action is one access to a shared atomic or one critical section nobody sees inside.
`mpc` and `wpc[w]` are the program counters of the main thread and of the workers.  A
condition-variable wait is three steps: test the predicate under the mutex (`EvaluateQueue`),
release and sleep in one atomic step (`BlockOnQueue`), compete for the mutex again after
a notification or a spurious wakeup.  `schedule_batch` is four steps (`ResetCompleted`,
`SetPending`, `PushTasks`, `NotifyBatch`) because the counters are stored before the lock is
taken; a worker's end of a task is three (`CountCompleted`, `ComparePending`,
`SignalCompletion`) because `tasks_pending_` is read after `fetch_add`, when it may already be
the next batch's.  `completion_mutex_` is taken by `SignalCompletion`, which is why
a notification cannot fall between the main thread's test and its sleep; `queue_mutex_` is
*not* taken by the destructor, and there it can.  `GameSession::update` is one step, `RunUpdate`,
in which the game may end.  The queue is a set: `sessions_` is an unordered map and the queue
is empty when a batch is pushed (`BarrierHolds`).  Counters are not cut to a width.

`TickBarrier` knows two phases, `serial` and `parallel`, and what is left to do.
The refinement mapping calls parallel everything from collecting the batch to leaving
`wait_for_completion`.

### RoomManager and LobbyManager

State is that of the code: a function from ids to records (`NoRoom`, `NoLobby` for an absent
entry), the map from players to ids (0 for no entry, which is what the code's getters return),
and the next id.  Rooms keep the order of players, because the successor of the host and the
player whom `on_game_start` makes leave are the first of the list; lobbies keep a set, because
nobody asks for an order.  Countdowns are Booleans: that one is over is the choice of
`StartRoom` and `StartLobby`.  Passwords only refuse a join, names and difficulties of rooms
are left out; a lobby's (mode, difficulty) is its `kind`.  `StartRoom` includes what `on_game_start`
does to the room: the first player, and only that one, leaves it.

Packets and `update` alternate freely, so a packet may find a room that another one of the same tick has
emptied.  Such a room keeps the host who left, and a player who joins it before the update can start
nothing.  `HostPasses` states what holds all the same: from a room whose host is its longest standing player no
departure, join or start leads to one in which it is not, unless the room is emptied on the way.

### GameServer

One handler is one step of the main thread; it calls the operations of the two managers,
whose variables are the server's own (it extends both).  `conn` is the client's place in
`connected_clients_` and `player_to_client_` (always changed together), `info` its `lobby_id`
and `session_id`, `sessions` the players and the life of each session.  `MoveTo` is the loop of
`on_game_start`: each player is removed from the old session, which may end by that
(`check_game_over`), and added to the new one.  `RoomsRespected` states that the handlers implement
the rooms' own specification: the guards of several handlers, which look at lobbies and clients, are what
lets no step leave it, so what is proved of the rooms alone holds in the server.  That lobbies are only changed by
their own operations is visible in the definitions and is not among the properties.  Two disconnections exist because the
code has two:
the `CLIENT_DISCONNECT` packet touches only the client maps, the end of the TCP connection
also leaves the lobby.

### Connections

`tcp` is `tcp_clients_`, `reading` what the io context holds for each client (an `async_read`, a posted
`start_tcp_receive`, neither), `queue` and `batch` the packets between the socket and their handler,
`online` is `connected_clients_`.  `io` and `main` say where the two threads are.  A
blocking write is two steps, because the mutex is held between them and the other thread may
need it; short critical sections are part of the step they protect.  The chain of reads is
explicit, so that a lost link is a state the properties can see.  `Kick...` and `Notify...` are
the main thread's way through `kick_player` and `disconnect_client`, `Report...` and `Io...` the
network thread's way through `handle_tcp_disconnect`; both end in `on_tcp_client_disconnected`.

### GameSession

`stage` follows the order of `GameSession::update`: the systems (in which players die, bosses
die and the level system takes its step), the respawn timers, the boss, the end of the level
and its announcement, the load of the next level, the test for game over.  The main thread acts
only between ticks (`RemovePlayer`, `SetPaused`), which `SessionThreadPool` justifies.  Timers
that only count down to a phase are choices of the tick; the respawn delay counts, because
the properties compare it with level changes.  `Stalls` says whether a tick may last longer
than the victory screen: `delta_time` is not bounded in the code, and theorem
`SessionAnnounces` holds only without such a tick.  A level file that cannot be read is `LoadFails`.

### SparseSet

Positions count from 1 and an entry of 0 is `std::nullopt`.  `erase` performs the two
assignments to `sparse` in the order of the code.  `insert_at` does not look whether the entity has the
component, and neither does `Registry::add_component`; systems that mark an entity with `ToDestroy` again
(`CollisionSystem.cpp:97`, `ShootingSystem.cpp:225`, `HealthSystem.cpp:141`, `ServerNetworkSystem.cpp:138`) do insert it
twice.  The model lets anybody be inserted twice.  Its first element is then left over in the arrays: the
iteration meets it again, and an erasure that moves it onto a hole may give the entity a component it no longer had.
`doubled` is history, the entities this has happened to, and exactly they are excepted from `IterationExact` and from the promise
of `PartialMap`; for everybody else both hold among leftovers too.

### Combat

`step` follows the systems of a tick in the order of `GameSession::update` (two systems of the same
kind keep their two places: shooting, collection).  In a step every pair that touches is handled once, in
any order; which pairs touch is a choice, so positions are left out.  A hit with all
that its events cause is one action, because `EventBus::publish` calls the handlers: `Damage` runs the health
handlers as often as they are subscribed (`Subscriptions`), publishes a death for each that finds no health
left, credits the killer, drops bonuses, and lets `PlayersDie` take the life.  `marked` is the set of
`ToDestroy` and only `Destroy` empties it; everything marked stays in the way until then.
The laser, which damages without an event, kamikazes, shields, turrets and the end of the respawn's
invulnerability are actions of their own.  `sorties` is history: how many ships a player was given.

### Replication

The server's loop has two phases: packets and the tick up to the network system (`early`), the rest of the
tick and the broadcast by the main thread (`late`).  `spawns`, `destroys`, `shots` are the three
queues; `NetworkUpdate` sends the first two and kills what is marked, `Broadcast` sends what was queued since and
the shots.  A snapshot is `InSnapshot`: any choice of entities the order of kinds and the limit `Cap`
allow.  `net` is what is under way; a packet that overtakes another or `SERVER_GAME_START`, or is
lost, counts against `MaxFaults`.  `udp` distinguishes the first game of a connection, in which the client is deaf
until its handshake and is then resynchronized, from later ones, in which the association is still there and
`connect_udp` sends no handshake.  The client's side is the tables of `EntityManager`.

### ClientApp

The client is one player, `Me`; the other one acts on the server at once.  A step is a click, a packet, or
what a frame does by itself.  `toServer` and `toClient` are the TCP streams, so the model has every order of clicks and
answers the streams allow.  `menu` is `MenuManager`'s screen and stays while a game is shown; `view` is
`ScreenManager`'s.  `EnterScreen` includes the `on_enter` of the screens, of which the lobby's takes the chat;
`NoticeScreen` is the edge of `was_in_menu` in `ClientGame::run`, which gives the chat to the game.  The
server's side is the handlers of `Server.cpp` over the rooms of `RoomManager`, which the module extends.

The end of a game is one UDP datagram per member of the session (`Server.cpp:648`) and not part of `toClient`.  `overs` counts
those under way: `GameOver` adds none (lost, or not sent for want of the handshake), one, or two (doubled), at
any time while a game runs, and `OnGameOver` takes one at any time, before or after any start and any answer.  `udp` is
`connect_udp`'s socket: before the first `SERVER_GAME_START` is handled there is nothing to receive with.

Three things may separate the screens from the rooms, and each has a history variable.  A room entered *behind* a game or
its result, when an answer to a join comes after the start or a late end covers the screen, takes the chat and is shown by nobody;
a late end that comes over a lobby puts it *away*, since the result's button leads to the main menu (`strayed`).
`on_client_leave_room` does not ask which room is meant, so one the client sends before it hears that the room's game
has started takes it out of the room that an earlier request has entered since (`misled`).

### LevelFade

`notices` is what is under way to the client: the announcement of a level, its loading, a respawn and the end of a game
by UDP, the start of one by TCP.  `Fault` loses the oldest datagram, sends a copy of it after the others, or lets two neighbours
change places, at most one of them TCP; the start of a game is never lost or doubled.  The code sends an announcement
and a `LEVEL_READY` five times in a row; a notice stands for its burst, whose copies do no more than the first as long as nothing
comes between them, and a copy that comes later is the fault of doubling.
`link` is the UDP connection, closed until the first start, then waiting for the handshake, which may be lost; until it is
open, notices are not sent.  `BeginGame` may also take the client out of a running game.
`fade` is the state of `fade_state_`; `Blackout` applies what is pending (a level, a respawn, or both) when the screen
is black, `Reveal` waits for `level_ready_received_` only when a level was changed.  `hurried`, `cut` and `disturbed` are history:
a respawn has come since the announcement; a game has ended before the announced level was loaded; a datagram was lost, doubled,
overtaken or not sent, or a game started with a level of another one pending.

### Bagario

`step` alternates between the packets of a tick and `BagarioSession::update`.  `cell` is the registry and `tracked`
`m_player_cells`, so what the two have to agree on is stated between them.  Positions are left out: a cell is named by its
player and its place among that player's cells, `Scans` are the orders in which the collision system may meet up to
`MaxScan` cells that touch, `MeetPair` is one round of its loops and `Meet` what happens in it.  Masses are small whole numbers.
`HandleEvent` is the session's handler; `Collided` runs it from the collision system's callback and
`Reported` again from `get_events()`, as `setup_systems` and `update` do.  `Killed` removes what is marked and lets the
places close up.  `eaten` and `melted` are history: the packets `SERVER_PLAYER_EATEN`, and the players whose last cells all
merged into one another.  The loops over cells and events (`Spawned`, `SplitAll`, `Scan`, `Erase`,
`HandleEvents`) are recursive functions over an initial part of the naturals, which is what the proofs reason about.

## 3. The runs

| run | instance | distinct states | what it shows |
|---|---|---|---|
| `pool` | 2 workers, 2 sessions | 79,888 | barrier, no destroyed session in use, refinement of `TickBarrier`, a batch that was scheduled completes |
| `pool_join` | 1 worker, 1 session | | *disagreement*: the destructor can wait for ever |
| `server` | 3 players, 1 room of 3, 2 lobbies of 2, 3 sessions | 121,479 | clients and sessions agree, one game each, chat stays inside, lobbies agree and count down exactly when full, rooms refined, hosts pass on |
| `connections` | 2 clients, 2 packets each | 58,752 | order, no deaf and no forgotten client, no lock-out |
| `session` | 2 players, 2 lives, delay of 2, levels 1 to 4 | 87,687 | lives, end, bosses, announcements, respawn |
| `combat` | 2 players, 3 ships, 3 enemies, a bullet, a bonus, a turret | 1,789,472 | no wreck survives the tick, one life per ship, levels follow scores, scores kept |
| `combat_scores` | the same | | *disagreement*: the score reported for the global leaderboard is that of the last death |
| `replication` | the client's ship and a look-alike of another player, an enemy, its shot, snapshots of 2, 1 fault | 847,009 | who is shown when all has arrived, own ship, sides of shots, no ship kept after its death |
| `client` | 1 client and another player, 2 rooms of 2 places, 3 messages under way | 3,341,223 | lobby screen and chat follow the server through lost, doubled and late ends of games; membership, countdowns and closed rooms |
| `fade` | 3 levels, 3 notices under way, any number of games and faults | 471,495 | the announced map behind the black, the screen comes back |
| `bagario` | 2 players of up to 3 cells, a virus | 43,196 | cells tracked exactly, eaten told once and when true, limit of cells |
| `sparse_set` | 4 entities, 2 values, size up to 5, second insertions | 1,137,808 | exact iteration and refinement of `PartialMap`, but for entities inserted twice |

State counts are after symmetry reduction where a run uses it (players in `server`, players, ships and enemies in
`combat`, players in `bagario`: they are interchangeable; runs with liveness properties use none).

**Why the bounds are enough.**
- *Pool:* a worker takes several tasks of a batch or lags a batch behind while the other goes on; batches of every size
  follow one another; nothing counts higher than the number of sessions.  The safety properties are proved for any number.
- *Server:* a player in a running game is started into another through a room and through a lobby, and a third player is
  left behind in the first; three sessions let that happen twice; a lobby cancels and fills again.
- *Connections:* one client can be served, kicked or lost at every step of what the server does with the other, and the
  connect packet and a later one are told apart; the proofs remove the bound on packets.
- *Session:* two players are needed for one to be dead while the other goes on; two lives for a death that is not the
  last; four levels for the skipped one, one announced after it and a last one.
- *Combat:* health of two makes a hit that kills by its second handler differ from one that kills by its first; two
  players make kills of one player level up the other; the third ship is a respawn; the kamikaze and two other enemies
  allow several deaths in a tick; two thresholds are passed by one and two kills.
- *Replication:* `Cap` of two is less than the entities alive, a fault is enough to break each promise that does not
  except faults, and two packets under way are enough to overtake; the second ship has the low four bits of the client's player id
  (1 and 17) and lives beside the client's.  The client's own next ship, after a death, is in the theorems only.
- *Client:* a request may follow another before the first answer, and two answers or two ends of games may be under
  way (`MaxEach`), three messages of all kinds together (`MaxUnderWay`): a leave, a start and a late end, or a doubled end and a join.
  Two rooms, one with a password, let the client be in one and ask for the other.  The proofs have neither bound.
- *Fade:* two changes of level, a respawn and the end of the game fit into one fade; three notices let one be overtaken by two;
  games follow one another without a bound, and so do faults.  The safety theorem has no bound.
- *Bagario:* three cells of a limit of three, all of which may meet in a tick (`MaxScan`), in a chain or in a circle; a fourth
  one alive lets a player lose a cell and keep one; mass three is what a virus splits, two what a player splits.  Cells that all
  melt into one another need five of them and larger masses, which this instance has not; the theorems have no bound.
- *Sparse set:* erasures at the front, in the middle and at the end, of entities with no, one or several leftovers.

The bounded ids (`RoomIds`, `LobbyIds`, `SessionIds`, entities), `MaxSize` and `MaxSent` stop only creation: every other action stays
possible when they are used up.  `MaxEach`, `MaxUnderWay`, `MaxNet` and `MaxNotices` make a sender wait; `MaxFaults` ends the
faults of `Replication`.

**Deadlock** is checked in every run but `replication`: a system at rest has an explicit step for it (`Terminated` of the
pool, `Erased` of the session, ticks of lobbies and rooms, `UpdateRooms` and `CleanupEmptyRooms`, when there is nothing to do), or can always take another
step.  In `replication` ids are used once and packets that wait for a fault may fill the network: once all ids are
spent the model may stop, where the program would go on with new entities.

**Fairness.**
- *Pool:* weak fairness of each step of each thread: a runnable thread runs.  Strong fairness of
  taking a mutex (`LockQueue`, `PushTasks`, `LockCompletion`, `SignalCompletion`): a thread waiting in the
  kernel for a mutex that is released again and again gets it.  `RunUpdate` is fair because
  `GameSession::update` has no unbounded loop.  Nothing is assumed of spurious wakeups, of clients or of
  new sessions.
- *Session:* weak fairness of the tick, `TickStep`: `Server::run` never stops updating active
  sessions, and every update comes to its end.  Which of its choices a tick makes is free.
- *Connections:* strong fairness of the main thread, of the report of a broken connection and of each
  client's read handlers: the io context serves completions in the order they arrive, a waiter gets the
  mutex, and a blocking write ends, because the peer reads or its connection breaks.  A peer that
  stops reading without its connection breaking is outside of this: it would stop both
  threads, since the code writes with the mutex held and sets no time limit.  Nothing is assumed of peers.
- *Replication:* the server's loop goes on and sends snapshots again and again (strong fairness of `SendSnapshot`, which
  waits for room on the network), what is not lost arrives, and `SERVER_GAME_START`, sent by TCP, arrives.
- *Fade:* weak fairness of the client's frames, of the arrival of what is not lost, and of the loading of an announced level,
  which is a timer of the session.  Nothing is assumed of the handshake, of faults or of games.

### Where the code and its documents disagree

1. *pool_join.*  `~SessionThreadPool` stores the flag and notifies without `queue_mutex_`
   (`SessionThreadPool.cpp:17`): the notification can fall between a worker's test and its sleep.
2. *combat_scores.*  The score kept for a player outside of its ship changes only when the ship dies, so the global
   leaderboard is given the score of the last death.

Met while modelling, and described with the hazards; each property below states exactly the exception it makes:
- a room emptied and joined again within one tick keeps a host who left, so nobody in it can start (`HostPasses`);
- after the game of a room its remaining members have no `lobby_id` and their messages reach nobody;
- loading a level clears the respawns under way and gives nobody a ship (`ShipComesBack` is stated within a level);
- `CLIENT_DISCONNECT` leaves the player in its lobby, its room and its session;
- an end of connection reported before `CLIENT_CONNECT` is handled leaves the client in `connected_clients_`
  for ever (`ForgottenUnlessEarly`);
- the timeout check is never called;
- an entity that is marked `ToDestroy` twice leaves an element behind in the arrays (`IterationExact`, `ImplementsMap`, by `doubled`);
- an answer to a join that arrives behind a running game leaves the client in a room no screen shows, and its chat in the
  wrong overlay (`LobbyShown`, `ChatShown`, by `strayed`);
- `SERVER_GAME_OVER` is one datagram: lost, it leaves the client in a game that is over until the player presses Escape; late or
  doubled, it covers a lobby entered since, or the next game, with a result (`LobbyShown`, by `strayed`; `ShownLevelRight`, by `disturbed`);
- `on_client_leave_room` ignores the room id of the packet (`Server.cpp:830`), so a leave sent before the
  client hears of the game start takes the player out of the room it has entered since (`LobbyShown`, by `misled`);
- a respawn during a level change shows the new map before the server has loaded it (`ShownLevelRight`, by `hurried`), and a lost
  burst of `LEVEL_READY`, or a late copy of `LEVEL_TRANSITION`, leaves the screen black (`DarkEnds`);
- a game that starts while a level of another one waits behind the fade gets that level's map (`ShownLevelRight`, by `disturbed`);
- after sixteen connections another player's ship can be taken for the client's own (`OwnShipFollowed`, by `NoLookAlike`);
- a shot destroyed in its own tick is announced after its destruction and stays on the client (`SettledInStep`);
- only the first game of a connection is resynchronized, and a lost handshake is never repeated;
- the last cells of a player can all merge into one another in one tick, when five of them or more overlap: marked cells go
  on merging (`BagarioCollisionSystem.cpp:172-264`), so with masses 1, 2, 1, 2, 4 each is absorbed by another.
  The player keeps an empty entry and is sent no `SERVER_PLAYER_EATEN`, which `PROTOCOL.md:553` promises
  "when player loses all cells" (`EatenOnce`, by `melted`).  It was found while `EatenOnce` was being proved: without the
  exception the inductive step fails;
- systems are initialised twice, so every hit counts double and a virus divides a cell twice.  Bagario
  depends on it: handled once, its events would leave a player without cells and without news (the mutant `Reported_Once`).

## 4. The theorems

Each is proved for every value of the constants, from the named assumptions next to the
constants (sets of ids are sets of naturals, workers are finite and not empty, a level, a
life or a packet exists, an absent value is not a present one, ejecting costs less than the mass it needs).

| module | theorems | inductive invariant and why it is needed |
|---|---|---|
| `TickProofs`, first part | `TypeCorrect`, `BarrierSafe`, `ExclusiveSessions`, `NoDanglingSession`, `PoolImplementsBarrier` | the batch is partitioned into queued, running, counted; `completed` is the number of the counted and `pending` that of the batch, so equal counters mean that nothing is queued or running.  The counting is done with the theorems on finite sets. |
| `TickProofs`, second part | `BagTypeCorrect`, `TrackedAgreeHolds`, `EatenOnceHolds`, `CellLimitHolds` | between the steps a list holds exactly the cells of its player, the marked cells are those of players without an entry, and the news follows the entries (`BagIInv`).  Inside a tick the lists lag behind the marks, so what the handling of the events keeps is stated of *events handled so far* (`Handling`): a list is the player's cells in the registry without those the handled events cost, a cell without a list was marked by the collisions, and an entry is lost together with one packet.  A list emptied by a merge into an eaten cell is found by the second handling, which meets the eaten cell's event again (`SecondTime`); who has no entry is told nothing more.  The names after a kill are ranks, so different cells keep different names (`RankIs`, `NamesDiffer`) |
| `RoomManagerProofs` | `RoomsTypeCorrect`, `RoomsMembership`, `RoomsPlayerLists`, `RoomsCountdown`, `RoomsStayStarted`, `RoomsHostPasses` | membership, lists without duplicates and countdowns with players need each other (removing a player once must remove the player), and ids not handed out yet are absent |
| `GameServerProofs`, first part | `LobbiesTypeCorrect`, `LobbiesMembership`, `LobbiesCountdown`, `LobbiesOpenWhenNeeded` | a lobby is `Settled`: it holds at most its capacity and counts down exactly at it |
| `GameServerProofs`, second part | `ServerTypeCorrect`, `ServerSessionsAgree`, `ServerOneSessionEach`, `ServerChatStaysInside`, `ServerRespectsRooms`, `ServerRoomsSound`, `ServerLobbiesSound` | `SessionsAgree` and `OneSessionEach` need each other, because a game start takes players out of the session their `PlayerInfo` names; a session whose id is not handed out yet does not exist (`FreshSessions`), who is not connected has no `PlayerInfo` (`OthersForgotten`), and a `lobby_id` names a room only while the player is in it (`RoomKnown`), which is why chat stays inside.  The refinement is step by step: each handler is an operation of the rooms or leaves their variables alone |
| `ConnectionsProofs` | `ConnectionsTypeCorrect`, `ConnectionsInOrder`, `ConnectionsListening`, `ConnectionsForgotten` | batch and queue are one sequence; a known or kicked client's first packet has been handled, so it is never added again; a client without an entry whose first packet is still to come has been reported early |
| `GameSessionProofs` | `SessionTypeCorrect`, `SessionLivesSound`, `SessionReportedOnce`, `SessionEndsRight`, `SessionHasLives`, `SessionOwnBoss`, `SessionAnnounces` | being out of lives and being in `GAME_OVER` are found in the same tick; `boss_spawned` belongs to the loaded level; the number the session announces is the one the level system moves to |
| `CombatProofs` | `CombatTypeCorrect`, `CombatNoCorpses`, `CombatOneLifePerShip`, `CombatRankEarned`, `CombatScoreKept` | who flies or waits for a ship has a life (`Accounts`), no two players share a ship and a body that is still to come is whole (`Hangar`), what has no health left is marked until `DestroySystem` empties the marks, and the ship of a living player never is (`Wrecks`).  How many deaths the handlers of one hit publish is a lemma of its own, as is the level of a score, the greatest element of a set of thresholds |
| `ClientProofs`, first part | `AppTypeCorrect`, `AppLobbyShown`, `AppChatShown`, `AppRespectsRooms`, `AppRoomsSound` | since the end of a game may come at any time, no order of the messages is assumed: each entry into a room under way is told apart by whether a game is announced after it (`FreshIn`, `StaleIn`).  Whoever waits in a room is about to be told, shows its lobby, is leaving it or has strayed (`Spoken`); everything fresh is about the client's room unless the client was misled (`Honest`); every room number under way has been handed out (`Old`), so that no new room makes a stale entry fresh |
| `ClientProofs`, second part | `FadeTypeCorrect`, `FadeShowsRightLevel` | while nothing is disturbed, the levels a client hears of come in the order they were announced: counted from the last start of a game under way (`From`, `Due`, `Heralds`), the map on the screen, the change that waits behind the curtain and the announcements rise (`Rising`) to the level announced last (`ReachesAnnounced`), and what has not been loaded is not believed to be (`NotReadyYet`) |
| `EntityProofs`, first part | `SetTypeCorrect`, `EntriesLeadHome`, `IterationIsExact`, `SparseSetIsMap` | every entry leads to a place that holds its entity, and every place is led to or is a leftover of an entity that was inserted twice; so only such an entity's entry can be overwritten when an erasure moves the last element |
| `EntityProofs`, second part | `ReplicaTypeCorrect`, `ReplicaSettledInStep`, `ReplicaOwnShipFollowed`, `ReplicaSidesRight` | what holds always (`Always`: nothing is said of what is not created, only the dead are said destroyed, one ship is the client's own) and what holds while nothing was lost or overtaken (`InStep`).  The latter follows each piece of news from the queues over the network into the tables: a living entity is known or its spawn is on the way (`Reached`), a snapshot without a living ship was sent before that ship was (`SnapshotsFull`), the destruction is behind every spawn of the dead (`AllBuried`), no own ship is announced after the living one (`LatestLast`), a shot is behind its enemy (`SidesTold`).  Both flushes of the server, the tick's and the broadcast, are proved once, as `Flush` |

Nothing is assumed of the callers of the sparse set: they may insert an entity as often as they like.
`ReplicaSettledInStep` and `ReplicaOwnShipFollowed` assume that a snapshot has room for a ship of every player (`ShipsFit`; the
code has 55 places).  Enemies may be more than a snapshot holds: the client moves them on by itself and a snapshot never removes
them.  Nothing is assumed of player ids: `ReplicaOwnShipFollowed` says of a session with look-alikes that the one ship that is
steered is a living one with the client's low four bits, and that it is the client's until a look-alike comes up.
`SessionAnnounces` assumes `~Stalls`.  Rooms are assumed nothing of: packets and updates alternate as they like.  `Combat` assumes of the
thresholds of levels what `LEVEL_THRESHOLDS` gives (the first level, and only it, costs nothing), and that ships, enemies and the other bodies are
different entities.

Several theorems state what no run checks because it is proved for every instance: types, `AppRespectsRooms`, `ExclusiveSessions`,
`RoomsPlayerLists`, `LobbiesOpenWhenNeeded`, `EntriesLeadHome`, `SessionEndsRight`, `SessionHasLives`.

**Loops.**  What a recursive function over a sequence keeps is proved by induction on its argument, but the library's
induction theorems take a predicate as a parameter, which these provers cannot instantiate.  `TickProofs` does its inductions
over *sets* of numbers instead: a set of naturals that contains 0 and, with each number, the next one, contains all of
them (`NatSets`, and `UpTo` for the domain of a loop), which follows from `<` being well-founded.  Each loop
then has a lemma that says what one round keeps and one that says what all of them do (`SpawnedGrows`, `SplitAllGrows`,
`ScanKeeps`, `HandleAll`).

**Only model-checked.**  Liveness (`BatchCompletes`, `ShipComesBack`, `MainLoops`, `DeadShipLeaves`,
`DarkEnds`): the prover treats neither fairness nor `ENABLED`.  The disagreements, which are counterexamples.  Every
invariant and every safety property of a step that a passing run checks is a theorem.  No module has a `RECURSIVE`
operator.

`LevelFade`, `SparseSet` and `Bagario` prefix the names every module has (`FadeInit`, `SetNext`, `BagTypeOK`), so that one
module of proofs can extend them together with another component.

## 5. Not modelled

- *Data races.*  `connected_clients_` is used by three threads without a lock.  `Connections`
  has its accesses as separate steps but does not ask whether the hash map survives two at once;
  `GameServer` takes handlers as atomic.
- *UDP association tables:* each connection of a client opens a fresh socket, so the two tables are inverse to each
  other; what remains of them after a disconnection is garbage nobody reads.  That a client has an association is in
  `Replication`.  *The timeout check*, which the server never calls; stopping the network plugin while handlers run.
- *Inputs, velocities and prediction:* what a late input does ends with the next one.
- *Geometry:* positions, speeds, cooldowns, patterns of weapons, walls, scrolling, map generation and streaming; contacts
  are choices in `Combat` and `Bagario`.
- *Data:* wave and level files, boss scripts, the leaderboard's file, encoding of packets, parsing of commands.
- *`Registry`, `EventBus`, `PluginManager`* as modules of their own: sequential containers, present in `Combat` and `SparseSet` by what
  they do.
- *Wrappers and output:* graphics, audio, input, the ENet plugin, drawing and settings of both clients, Bagario's
  client, administration, installers, prototypes, tools and tests.

## 6. Plan

Done: pool and barrier, rooms, lobbies, the server that composes them, connections, the game session, the sparse set, the
fight, replication, the client's screens and its change of level, and Bagario, with theorems for each.

Left, in this order:

1. Inputs and the acknowledged sequence number against the client's prediction.
2. The level flow of `GameSession` composed with `Combat`: deaths during the load of a level.
