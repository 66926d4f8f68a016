----------------------------- MODULE RoomManager -----------------------------
(***************************************************************************)
(* Custom rooms (RoomManager and the Lobby record they are made of):       *)
(* creating, joining and leaving rooms, host transfer, the start countdown *)
(* and the removal of empty rooms.  Passwords only refuse a join, and a    *)
(* refusal changes nothing, so a join may find its password right or wrong *)
(* freely; names, difficulty and map are left out.                         *)
(***************************************************************************)
EXTENDS PlayerIds, Naturals, Sequences, Functions

CONSTANTS
    RoomIds,   \* the ids rooms can take: bounds how many are ever created
    FirstRoom, \* next_room_id_ at construction (1000)
    Sizes,     \* max_players of a created room
    NoRoom     \* rooms_ has no entry for this id

ASSUME RoomIdsAssumption == RoomIds \subseteq Nat \ {0} /\ FirstRoom \in Nat \ {0}
ASSUME SizesAssumption == Sizes \subseteq Nat \ {0}

VARIABLES
    rooms,       \* rooms_
    playerRoom,  \* player_to_room_; 0 is "no entry", as get_player_room says it
    nextRoom     \* next_room_id_

vars == <<rooms, playerRoom, nextRoom>>

Room == [players : Seq(Players), host : Players, max : Sizes,
         status : {"waiting", "in_progress"}, countdown : BOOLEAN]

ASSUME NoRoomAssumption == NoRoom \notin Room

TypeOK ==
    /\ rooms \in [RoomIds -> Room \cup {NoRoom}]
    /\ playerRoom \in [Players -> {0} \cup RoomIds]
    /\ nextRoom \in Nat

Live == {r \in RoomIds : rooms[r] # NoRoom}
Members(r) == Range(rooms[r].players)

Init ==
    /\ rooms = [r \in RoomIds |-> NoRoom]
    /\ playerRoom = [p \in Players |-> 0]
    /\ nextRoom = FirstRoom

------------------------------------------------------------------------------
(* What the operations do to one room                                      *)

NewRoom(p, size) ==
    [players |-> <<p>>, host |-> p, max |-> size, status |-> "waiting", countdown |-> FALSE]

\* players.erase(std::remove(...)): a player is in player_ids once (NoDuplicates)
Without(seq, p) ==
    LET i == CHOOSE i \in DOMAIN seq : seq[i] = p
    IN  IF p \in Range(seq)
        THEN [j \in 1..(Len(seq) - 1) |-> seq[IF j < i THEN j ELSE j + 1]]
        ELSE seq

\* mutant of Departed: the host is not transferred
Departed_HostKept(room, p) ==
    [room EXCEPT !.players = Without(room.players, p), !.countdown = FALSE]

\* leave_room: transfer_host to the first other player, erase, cancel_countdown
Departed(room, p) ==
    LET rest == Without(room.players, p)
    IN  [room EXCEPT !.players = rest,
                     !.host = IF room.host = p /\ rest # <<>> THEN rest[1] ELSE @,
                     !.countdown = FALSE]

\* cleanup_empty_rooms
Cleaned == [r \in RoomIds |-> IF r \in Live /\ rooms[r].players = <<>> THEN NoRoom ELSE rooms[r]]

------------------------------------------------------------------------------
(* The operations                                                          *)

CreateRoom(p, size) ==
    /\ nextRoom \in RoomIds
    /\ nextRoom' = nextRoom + 1
    /\ rooms' = [rooms EXCEPT ![nextRoom] = NewRoom(p, size)]
    /\ playerRoom' = [playerRoom EXCEPT ![p] = nextRoom]

CanJoin(r) ==
    /\ r \in Live
    /\ Len(rooms[r].players) < rooms[r].max
    /\ rooms[r].status = "waiting"

\* mutant of JoinRoom: status is not tested
JoinRoom_AnyStatus(p, r) ==
    /\ r \in Live
    /\ Len(rooms[r].players) < rooms[r].max
    /\ rooms' = [rooms EXCEPT ![r].players = Append(@, p)]
    /\ playerRoom' = [playerRoom EXCEPT ![p] = r]
    /\ UNCHANGED nextRoom

JoinRoom(p, r) ==
    /\ CanJoin(r)
    /\ rooms' = [rooms EXCEPT ![r].players = Append(@, p)]
    /\ playerRoom' = [playerRoom EXCEPT ![p] = r]
    /\ UNCHANGED nextRoom

\* mutant of LeaveRoom: the entry in player_to_room_ is kept
LeaveRoom_EntryKept(p) ==
    /\ playerRoom[p] \in Live
    /\ rooms' = [rooms EXCEPT ![playerRoom[p]] = Departed(@, p)]
    /\ UNCHANGED <<playerRoom, nextRoom>>

LeaveRoom(p) ==
    /\ playerRoom[p] \in Live
    /\ rooms' = [rooms EXCEPT ![playerRoom[p]] = Departed(@, p)]
    /\ playerRoom' = [playerRoom EXCEPT ![p] = 0]
    /\ UNCHANGED nextRoom

\* mutant of StartGame: status is not tested
StartGame_AnyStatus(r, p) ==
    /\ r \in Live
    /\ rooms[r].host = p
    /\ rooms[r].players # <<>>
    /\ rooms' = [rooms EXCEPT ![r].countdown = TRUE]
    /\ UNCHANGED <<playerRoom, nextRoom>>

\* start_game: only the host, only while waiting; pressing again restarts it
StartGame(r, p) ==
    /\ r \in Live
    /\ rooms[r].host = p
    /\ rooms[r].players # <<>>
    /\ rooms[r].status = "waiting"
    /\ rooms' = [rooms EXCEPT ![r].countdown = TRUE]
    /\ UNCHANGED <<playerRoom, nextRoom>>

\* update(): empty rooms are removed first
CleanupEmptyRooms ==
    /\ rooms' = Cleaned
    /\ UNCHANGED <<playerRoom, nextRoom>>

\* update() when the countdown of room r is over: the room is in progress, and
\* on_game_start makes the first player, and nobody else, leave it.  Two rooms
\* whose countdowns end in one update are two such steps.
StartRoom(r) ==
    LET first == rooms[r].players[1]
        started == [rooms[r] EXCEPT !.countdown = FALSE, !.status = "in_progress"]
    IN  /\ r \in Live
        /\ rooms[r].countdown
        /\ rooms' = [Cleaned EXCEPT ![r] = Departed(started, first)]
        /\ playerRoom' = [playerRoom EXCEPT ![first] = 0]
        /\ UNCHANGED nextRoom

\* The callers: Server creates and joins rooms for players that are in none.
\* process_packets drains every packet received since the last tick, so a room
\* that one packet emptied is still there for the next.
Next ==
    \/ \E p \in Players, size \in Sizes : playerRoom[p] = 0 /\ CreateRoom(p, size)
    \/ \E p \in Players, r \in RoomIds : playerRoom[p] = 0 /\ JoinRoom(p, r)
    \/ \E p \in Players : LeaveRoom(p)
    \/ \E p \in Players, r \in RoomIds : StartGame(r, p)
    \/ \E r \in RoomIds : StartRoom(r)
    \/ CleanupEmptyRooms

Spec == Init /\ [][Next]_vars

------------------------------------------------------------------------------
(* Properties                                                              *)

\* The map from players to rooms and the rooms' own player lists agree, so a
\* player is in at most one room and leave_room always finds its room.
MembershipAgrees ==
    \A p \in Players, r \in RoomIds :
        playerRoom[p] = r <=> r \in Live /\ p \in Members(r)

\* player_ids never lists a player twice nor more players than max_players.
PlayerListsSound ==
    \A r \in Live : /\ IsInjective(rooms[r].players)
                    /\ Len(rooms[r].players) <= rooms[r].max

\* "Host transfer when host leaves": while a room has players, no departure, join
\* or game start takes the host's part from the longest standing player, the one
\* who can start the game and whom on_game_start makes leave.  Only a room that
\* was emptied and joined before the next update() has another host.
HostPasses ==
    [][\A r \in RoomIds :
          /\ r \in Live /\ rooms[r].players # <<>> /\ rooms[r].host = rooms[r].players[1]
          /\ rooms'[r] # NoRoom /\ rooms'[r].players # <<>>
          => rooms'[r].host = rooms'[r].players[1]]_vars

\* A countdown runs only in a waiting room that has players, so the list
\* on_game_start takes the first player of is never empty.
CountdownHasPlayers ==
    \A r \in Live : rooms[r].countdown => rooms[r].status = "waiting" /\ rooms[r].players # <<>>

\* Once a room is in progress it never goes back to waiting and nobody enters.
NoEntryOnceStarted ==
    [][\A r \in RoomIds :
          r \in Live /\ rooms[r].status = "in_progress" /\ rooms'[r] # NoRoom =>
              /\ rooms'[r].status = "in_progress"
              /\ Range(rooms'[r].players) \subseteq Range(rooms[r].players)]_vars
==============================================================================
