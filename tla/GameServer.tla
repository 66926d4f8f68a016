------------------------------ MODULE GameServer ------------------------------
(***************************************************************************)
(* The Server class: the handlers of client packets and of TCP             *)
(* disconnections, and the callbacks of lobbies, rooms and sessions.  It   *)
(* composes RoomManager and LobbyManager with connected_clients_ and with  *)
(* what the server knows of the sessions.                                  *)
(*                                                                         *)
(* A connection gets a fresh player id, so client id and player id name    *)
(* the same thing and connected_clients_ and player_to_client_, always     *)
(* changed together, are one function.  PlayerInfo's in_lobby/lobby_id and *)
(* in_game/session_id are assigned in pairs: 0 stands for false.           *)
(* A handler is one step.  Ids of lobbies and of rooms are kept apart, as  *)
(* they are until the thousandth lobby.                                    *)
(***************************************************************************)
EXTENDS RoomManager, LobbyManager

CONSTANT SessionIds  \* the ids sessions can take: bounds how many are ever started

ASSUME SessionIdsAssumption == SessionIds \subseteq Nat \ {0}
ASSUME IdsApart == LobbyIds \cap RoomIds = {}

VARIABLES
    conn,         \* is the player's client in connected_clients_?
    info,         \* its PlayerInfo: lobby_id and session_id
    sessions,     \* sessions_: life and player list of each GameSession
    nextSession   \* next_session_id_

sessionVars == <<sessions, nextSession>>
serverVars == <<rooms, playerRoom, nextRoom, lobbies, playerLobby, nextLobby,
                conn, info, sessions, nextSession>>

PlayerInfo == [lobby : {0} \cup LobbyIds \cup RoomIds, session : {0} \cup SessionIds]
GameSession == [life : {"none", "active", "over"}, players : SUBSET Players]
NoInfo == [lobby |-> 0, session |-> 0]

ServerTypeOK ==
    /\ TypeOK
    /\ LobbyTypeOK
    /\ conn \in [Players -> {"new", "on", "gone"}]
    /\ info \in [Players -> PlayerInfo]
    /\ sessions \in [SessionIds -> GameSession]
    /\ nextSession \in Nat

ServerInit ==
    /\ Init
    /\ LobbyInit
    /\ conn = [p \in Players |-> "new"]
    /\ info = [p \in Players |-> NoInfo]
    /\ sessions = [s \in SessionIds |-> [life |-> "none", players |-> {}]]
    /\ nextSession = 1

Connected == {p \in Players : conn[p] = "on"}
Active == {s \in SessionIds : sessions[s].life = "active"}

------------------------------------------------------------------------------
(* Connections                                                             *)

\* on_client_connect
Connect(p) ==
    /\ conn[p] = "new"
    /\ conn' = [conn EXCEPT ![p] = "on"]
    /\ UNCHANGED <<vars, lobbyVars, info, sessionVars>>

Forget(p) ==
    /\ conn' = [conn EXCEPT ![p] = "gone"]
    /\ info' = [info EXCEPT ![p] = NoInfo]

\* on_client_disconnect, the CLIENT_DISCONNECT packet: only the two maps
ClientDisconnect(p) ==
    /\ p \in Connected
    /\ Forget(p)
    /\ UNCHANGED <<vars, lobbyVars, sessionVars>>

\* on_tcp_client_disconnected, also called at the end of kick_player, leaves the
\* lobby; rooms and sessions are not told
TcpDisconnected(p) ==
    /\ p \in Connected
    /\ Forget(p)
    /\ \/ LeaveLobby(p)
       \/ playerLobby[p] = 0 /\ UNCHANGED lobbyVars
    /\ UNCHANGED <<vars, sessionVars>>

------------------------------------------------------------------------------
(* Lobbies and rooms                                                       *)

\* on_client_join_lobby does not ask whether the player is in a room
OnJoinLobby(p, kind) ==
    /\ p \in Connected
    /\ JoinLobby(p, kind)
    /\ info' = [info EXCEPT ![p].lobby = playerLobby'[p]]
    /\ UNCHANGED <<vars, conn, sessionVars>>

OnLeaveLobby(p) ==
    /\ p \in Connected
    /\ LeaveLobby(p)
    /\ info' = [info EXCEPT ![p].lobby = 0]
    /\ UNCHANGED <<vars, conn, sessionVars>>

\* mutant of Unattached: a player in a room may create or join another
Unattached_LobbyOnly(p) == p \in Connected /\ playerLobby[p] = 0

\* the ALREADY_IN_ROOM test of on_client_create_room and on_client_join_room
Unattached(p) == p \in Connected /\ playerLobby[p] = 0 /\ playerRoom[p] = 0

OnCreateRoom(p, size) ==
    /\ Unattached(p)
    /\ CreateRoom(p, size)
    /\ info' = [info EXCEPT ![p].lobby = nextRoom]
    /\ UNCHANGED <<lobbyVars, conn, sessionVars>>

OnJoinRoom(p, r) ==
    /\ Unattached(p)
    /\ JoinRoom(p, r)
    /\ info' = [info EXCEPT ![p].lobby = r]
    /\ UNCHANGED <<lobbyVars, conn, sessionVars>>

\* mutant of OnLeaveRoom: the room is still the one the player chats in
OnLeaveRoom_InfoKept(p) ==
    /\ p \in Connected
    /\ LeaveRoom(p)
    /\ UNCHANGED <<lobbyVars, conn, info, sessionVars>>

\* on_client_leave_room forgets lobby_id even when it names a lobby
OnLeaveRoom(p) ==
    /\ p \in Connected
    /\ LeaveRoom(p)
    /\ info' = [info EXCEPT ![p].lobby = 0]
    /\ UNCHANGED <<lobbyVars, conn, sessionVars>>

OnStartGame(p, r) ==
    /\ p \in Connected
    /\ StartGame(r, p)
    /\ UNCHANGED <<lobbyVars, conn, info, sessionVars>>

------------------------------------------------------------------------------
(* Games                                                                   *)

\* mutant of MoveTo: players are not removed from their old session
MoveTo_NotRemoved(new, movers, ended) ==
    /\ sessions' = [s \in SessionIds |->
          IF s = new THEN [life |-> "active", players |-> movers]
          ELSE [sessions[s] EXCEPT !.life = IF s \in ended THEN "over" ELSE @]]
    /\ info' = [p \in Players |->
          IF p \in movers THEN [lobby |-> 0, session |-> new]
          ELSE IF info[p].session \in ended THEN [info[p] EXCEPT !.session = 0]
          ELSE info[p]]

\* mutant of MoveTo: remove_player's on_game_over is not sent to those who stay
MoveTo_NoGameOver(new, movers, ended) ==
    /\ sessions' = [s \in SessionIds |->
          IF s = new THEN [life |-> "active", players |-> movers]
          ELSE [life |-> IF s \in ended THEN "over" ELSE sessions[s].life,
                players |-> sessions[s].players \ movers]]
    /\ info' = [p \in Players |->
          IF p \in movers THEN [lobby |-> 0, session |-> new] ELSE info[p]]

\* Each mover is removed from its old session (remove_player) and added to the
\* new one.  remove_player may find that nobody left there has lives
\* (check_game_over): those sessions are over and on_game_over clears the
\* session_id of the players who stay behind.
MoveTo(new, movers, ended) ==
    /\ sessions' = [s \in SessionIds |->
          IF s = new THEN [life |-> "active", players |-> movers]
          ELSE [life |-> IF s \in ended THEN "over" ELSE sessions[s].life,
                players |-> sessions[s].players \ movers]]
    /\ info' = [p \in Players |->
          IF p \in movers THEN [lobby |-> 0, session |-> new]
          ELSE IF info[p].session \in ended THEN [info[p] EXCEPT !.session = 0]
          ELSE info[p]]

\* on_game_start: players who are no longer connected are passed over
OnGameStart(players) ==
    LET movers == players \cap Connected
        old == {info[p].session : p \in movers} \ {0}
    IN  /\ nextSession \in SessionIds
        /\ nextSession' = nextSession + 1
        /\ \E ended \in SUBSET old : MoveTo(nextSession, movers, ended)

\* lobby_manager_.update()
LobbyCountdownOver(l) ==
    /\ StartLobby(l)
    /\ OnGameStart(lobbies[l].players)
    /\ UNCHANGED <<vars, conn>>

\* room_manager_.update(): on_game_start ends with leave_room(player_ids[0])
RoomCountdownOver(r) ==
    /\ StartRoom(r)
    /\ OnGameStart(Range(rooms[r].players))
    /\ UNCHANGED <<lobbyVars, conn>>

UpdateRooms ==
    /\ CleanupEmptyRooms
    /\ UNCHANGED <<lobbyVars, conn, info, sessionVars>>

\* a session's update() found victory or defeat: on_game_over
GameOver(s) ==
    /\ s \in Active
    /\ sessions' = [sessions EXCEPT ![s].life = "over"]
    /\ info' = [p \in Players |->
          IF info[p].session = s \/ (p \in sessions[s].players /\ p \in Connected)
          THEN [info[p] EXCEPT !.session = 0] ELSE info[p]]
    /\ UNCHANGED <<vars, lobbyVars, conn, nextSession>>

ServerNext ==
    \/ \E p \in Players :
          \/ Connect(p) \/ ClientDisconnect(p) \/ TcpDisconnected(p)
          \/ OnLeaveLobby(p) \/ OnLeaveRoom(p)
          \/ \E kind \in Kinds : OnJoinLobby(p, kind)
          \/ \E size \in Sizes : OnCreateRoom(p, size)
          \/ \E r \in RoomIds : OnJoinRoom(p, r) \/ OnStartGame(p, r)
    \/ \E l \in LobbyIds : LobbyCountdownOver(l)
    \/ \E r \in RoomIds : RoomCountdownOver(r)
    \/ UpdateRooms
    \/ \E s \in SessionIds : GameOver(s)

ServerSpec == ServerInit /\ [][ServerNext]_serverVars

------------------------------------------------------------------------------
(* Properties                                                              *)

\* on_client_chat_message: the session's players, else the room's, if connected
Recipients(p) ==
    (IF info[p].session # 0 THEN sessions[info[p].session].players
     ELSE IF info[p].lobby \in Live THEN Members(info[p].lobby)
     ELSE {}) \cap Connected

\* The handlers call RoomManager only as it allows, for players that are in no
\* room, which they have to ask themselves: so the rooms keep every property
\* proved of them in isolation.
RoomsRespected == Spec

\* What the server believes of a connected player and what the sessions list
\* agree: session_id names the one running session the player is in.
SessionsAgree ==
    \A p \in Connected, s \in SessionIds :
        info[p].session = s <=> s \in Active /\ p \in sessions[s].players

\* Nobody, connected or gone, is listed by two running sessions: the inputs of
\* one player never drive two ships.
OneSessionEach ==
    \A s, t \in Active : s # t => sessions[s].players \cap sessions[t].players = {}

\* What a player writes is read only by players of the same running session or
\* the same room.
ChatStaysInside ==
    \A p \in Connected : \A q \in Recipients(p) :
        \/ \E s \in Active : {p, q} \subseteq sessions[s].players
        \/ playerRoom[p] # 0 /\ playerRoom[p] = playerRoom[q]
==============================================================================
