------------------------------- MODULE ClientApp -------------------------------
(***************************************************************************)
(* The client program before and after a game: its screens (MenuManager    *)
(* and ScreenManager), what they ask of the server, what the answers do to *)
(* them, and which screen shows the chat (ClientGame::run).  The fade of a *)
(* level change is in LevelFade, the entities in Replication.              *)
(*                                                                         *)
(* The client is one player, Me; Peer is everybody else and acts on the    *)
(* server at once.  The server's rooms are those of RoomManager, which     *)
(* this module extends: vars are the variables of the rooms.  A step is    *)
(* one packet, one click or what a frame does by itself.  While a menu is  *)
(* on the screen ScreenManager follows MenuManager within the frame, so    *)
(* view only says whether it is a menu, the game or its result.            *)
(* Requests and answers travel by TCP, in order.  The end of a game is one *)
(* UDP datagram: it may be lost or doubled, and it may overtake or trail   *)
(* the start of a game and any answer.                                     *)
(* Names, skins, the pages of the room wizard, edit modes and drawing are  *)
(* left out, and so is closing the program.                                *)
(***************************************************************************)
EXTENDS RoomManager

CONSTANTS
    Me, Peer,   \* the two players
    Private,    \* the rooms that have a password
    MaxEach,    \* bound on requests, on answers and on ends of games under way
    MaxUnderWay \* bound on all of them together

ASSUME BoundsAssumption == MaxEach \in Nat /\ MaxUnderWay \in Nat
ASSUME TwoPlayers == Players = {Me, Peer} /\ Me # Peer
ASSUME PrivateAssumption == Private \subseteq RoomIds

VARIABLES
    \* the server
    session,    \* the room whose game Me plays in, or 0
    misled,     \* history: has a leave meant for one room taken Me out of another?
    \* between them
    toServer, toClient,
    overs,      \* SERVER_GAME_OVER datagrams under way
    udp,        \* udp_connected_ of the client: is its socket open and its handshake sent?
    \* MenuManager and its screens
    menu,       \* current_screen_
    listed,     \* available_rooms_ of BROWSE_ROOMS
    dialog,     \* pending_room_id_ of the password dialog, 0 when hidden
    roomShown,  \* room_id_ of ROOM_LOBBY
    isHost,     \* is_host_
    counting,   \* countdown_value_ > 0
    \* NetworkClient
    known,      \* player_id_ # 0
    roomId,     \* room_id_
    \* ClientGame
    view,       \* ScreenManager: a menu, PLAYING, or VICTORY/DEFEAT
    wasInMenu,  \* was_in_menu of run()
    chatTo,     \* the overlay on_chat_message_ points to
    strayed     \* history: was the last room entered "behind" a game or its result,
                \* or its lobby put "away" by the end of a game?

serverVars == <<rooms, playerRoom, nextRoom, session, misled>>
datagrams == <<overs, udp>>
wires == <<toServer, toClient, datagrams>>
shownVars == <<roomShown, isHost, counting, roomId>>
menuVars == <<menu, listed, dialog>>
chatVars == <<wasInMenu, chatTo, strayed>>
clientVars == <<menuVars, shownVars, known, view, chatVars>>
appVars == <<serverVars, wires, clientVars>>

\* "other" are the screens that ask nothing about rooms: settings, leaderboard
Menus == {"connection", "main", "create", "browse", "lobby", "other"}
Request(t, r) == [type |-> t, room |-> r, known |-> known]
Answer(t, r) == [type |-> t, room |-> r]
Listing(R) == [type |-> "list", rooms |-> R]

Requests == [type : {"connect", "create", "join", "leave", "start", "list"},
             room : {0} \cup RoomIds, known : BOOLEAN]
Answers == [type : {"accept", "created", "joined", "error", "countdown", "start"},
            room : {0} \cup RoomIds] \cup [type : {"list"}, rooms : SUBSET RoomIds]

AppTypeOK ==
    /\ TypeOK
    /\ session \in {0} \cup RoomIds
    /\ toServer \in Seq(Requests) /\ toClient \in Seq(Answers)
    /\ overs \in 0..MaxEach /\ udp \in BOOLEAN
    /\ menu \in Menus /\ listed \subseteq RoomIds
    /\ {dialog, roomShown, roomId} \subseteq {0} \cup RoomIds
    /\ {isHost, counting, known, wasInMenu, misled} \subseteq BOOLEAN
    /\ view \in {"menu", "playing", "result"} /\ chatTo \in {"room", "game"}
    /\ strayed \in {"no", "behind", "away"}

AppInit ==
    /\ Init
    /\ session = 0 /\ misled = FALSE
    /\ toServer = <<>> /\ toClient = <<>> /\ overs = 0 /\ udp = FALSE
    /\ menu = "connection" /\ listed = {} /\ dialog = 0
    /\ roomShown = 0 /\ isHost = FALSE /\ counting = FALSE
    /\ known = FALSE /\ roomId = 0
    /\ view = "menu" /\ wasInMenu = TRUE /\ chatTo = "game" /\ strayed = "no"

------------------------------------------------------------------------------
(* Clicks.  MenuManager::update runs in frames that show a menu, and only  *)
(* the password dialog is updated while it is visible.                     *)

InMenu(m) == view = "menu" /\ wasInMenu /\ menu = m /\ dialog = 0

\* mutant of EnterScreen: ROOM_LOBBY does not take the chat back
EnterScreen_ChatKept(m) ==
    /\ menu' = m
    /\ UNCHANGED chatTo

\* MenuManager::set_screen and the on_enter of the screens
EnterScreen(m) ==
    /\ menu' = m
    /\ chatTo' = IF m = "lobby" THEN "room" ELSE chatTo

Send(requests) ==
    /\ Len(toServer) + Len(requests) <= MaxEach
    /\ toServer' = toServer \o requests

\* A click that asks something and shows another screen
Go(from, to, requests) ==
    /\ InMenu(from)
    /\ Send(requests)
    /\ EnterScreen(to)
    /\ UNCHANGED <<serverVars, toClient, datagrams, listed, dialog, shownVars, known,
                   view, wasInMenu, strayed>>

\* attempt_connect and its callback; a failed attempt only shows an error
Connect == Go("connection", "main", <<Request("connect", 0)>>)

\* The buttons of the main menu; the leaderboard asks for its own data
FromMain ==
    \/ Go("main", "browse", <<Request("list", 0)>>)
    \/ \E m \in {"create", "other"} : Go("main", m, <<>>)

Back == \E m \in {"create", "browse", "other"} : Go(m, "main", <<>>)

\* A click that asks something
Ask(from, requests) ==
    /\ InMenu(from)
    /\ Send(requests)
    /\ UNCHANGED <<serverVars, toClient, datagrams, clientVars>>

\* create_room(), the end of the wizard: the screen waits for the answer
CreateClicked == Ask("create", <<Request("create", 0)>>)

\* Join, or Refresh; the rooms with a password are for the dialog
BrowseClicked ==
    \/ \E r \in listed \ Private : Ask("browse", <<Request("join", r)>>)
    \/ Ask("browse", <<Request("list", 0)>>)

\* Leave, or Start of the host
LobbyClicked ==
    \/ Go("lobby", "main", <<Request("leave", roomId)>>)
    \/ Ask("lobby", <<Request("start", roomId)>>) /\ isHost /\ ~counting

\* In the lobby MenuManager::update asks for the rooms once a second
LobbyRefresh == Ask("lobby", <<Request("list", 0)>>) /\ roomShown # 0

\* show, and hide by Join or Cancel: the menu behind may have changed since
Dialog ==
    /\ view = "menu" /\ wasInMenu
    /\ \/ \E r \in listed \cap Private : InMenu("browse") /\ dialog' = r /\ UNCHANGED toServer
       \/ dialog # 0 /\ dialog' = 0 /\ (Send(<<Request("join", dialog)>>) \/ UNCHANGED toServer)
    /\ UNCHANGED <<serverVars, toClient, datagrams, menu, listed, shownVars, known,
                   view, chatVars>>

\* The button of the result screen
BackToMenu ==
    /\ view = "result" /\ ~wasInMenu
    /\ view' = "menu" /\ EnterScreen("main")
    /\ UNCHANGED <<serverVars, wires, listed, dialog, shownVars, known, wasInMenu, strayed>>

User ==
    \/ Connect \/ FromMain \/ Back \/ CreateClicked \/ BrowseClicked \/ LobbyClicked
    \/ Dialog \/ BackToMenu

------------------------------------------------------------------------------
(* Frames                                                                  *)

\* was_in_menu && !in_menu: the chat goes to the overlay of the game
NoticeScreen ==
    /\ wasInMenu # (view = "menu")
    /\ wasInMenu' = (view = "menu")
    /\ chatTo' = IF wasInMenu THEN "game" ELSE chatTo
    /\ UNCHANGED <<serverVars, wires, menuVars, shownVars, known, view, strayed>>

------------------------------------------------------------------------------
(* Messages of the server                                                  *)

Took == toClient # <<>> /\ toClient' = Tail(toClient)
Head1 == Head(toClient)

\* on_room_created and on_room_joined; both ask for the list again
OnRoomEntered ==
    /\ Took /\ Head1.type \in {"created", "joined"}
    /\ roomId' = Head1.room /\ roomShown' = Head1.room
    /\ isHost' = (Head1.type = "created") /\ counting' = FALSE
    /\ Send(<<Request("list", 0)>>)
    /\ EnterScreen("lobby")
    /\ strayed' = IF view = "menu" /\ wasInMenu THEN "no" ELSE "behind"
    /\ UNCHANGED <<serverVars, datagrams, listed, dialog, known, view, wasInMenu>>

\* on_room_list: the lobby finds its room again and becomes its host
OnRoomList ==
    /\ Took /\ Head1.type = "list"
    /\ listed' = Head1.rooms
    /\ isHost' = (isHost \/ (menu = "lobby" /\ roomShown \in Head1.rooms))
    /\ UNCHANGED <<serverVars, toServer, datagrams, menu, dialog, roomShown, counting,
                   roomId, known, view, chatVars>>

\* mutant of OnRoomError: the lobby is left too
OnRoomError_Always ==
    /\ Took /\ Head1.type = "error"
    /\ EnterScreen("main")
    /\ UNCHANGED <<serverVars, toServer, datagrams, listed, dialog, shownVars, known,
                   view, wasInMenu, strayed>>

\* on_room_error: the lobby shows it, any other screen gives way to the main menu
OnRoomError ==
    /\ Took /\ Head1.type = "error"
    /\ IF menu = "lobby" THEN UNCHANGED <<menu, chatTo>> ELSE EnterScreen("main")
    /\ UNCHANGED <<serverVars, toServer, datagrams, listed, dialog, shownVars, known,
                   view, wasInMenu, strayed>>

OnAccept ==
    /\ Took /\ Head1.type = "accept"
    /\ known' = TRUE
    /\ UNCHANGED <<serverVars, toServer, datagrams, menuVars, shownVars, view, chatVars>>

\* MenuManager::initialize takes on_countdown_ over
OnCountdown ==
    /\ Took /\ Head1.type = "countdown"
    /\ counting' = TRUE
    /\ UNCHANGED <<serverVars, toServer, datagrams, menuVars, roomShown, isHost, roomId,
                   known, view, chatVars>>

\* handle_game_start and handle_game_over show their screen whatever was shown;
\* MenuManager keeps its own
Show(screen) ==
    /\ view' = screen
    /\ UNCHANGED <<serverVars, toServer, menuVars, shownVars, known, wasInMenu, chatTo>>

\* connect_udp opens the socket and sends the handshake, in the first game only
OnGameStart ==
    /\ Took /\ Head1.type = "start" /\ Show("playing")
    /\ udp' = TRUE
    /\ UNCHANGED <<overs, strayed>>

OnGameOver ==
    /\ overs > 0 /\ overs' = overs - 1 /\ Show("result")
    /\ strayed' = IF view = "menu" /\ menu = "lobby" /\ strayed = "no" THEN "away" ELSE strayed
    /\ UNCHANGED <<toClient, udp>>

ReceiveAnswer ==
    \/ OnAccept \/ OnRoomEntered \/ OnRoomList \/ OnRoomError \/ OnCountdown
    \/ OnGameStart \/ OnGameOver

------------------------------------------------------------------------------
(* The server                                                              *)

Tell(answers) ==
    /\ Len(toClient) + Len(answers) <= MaxEach
    /\ toClient' = toClient \o answers

Refuse == Tell(<<Answer("error", 0)>>) /\ UNCHANGED vars

\* on_client_create_room and on_client_join_room; a password may be wrong
ServeCreate ==
    IF playerRoom[Me] # 0 THEN Refuse
    ELSE \E size \in Sizes : CreateRoom(Me, size) /\ Tell(<<Answer("created", nextRoom)>>)

ServeJoin(r) ==
    IF playerRoom[Me] = 0 /\ CanJoin(r)
    THEN \/ JoinRoom(Me, r) /\ Tell(<<Answer("joined", r)>>)
         \/ r \in Private /\ Refuse
    ELSE Refuse

\* on_client_leave_room answers nothing and does not ask which room is meant
ServeLeave ==
    \/ LeaveRoom(Me) /\ UNCHANGED toClient
    \/ playerRoom[Me] = 0 /\ UNCHANGED <<vars, toClient>>

\* on_client_start_game; start_countdown tells the members at once
CountdownTold(r) == IF playerRoom[Me] = r THEN Tell(<<Answer("countdown", r)>>) ELSE UNCHANGED toClient
ServeStart(r) ==
    \/ StartGame(r, Me) /\ CountdownTold(r)
    \/ ~(r \in Live /\ rooms[r].host = Me /\ rooms[r].status = "waiting"
            /\ rooms[r].players # <<>>) /\ Refuse

\* get_public_rooms
Waiting == {r \in Live : rooms[r].status = "waiting"}

\* Packets of a client that has no player id yet are dropped, but for two kinds
Serve ==
    /\ toServer # <<>> /\ toServer' = Tail(toServer)
    /\ LET q == Head(toServer)
       IN  /\ CASE q.type = "connect" -> Tell(<<Answer("accept", 0)>>) /\ UNCHANGED vars
                [] q.type = "list" -> Tell(<<Listing(Waiting)>>) /\ UNCHANGED vars
                [] ~q.known /\ q.type \notin {"connect", "list"} -> UNCHANGED <<toClient, vars>>
                [] q.known /\ q.type = "create" -> ServeCreate
                [] q.known /\ q.type = "join" -> ServeJoin(q.room)
                [] q.known /\ q.type = "leave" -> ServeLeave
                [] q.known /\ q.type = "start" -> ServeStart(q.room)
           /\ misled' = (misled \/ (q.known /\ q.type = "leave" /\ playerRoom[Me] \notin {0, q.room}))
    /\ UNCHANGED <<session, datagrams, clientVars>>

\* What another player does to the rooms
PeerActs ==
    /\ \/ /\ playerRoom[Peer] = 0
          /\ \/ \E size \in Sizes : CreateRoom(Peer, size)
             \/ \E r \in RoomIds : JoinRoom(Peer, r)
          /\ UNCHANGED toClient
       \/ LeaveRoom(Peer) /\ UNCHANGED toClient
       \/ \E r \in RoomIds : StartGame(r, Peer) /\ CountdownTold(r)
    /\ UNCHANGED <<session, misled, toServer, datagrams, clientVars>>

\* RoomManager::update: empty rooms, the ticks of countdowns, their end
RoomsUpdate ==
    /\ \/ CleanupEmptyRooms /\ UNCHANGED <<session, toClient>>
       \/ \E r \in Live : rooms[r].countdown /\ CountdownTold(r) /\ UNCHANGED <<vars, session>>
       \/ \E r \in RoomIds :
              /\ StartRoom(r)
              /\ IF playerRoom[Me] = r
                 THEN session' = r /\ Tell(<<Answer("start", r)>>)
                 ELSE UNCHANGED <<session, toClient>>
    /\ UNCHANGED <<misled, toServer, datagrams, clientVars>>

\* on_game_over: broadcast_udp_to_session.  The network may lose the datagram or
\* deliver it twice; it is not sent while the client's handshake is under way or
\* if that was lost, which is the same to the client
GameOver ==
    /\ session # 0 /\ session' = 0
    /\ overs' \in overs..(IF udp THEN MaxEach ELSE overs)
    /\ UNCHANGED <<vars, misled, toServer, toClient, udp, clientVars>>

Server == Serve \/ PeerActs \/ RoomsUpdate \/ GameOver

AppNext ==
    /\ User \/ LobbyRefresh \/ NoticeScreen \/ ReceiveAnswer \/ Server
    /\ Len(toServer') + Len(toClient') + overs' <= MaxUnderWay

AppSpec == AppInit /\ [][AppNext]_appVars

------------------------------------------------------------------------------
(* Properties                                                              *)

Quiet == toServer = <<>> /\ toClient = <<>>

\* When nothing is under way, a client that shows the lobby of a room is in
\* that room, unless a leave meant for another room has taken it out; and one
\* whose room waits for its game shows that lobby, unless the room is one no
\* screen speaks of: it was entered behind a game or its result, or the late end
\* of a game put its lobby away.
LobbyShown ==
    Quiet /\ view = "menu" =>
        /\ menu = "lobby" => misled \/ (playerRoom[Me] = roomShown /\ roomShown = roomId)
        /\ menu # "lobby" /\ playerRoom[Me] \in Waiting => strayed # "no"

\* "This ensures ClientGame's ChatOverlay receives messages, not
\* RoomLobbyScreen's": chat is shown by the screen the player looks at, however
\* the start and the end of a game meet the answers, unless the last room was
\* entered behind a game or its result.
ChatShown ==
    wasInMenu = (view = "menu") =>
        /\ view = "menu" /\ menu = "lobby" => chatTo = "room"
        /\ view # "menu" /\ strayed # "behind" => chatTo = "game"
==============================================================================
