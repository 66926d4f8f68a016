----------------------------- MODULE ClientProofs -----------------------------
(***************************************************************************)
(* Proofs about the client, for any rooms, levels and numbers of messages  *)
(* under way.                                                              *)
(*                                                                         *)
(* The screens: the end of a game may come at any time, so no order of the *)
(* messages is assumed.  What is under way is told apart by what follows:  *)
(* an entry into a room is fresh when no game is announced after it and    *)
(* stale when one is (FreshIn, StaleIn).  Whoever waits in a room is going *)
(* to be told, shows the lobby, is leaving it or has strayed (Spoken), and *)
(* everything fresh is about the client's room (Honest), unless a leave    *)
(* meant for another room has taken it out.  That every room number under  *)
(* way has been handed out before (Old) keeps a stale entry from becoming  *)
(* fresh when a room is created.                                           *)
(*                                                                         *)
(* The fade: as long as nothing is disturbed, the levels of the map, of    *)
(* what is pending and of the announcements for the game to be played      *)
(* (Heralds) rise (Rising), and the last is the announced one              *)
(* (ReachesAnnounced).                                                     *)
(***************************************************************************)
EXTENDS ClientApp, LevelFade, RoomManagerProofs

------------------------------------------------------------------------------
(* Messages under way, the oldest first                                    *)

Entered == {"created", "joined"}

\* A game is announced, the client is told that it is in a room, or asks to leave
StartIn(s) == \E i \in DOMAIN s : s[i].type = "start"
EntryIn(s) == \E i \in DOMAIN s : s[i].type \in Entered
LeaveIn(s, r) == \E i \in DOMAIN s : s[i].type = "leave" /\ s[i].room = r

\* It is told so of room r, and of no game after that, or of one
FreshIn(s, r) ==
    \E i \in DOMAIN s : /\ s[i].type \in Entered /\ s[i].room = r
                        /\ \A j \in DOMAIN s : i < j => s[j].type # "start"
StaleIn(s, r) ==
    \E i, j \in DOMAIN s : i < j /\ s[i].type \in Entered /\ s[i].room = r /\ s[j].type = "start"

\* It is told so twice and of no game after the first, or asks twice to leave r
FreshTwiceIn(s) ==
    \E i, j \in DOMAIN s : /\ i < j /\ s[i].type \in Entered /\ s[j].type \in Entered
                           /\ \A k \in DOMAIN s : i < k => s[k].type # "start"
LeaveTwiceIn(s, r) ==
    \E i, j \in DOMAIN s : /\ i < j /\ s[i].type = "leave" /\ s[j].type = "leave"
                           /\ s[i].room = r /\ s[j].room = r

\* A message joins the others.
LEMMA AtEnd ==
    ASSUME NEW S, NEW s \in Seq(S), NEW m \in S
    PROVE  LET e == s \o <<m>>
           IN  /\ e \in Seq(S) /\ Len(e) = Len(s) + 1 /\ DOMAIN e = 1..(Len(s) + 1)
               /\ \A i \in DOMAIN s : i \in DOMAIN e /\ e[i] = s[i] /\ i < Len(s) + 1
               /\ e[Len(s) + 1] = m
               /\ \A i \in DOMAIN e : i \in DOMAIN s \/ i = Len(s) + 1
               /\ \A i \in DOMAIN e : ~(Len(s) + 1 < i)
  OBVIOUS

LEMMA AnswerAtEnd ==
    ASSUME NEW S, NEW s \in Seq(S), NEW m \in S
    PROVE  LET e == s \o <<m>>
           IN  /\ StartIn(e) <=> StartIn(s) \/ m.type = "start"
               /\ EntryIn(e) <=> EntryIn(s) \/ m.type \in Entered
               /\ \A r : StaleIn(e, r) => StaleIn(s, r) \/ (m.type = "start" /\ FreshIn(s, r))
               /\ \A r : m.type \notin Entered \cup {"start"} => (FreshIn(e, r) <=> FreshIn(s, r))
               /\ \A r : m.type = "start" => ~FreshIn(e, r)
               /\ \A r : m.type \in Entered => (FreshIn(e, r) <=> FreshIn(s, r) \/ m.room = r)
               /\ FreshTwiceIn(e) =>
                     \/ FreshTwiceIn(s) /\ m.type # "start"
                     \/ m.type \in Entered /\ \E r : FreshIn(s, r)
  <1> DEFINE e == s \o <<m>>
             n == Len(s) + 1
  <1>1. /\ \A i \in DOMAIN s : i \in DOMAIN e /\ e[i] = s[i] /\ i < n
        /\ e[n] = m /\ n \in DOMAIN e
        /\ \A i \in DOMAIN e : i \in DOMAIN s \/ i = n
        /\ \A i \in DOMAIN e : ~(n < i)
    BY AtEnd
  <1> HIDE DEF e, n
  <1>2. StartIn(e) <=> StartIn(s) \/ m.type = "start"
    BY <1>1 DEF StartIn
  <1>3. EntryIn(e) <=> EntryIn(s) \/ m.type \in Entered
    BY <1>1 DEF EntryIn
  <1>4. ASSUME NEW r, StaleIn(e, r)
        PROVE  StaleIn(s, r) \/ (m.type = "start" /\ FreshIn(s, r))
    <2> PICK i, j \in DOMAIN e : i < j /\ e[i].type \in Entered /\ e[i].room = r /\ e[j].type = "start"
      BY <1>4 DEF StaleIn
    <2>1. i \in DOMAIN s /\ s[i] = e[i]
      BY <1>1
    <2>2. CASE j \in DOMAIN s
      BY <1>1, <2>1, <2>2 DEF StaleIn
    <2>3. CASE j = n
      <3>1. FreshIn(s, r) \/ \E k \in DOMAIN s : i < k /\ s[k].type = "start"
        BY <2>1 DEF FreshIn
      <3> QED
        BY <1>1, <2>1, <2>3, <3>1 DEF StaleIn
    <2> QED
      BY <1>1, <2>2, <2>3
  <1>5. ASSUME NEW r, m.type # "start"
        PROVE  FreshIn(e, r) <=> FreshIn(s, r) \/ (m.type \in Entered /\ m.room = r)
    <2>1. FreshIn(s, r) => FreshIn(e, r)
      BY <1>1, <1>5 DEF FreshIn
    <2>2. m.type \in Entered /\ m.room = r => FreshIn(e, r)
      BY <1>1 DEF FreshIn
    <2>3. FreshIn(e, r) => FreshIn(s, r) \/ (m.type \in Entered /\ m.room = r)
      BY <1>1 DEF FreshIn
    <2> QED
      BY <2>1, <2>2, <2>3
  <1>6. ASSUME NEW r, m.type = "start" PROVE ~FreshIn(e, r)
    BY <1>1, <1>6 DEF FreshIn, Entered
  <1>7. ASSUME FreshTwiceIn(e)
        PROVE  \/ FreshTwiceIn(s) /\ m.type # "start"
               \/ m.type \in Entered /\ \E r : FreshIn(s, r)
    <2> PICK i, j \in DOMAIN e : /\ i < j /\ e[i].type \in Entered /\ e[j].type \in Entered
                                 /\ \A k \in DOMAIN e : i < k => e[k].type # "start"
      BY <1>7 DEF FreshTwiceIn
    <2>1. i \in DOMAIN s /\ s[i] = e[i] /\ m.type # "start"
      BY <1>1
    <2>2. CASE j \in DOMAIN s
      BY <1>1, <2>1, <2>2 DEF FreshTwiceIn
    <2>3. CASE j = n
      <3>1. FreshIn(s, s[i].room)
        BY <1>1, <2>1 DEF FreshIn
      <3> QED
        BY <1>1, <2>3, <3>1
    <2> QED
      BY <1>1, <2>2, <2>3
  <1> QED
    BY <1>2, <1>3, <1>4, <1>5, <1>6, <1>7 DEF e, Entered

LEMMA RequestAtEnd ==
    ASSUME NEW S, NEW s \in Seq(S), NEW m \in S, NEW r
    PROVE  LET e == s \o <<m>>
           IN  /\ LeaveIn(e, r) <=> LeaveIn(s, r) \/ (m.type = "leave" /\ m.room = r)
               /\ LeaveTwiceIn(e, r) => \/ LeaveTwiceIn(s, r)
                                        \/ m.type = "leave" /\ m.room = r /\ LeaveIn(s, r)
  <1> DEFINE e == s \o <<m>>
             n == Len(s) + 1
  <1>1. /\ \A i \in DOMAIN s : i \in DOMAIN e /\ e[i] = s[i] /\ i < n
        /\ e[n] = m /\ n \in DOMAIN e
        /\ \A i \in DOMAIN e : i \in DOMAIN s \/ i = n
        /\ \A i \in DOMAIN e : ~(n < i)
    BY AtEnd
  <1> HIDE DEF e, n
  <1>2. LeaveIn(e, r) <=> LeaveIn(s, r) \/ (m.type = "leave" /\ m.room = r)
    BY <1>1 DEF LeaveIn
  <1>3. LeaveTwiceIn(e, r) => LeaveTwiceIn(s, r) \/ (m.type = "leave" /\ m.room = r /\ LeaveIn(s, r))
    BY <1>1 DEF LeaveIn, LeaveTwiceIn
  <1> QED
    BY <1>2, <1>3 DEF e

\* The oldest message is taken.
LEMMA AtHead ==
    ASSUME NEW S, NEW s \in Seq(S), s # <<>>
    PROVE  LET t == Tail(s)
           IN  /\ Head(s) \in S /\ Head(s) = s[1] /\ 1 \in DOMAIN s
               /\ t \in Seq(S) /\ Len(t) = Len(s) - 1
               /\ \A i \in DOMAIN t : i + 1 \in DOMAIN s /\ t[i] = s[i + 1]
               /\ \A i \in DOMAIN s : i = 1 \/ (i - 1 \in DOMAIN t /\ t[i - 1] = s[i])
               /\ \A i \in DOMAIN s : i \in Nat /\ 1 <= i
               /\ \A i \in DOMAIN t : i \in Nat /\ 1 <= i
  OBVIOUS

LEMMA AnswerAtHead ==
    ASSUME NEW S, NEW s \in Seq(S), s # <<>>
    PROVE  LET h == Head(s)
               t == Tail(s)
           IN  /\ StartIn(s) <=> h.type = "start" \/ StartIn(t)
               /\ EntryIn(s) <=> h.type \in Entered \/ EntryIn(t)
               /\ \A r : StaleIn(t, r) => StaleIn(s, r)
               /\ \A r : FreshIn(s, r) <=>
                            FreshIn(t, r) \/ (h.type \in Entered /\ h.room = r /\ ~StartIn(t))
               /\ h.type \in Entered /\ StartIn(t) => StaleIn(s, h.room)
               /\ FreshTwiceIn(t) => FreshTwiceIn(s)
               /\ h.type \in Entered /\ ~StartIn(t) /\ EntryIn(t) => FreshTwiceIn(s)
  <1> DEFINE h == Head(s)
             t == Tail(s)
  <1>1. /\ h = s[1] /\ 1 \in DOMAIN s
        /\ \A i \in DOMAIN t : i + 1 \in DOMAIN s /\ t[i] = s[i + 1]
        /\ \A i \in DOMAIN s : i = 1 \/ (i - 1 \in DOMAIN t /\ t[i - 1] = s[i])
        /\ \A i \in DOMAIN s : i \in Nat /\ 1 <= i
        /\ \A i \in DOMAIN t : i \in Nat /\ 1 <= i
    BY AtHead
  <1> HIDE DEF h, t
  <1>2. StartIn(s) <=> h.type = "start" \/ StartIn(t)
    BY <1>1 DEF StartIn
  <1>3. EntryIn(s) <=> h.type \in Entered \/ EntryIn(t)
    BY <1>1 DEF EntryIn
  <1>4. ASSUME NEW r, StaleIn(t, r) PROVE StaleIn(s, r)
    <2> PICK i, j \in DOMAIN t : i < j /\ t[i].type \in Entered /\ t[i].room = r /\ t[j].type = "start"
      BY <1>4 DEF StaleIn
    <2>1. /\ i + 1 \in DOMAIN s /\ j + 1 \in DOMAIN s /\ i + 1 < j + 1
          /\ s[i + 1] = t[i] /\ s[j + 1] = t[j]
      BY <1>1
    <2> QED
      BY <2>1 DEF StaleIn
  <1>5. ASSUME NEW r
        PROVE  FreshIn(s, r) <=> FreshIn(t, r) \/ (h.type \in Entered /\ h.room = r /\ ~StartIn(t))
    <2>1. ASSUME FreshIn(t, r) PROVE FreshIn(s, r)
      <3> PICK i \in DOMAIN t : /\ t[i].type \in Entered /\ t[i].room = r
                                /\ \A j \in DOMAIN t : i < j => t[j].type # "start"
        BY <2>1 DEF FreshIn
      <3>1. i + 1 \in DOMAIN s /\ s[i + 1] = t[i]
        BY <1>1
      <3>2. ASSUME NEW j \in DOMAIN s, i + 1 < j PROVE s[j].type # "start"
        BY <1>1, <3>2
      <3> QED
        BY <3>1, <3>2 DEF FreshIn
    <2>2. ASSUME h.type \in Entered, h.room = r, ~StartIn(t) PROVE FreshIn(s, r)
      BY <1>1, <2>2 DEF FreshIn, StartIn
    <2>3. ASSUME FreshIn(s, r) PROVE FreshIn(t, r) \/ (h.type \in Entered /\ h.room = r /\ ~StartIn(t))
      <3> PICK i \in DOMAIN s : /\ s[i].type \in Entered /\ s[i].room = r
                                /\ \A j \in DOMAIN s : i < j => s[j].type # "start"
        BY <2>3 DEF FreshIn
      <3>1. CASE i = 1
        <4>1. \A j \in DOMAIN t : t[j].type # "start"
          BY <1>1, <3>1
        <4> QED
          BY <1>1, <3>1, <4>1 DEF StartIn
      <3>2. CASE i # 1
        <4>1. i - 1 \in DOMAIN t /\ t[i - 1] = s[i]
          BY <1>1, <3>2
        <4>2. \A j \in DOMAIN t : i - 1 < j => t[j].type # "start"
          BY <1>1
        <4> QED
          BY <4>1, <4>2 DEF FreshIn
      <3> QED
        BY <3>1, <3>2
    <2> QED
      BY <2>1, <2>2, <2>3
  <1>6. ASSUME h.type \in Entered, StartIn(t) PROVE StaleIn(s, h.room)
    <2> PICK j \in DOMAIN t : t[j].type = "start"
      BY <1>6 DEF StartIn
    <2>1. j + 1 \in DOMAIN s /\ s[j + 1].type = "start" /\ 1 < j + 1
      BY <1>1
    <2> QED
      BY <1>1, <1>6, <2>1 DEF StaleIn
  <1>7. ASSUME FreshTwiceIn(t) PROVE FreshTwiceIn(s)
    <2> PICK i, j \in DOMAIN t : /\ i < j /\ t[i].type \in Entered /\ t[j].type \in Entered
                                 /\ \A k \in DOMAIN t : i < k => t[k].type # "start"
      BY <1>7 DEF FreshTwiceIn
    <2>1. /\ i + 1 \in DOMAIN s /\ j + 1 \in DOMAIN s /\ i + 1 < j + 1
          /\ s[i + 1] = t[i] /\ s[j + 1] = t[j]
      BY <1>1
    <2>2. ASSUME NEW k \in DOMAIN s, i + 1 < k PROVE s[k].type # "start"
      <3>1. k - 1 \in DOMAIN t /\ t[k - 1] = s[k] /\ i < k - 1
        BY <1>1, <2>2
      <3> QED
        BY <3>1
    <2> QED
      BY <2>1, <2>2 DEF FreshTwiceIn
  <1>8. ASSUME h.type \in Entered, ~StartIn(t), EntryIn(t) PROVE FreshTwiceIn(s)
    <2> PICK j \in DOMAIN t : t[j].type \in Entered
      BY <1>8 DEF EntryIn
    <2>1. j + 1 \in DOMAIN s /\ s[j + 1].type \in Entered /\ 1 < j + 1
      BY <1>1
    <2>2. ASSUME NEW k \in DOMAIN s, 1 < k PROVE s[k].type # "start"
      BY <1>1, <1>8, <2>2 DEF StartIn
    <2> QED
      BY <1>1, <1>8, <2>1, <2>2 DEF FreshTwiceIn
  <1> QED
    BY <1>2, <1>3, <1>4, <1>5, <1>6, <1>7, <1>8 DEF h, t

LEMMA RequestAtHead ==
    ASSUME NEW S, NEW s \in Seq(S), s # <<>>, NEW r
    PROVE  LET h == Head(s)
               t == Tail(s)
           IN  /\ LeaveIn(s, r) <=> LeaveIn(t, r) \/ (h.type = "leave" /\ h.room = r)
               /\ LeaveTwiceIn(t, r) => LeaveTwiceIn(s, r)
               /\ h.type = "leave" /\ h.room = r /\ LeaveIn(t, r) => LeaveTwiceIn(s, r)
  <1> DEFINE h == Head(s)
             t == Tail(s)
  <1>1. /\ h = s[1] /\ 1 \in DOMAIN s
        /\ \A i \in DOMAIN t : i + 1 \in DOMAIN s /\ t[i] = s[i + 1]
        /\ \A i \in DOMAIN s : i = 1 \/ (i - 1 \in DOMAIN t /\ t[i - 1] = s[i])
        /\ \A i \in DOMAIN t : i \in Nat /\ 1 <= i
    BY AtHead
  <1> HIDE DEF h, t
  <1>2. LeaveIn(s, r) <=> LeaveIn(t, r) \/ (h.type = "leave" /\ h.room = r)
    BY <1>1 DEF LeaveIn
  <1>3. ASSUME LeaveTwiceIn(t, r) PROVE LeaveTwiceIn(s, r)
    <2> PICK i, j \in DOMAIN t : /\ i < j /\ t[i].type = "leave" /\ t[j].type = "leave"
                                 /\ t[i].room = r /\ t[j].room = r
      BY <1>3 DEF LeaveTwiceIn
    <2>1. /\ i + 1 \in DOMAIN s /\ j + 1 \in DOMAIN s /\ i + 1 < j + 1
          /\ s[i + 1] = t[i] /\ s[j + 1] = t[j]
      BY <1>1
    <2> QED
      BY <2>1 DEF LeaveTwiceIn
  <1>4. ASSUME h.type = "leave", h.room = r, LeaveIn(t, r) PROVE LeaveTwiceIn(s, r)
    <2> PICK j \in DOMAIN t : t[j].type = "leave" /\ t[j].room = r
      BY <1>4 DEF LeaveIn
    <2>1. j + 1 \in DOMAIN s /\ s[j + 1] = t[j] /\ 1 < j + 1
      BY <1>1
    <2> QED
      BY <1>1, <1>4, <2>1 DEF LeaveTwiceIn
  <1> QED
    BY <1>2, <1>3, <1>4 DEF h, t

\* Nothing under way.
LEMMA Silence ==
    /\ ~StartIn(<<>>) /\ ~EntryIn(<<>>) /\ ~FreshTwiceIn(<<>>)
    /\ \A r : ~LeaveIn(<<>>, r) /\ ~FreshIn(<<>>, r) /\ ~StaleIn(<<>>, r) /\ ~LeaveTwiceIn(<<>>, r)
  BY DEF StartIn, EntryIn, LeaveIn, FreshIn, StaleIn, FreshTwiceIn, LeaveTwiceIn

------------------------------------------------------------------------------
(* The inductive invariant                                                 *)

Mine == playerRoom[Me]
Starting == StartIn(toClient)
Leaving == \E r : LeaveIn(toServer, r)
InLobby == view = "menu" /\ menu = "lobby"

\* The room the client speaks of is the one on its screen, and the server lets
\* in nobody who has not learnt their player id
Noted ==
    /\ roomShown = roomId
    /\ Mine # 0 \/ EntryIn(toClient) \/ menu = "lobby" => known
    /\ \A i \in DOMAIN toServer : /\ toServer[i].known => known
                                  /\ toServer[i].type = "leave" => toServer[i].known

\* create_room has handed the number out: it will not be a room's again
Given(r) == r \in Nat /\ r < nextRoom

Old ==
    /\ Given(roomShown)
    /\ \A r : FreshIn(toClient, r) \/ StaleIn(toClient, r) \/ LeaveIn(toServer, r) => Given(r)

ChatFollows ==
    /\ InLobby => chatTo = "room"
    /\ ~wasInMenu /\ strayed # "behind" => chatTo = "game"

\* A client in a waiting room will be told, shows its lobby, is leaving it, or
\* strayed
Spoken ==
    Mine \in Waiting =>
        \/ \E r : FreshIn(toClient, r)
        \/ ~Starting /\ (Leaving \/ strayed # "no" \/ InLobby)

\* What is under way and on the screen is about the client's room, or about one
\* that does not wait any more
Honest ==
    /\ \A r : StaleIn(toClient, r) => r \notin Waiting
    /\ \A r : FreshIn(toClient, r) => r = Mine /\ r \in Waiting /\ ~LeaveIn(toServer, r)
    /\ ~FreshTwiceIn(toClient)
    /\ \A r \in Waiting : LeaveIn(toServer, r) => r = Mine /\ ~LeaveTwiceIn(toServer, r)
    /\ InLobby =>
          IF Starting THEN roomShown \notin Waiting
          ELSE /\ roomShown = Mine /\ roomShown \in Waiting
               /\ ~LeaveIn(toServer, roomShown) /\ ~EntryIn(toClient)

Flow == Noted /\ Old /\ ChatFollows /\ Spoken /\ (~misled => Honest)

AppIInv == IInv /\ AppTypeOK /\ Flow

------------------------------------------------------------------------------
(* The server's rooms                                                      *)

USE RoomIdsAssumption, SizesAssumption, NoRoomAssumption
USE TwoPlayers, PrivateAssumption, BoundsAssumption

\* Every step is a step of the rooms, or leaves them alone.
LEMMA RoomsMove ==
    ASSUME AppTypeOK, AppNext
    PROVE  [Next]_vars
  <1>1. CASE User \/ LobbyRefresh \/ NoticeScreen \/ ReceiveAnswer
    BY <1>1 DEF User, Connect, FromMain, Back, CreateClicked, BrowseClicked, LobbyClicked, Dialog,
                BackToMenu, Go, Ask, LobbyRefresh, NoticeScreen, ReceiveAnswer, OnAccept,
                OnRoomEntered, OnRoomList, OnRoomError, OnCountdown, OnGameStart, OnGameOver, Show,
                serverVars, vars
  <1>2. CASE Serve
    <2> DEFINE q == Head(toServer)
    <2>2. q \in Requests
      BY <1>2, AtHead DEF Serve, AppTypeOK
    <2>3. /\ q.room \in {0} \cup RoomIds /\ q.known \in BOOLEAN
          /\ q.type \in {"connect", "create", "join", "leave", "start", "list"}
      BY <2>2 DEF Requests
    <2>1. UNCHANGED vars \/ ServeCreate \/ ServeJoin(q.room) \/ ServeLeave \/ ServeStart(q.room)
      BY <1>2, <2>3, Zenon DEF Serve
    <2>4. ASSUME ServeCreate PROVE [Next]_vars
      BY <2>4 DEF ServeCreate, Refuse, Next
    <2>5. ASSUME ServeJoin(q.room) PROVE [Next]_vars
      BY <2>3, <2>5 DEF ServeJoin, Refuse, CanJoin, Live, Next
    <2>6. ASSUME ServeLeave PROVE [Next]_vars
      BY <2>6 DEF ServeLeave, Next
    <2>7. ASSUME ServeStart(q.room) PROVE [Next]_vars
      BY <2>3, <2>7 DEF ServeStart, Refuse, StartGame, Live, Next
    <2> QED
      BY <2>1, <2>4, <2>5, <2>6, <2>7
  <1>3. CASE PeerActs
    BY <1>3 DEF PeerActs, Next
  <1>4. CASE RoomsUpdate \/ GameOver
    BY <1>4 DEF RoomsUpdate, GameOver, Next
  <1> QED
    BY <1>1, <1>2, <1>3, <1>4 DEF AppNext, Server

\* A number is a room's only from the creation of the room on.
LEMMA NoRoomAgain ==
    ASSUME IInv, Next, NEW r \in RoomIds, r \notin Live, r # nextRoom
    PROVE  rooms'[r] = NoRoom
  <1> USE DEF IInv, TypeOK
  <1>1. rooms[r] = NoRoom
    BY DEF Live
  <1>2. CASE \E p \in Players, size \in Sizes : CreateRoom(p, size)
    BY <1>1, <1>2 DEF CreateRoom
  <1>3. CASE \E p \in Players, s \in RoomIds : JoinRoom(p, s)
    BY <1>1, <1>3 DEF JoinRoom, CanJoin
  <1>4. CASE \E p \in Players : LeaveRoom(p)
    BY <1>1, <1>4 DEF LeaveRoom
  <1>5. CASE \E p \in Players, s \in RoomIds : StartGame(s, p)
    BY <1>1, <1>5 DEF StartGame
  <1>6. CASE \E s \in RoomIds : StartRoom(s)
    BY <1>1, <1>6 DEF StartRoom, Cleaned
  <1>7. CASE CleanupEmptyRooms
    BY <1>1, <1>7 DEF CleanupEmptyRooms, Cleaned
  <1> QED
    BY <1>2, <1>3, <1>4, <1>5, <1>6, <1>7 DEF Next

\* A room that does not wait never waits again.
LEMMA OldRooms ==
    ASSUME IInv, [Next]_vars
    PROVE  /\ \A r : Given(r) => Given(r)'
           /\ \A r : Given(r) /\ r \in Waiting' => r \in Waiting
  <1>1. nextRoom' \in Nat /\ nextRoom' >= nextRoom /\ nextRoom \in Nat
    <2>1. nextRoom \in Nat
      BY DEF IInv, TypeOK
    <2>2. nextRoom' = nextRoom \/ nextRoom' = nextRoom + 1
      <3>1. CASE Next
        BY <3>1 DEF Next, CreateRoom, JoinRoom, LeaveRoom, StartGame, StartRoom, CleanupEmptyRooms
      <3> QED
        BY <3>1 DEF vars
    <2> QED
      BY <2>1, <2>2
  <1>2. ASSUME NEW r, Given(r), r \in Waiting' PROVE r \in Waiting
    <2>1. r \in RoomIds /\ rooms'[r] # NoRoom /\ rooms'[r].status = "waiting" /\ r # nextRoom
      BY <1>1, <1>2 DEF Waiting, Live, Given
    <2>2. r \in Live
      BY <2>1, NoRoomAgain DEF Live, vars
    <2>3. StaysStarted(r)
      BY <2>1, RoomStep
    <2>4. rooms[r] \in Room
      BY <2>2 DEF IInv, TypeOK, Live
    <2>5. rooms[r].status \in {"waiting", "in_progress"}
      BY <2>4 DEF Room
    <2> QED
      BY <2>1, <2>2, <2>3, <2>5 DEF StaysStarted, Waiting
  <1>3. \A r : Given(r) => Given(r)'
    BY <1>1 DEF Given
  <1> QED
    BY <1>2, <1>3

\* A player's own room goes on waiting until its game begins.
LEMMA GoesOnWaiting ==
    ASSUME IInv, Mine \in Waiting,
           \/ UNCHANGED vars \/ CleanupEmptyRooms
           \/ \E p \in Players : LeaveRoom(p) \/ \E size \in Sizes : CreateRoom(p, size)
           \/ \E p \in Players, s \in RoomIds : JoinRoom(p, s) \/ StartGame(s, p)
           \/ \E s \in RoomIds \ {Mine} : StartRoom(s)
    PROVE  rooms'[Mine] # NoRoom /\ rooms'[Mine].status = "waiting"
  <1> USE DEF IInv, TypeOK
  <1> DEFINE r == Mine
  <1>1. /\ r \in RoomIds /\ rooms[r] # NoRoom /\ rooms[r] \in Room /\ rooms[r].status = "waiting"
        /\ r \in Live /\ Me \in Players
    BY DEF Waiting, Live
  <1>2. Me \in Members(r) /\ rooms[r].players # <<>>
    <2>1. Me \in Members(r)
      BY <1>1 DEF MembershipAgrees, Mine
    <2> QED
      BY <2>1 DEF Members, Range
  <1>3. /\ r # nextRoom
        /\ Cleaned \in [RoomIds -> Room \cup {NoRoom}] /\ Cleaned[r] = rooms[r]
    BY <1>1, <1>2 DEF FreshIds, Cleaned
  <1> HIDE DEF r
  <1>4. ASSUME NEW p \in Players, NEW size \in Sizes, CreateRoom(p, size)
        PROVE  rooms'[r] # NoRoom /\ rooms'[r].status = "waiting"
    BY <1>1, <1>3, <1>4 DEF CreateRoom
  <1>5. ASSUME NEW p \in Players, NEW s \in RoomIds, JoinRoom(p, s)
        PROVE  rooms'[r] # NoRoom /\ rooms'[r].status = "waiting"
    <2>1. CASE r = s
      <3> DEFINE joined == [rooms[r] EXCEPT !.players = Append(@, p)]
      <3>1. rooms'[r] = joined
        BY <1>1, <1>5, <2>1 DEF JoinRoom
      <3>2. joined \in Room /\ joined.status = "waiting"
        BY <1>1, AppendFacts, RoomFields DEF Room
      <3> QED
        BY <3>1, <3>2
    <2>2. CASE r # s
      BY <1>1, <1>5, <2>2 DEF JoinRoom
    <2> QED
      BY <2>1, <2>2
  <1>6. ASSUME NEW p \in Players, LeaveRoom(p)
        PROVE  rooms'[r] # NoRoom /\ rooms'[r].status = "waiting"
    <2>1. CASE r = playerRoom[p]
      <3>1. rooms'[r] = Departed(rooms[r], p)
        BY <1>1, <1>6, <2>1 DEF LeaveRoom
      <3>2. p \in Range(rooms[r].players) /\ IsInjective(rooms[r].players)
        BY <1>1, <2>1 DEF MembershipAgrees, Members, PlayerListsSound
      <3>3. Departed(rooms[r], p) \in Room /\ Departed(rooms[r], p).status = "waiting"
        BY <1>1, <3>2, DepartedFacts
      <3> QED
        BY <3>1, <3>3
    <2>2. CASE r # playerRoom[p]
      BY <1>1, <1>6, <2>2 DEF LeaveRoom
    <2> QED
      BY <2>1, <2>2
  <1>7. ASSUME NEW p \in Players, NEW s \in RoomIds, StartGame(s, p)
        PROVE  rooms'[r] # NoRoom /\ rooms'[r].status = "waiting"
    <2>1. CASE r = s
      <3> DEFINE counted == [rooms[r] EXCEPT !.countdown = TRUE]
      <3>1. rooms'[r] = counted
        BY <1>1, <1>7, <2>1 DEF StartGame
      <3>2. counted \in Room /\ counted.status = "waiting"
        BY <1>1 DEF Room
      <3> QED
        BY <3>1, <3>2
    <2>2. CASE r # s
      BY <1>1, <1>7, <2>2 DEF StartGame
    <2> QED
      BY <2>1, <2>2
  <1>8. ASSUME NEW s \in RoomIds \ {r}, StartRoom(s)
        PROVE  rooms'[r] # NoRoom /\ rooms'[r].status = "waiting"
    BY <1>1, <1>3, <1>8 DEF StartRoom
  <1>9. CASE CleanupEmptyRooms
    BY <1>1, <1>3, <1>9 DEF CleanupEmptyRooms, r
  <1>10. CASE UNCHANGED vars
    BY <1>1, <1>10 DEF vars, r
  <1> QED
    BY <1>4, <1>5, <1>6, <1>7, <1>8, <1>9, <1>10 DEF r

\* The first player of a room whose countdown ends is in that room.
LEMMA FirstInside ==
    ASSUME IInv, NEW r \in RoomIds, StartRoom(r)
    PROVE  /\ rooms[r].players[1] \in Players /\ playerRoom[rooms[r].players[1]] = r
           /\ Mine = r => Mine' \in {0, r} /\ Mine' \notin Waiting' /\ r \notin Waiting'
           /\ Mine # r => Mine' = Mine
  <1> DEFINE first == rooms[r].players[1]
             started == [rooms[r] EXCEPT !.countdown = FALSE, !.status = "in_progress"]
  <1>1. r \in Live /\ rooms[r] \in Room /\ rooms[r].players \in Seq(Players) /\ rooms[r].players # <<>>
    BY RoomFields DEF StartRoom, IInv, TypeOK, CountdownHasPlayers, Live
  <1>2. first \in Members(r)
    BY <1>1 DEF Members, Range
  <1>3. first \in Players
    BY <1>1
  <1>4. playerRoom[first] = r
    BY <1>1, <1>2, <1>3 DEF IInv, MembershipAgrees
  <1>5. playerRoom' = [playerRoom EXCEPT ![first] = 0]
    BY DEF StartRoom
  <1>6. playerRoom \in [Players -> {0} \cup RoomIds] /\ Me \in Players
    BY DEF IInv, TypeOK
  <1>7. Mine = r => Mine' \in {0, r}
    BY <1>3, <1>5, <1>6 DEF Mine
  <1>8. Mine # r => Mine' = Mine
    BY <1>3, <1>4, <1>5, <1>6 DEF Mine
  <1>9. r \notin Waiting' /\ 0 \notin Waiting'
    <2>1. rooms'[r] = Departed(started, first)
      BY DEF StartRoom, Cleaned
    <2>2. started \in Room /\ started.status = "in_progress" /\ started.players = rooms[r].players
      BY <1>1 DEF Room
    <2> HIDE DEF first, started
    <2>4. rooms'[r].status = "in_progress"
      BY <2>1, <2>2 DEF Departed
    <2> QED
      BY <2>4 DEF Waiting, Live
  <1> QED
    BY <1>3, <1>4, <1>7, <1>8, <1>9

------------------------------------------------------------------------------
(* Steps that tell nothing new                                             *)

\* The client asks for something.
LEMMA SentStep ==
    ASSUME AppTypeOK, NEW q \in Requests, toServer' = toServer \o <<q>>
    PROVE  /\ \A r : LeaveIn(toServer', r) <=> LeaveIn(toServer, r) \/ (q.type = "leave" /\ q.room = r)
           /\ \A r : LeaveTwiceIn(toServer', r) =>
                        \/ LeaveTwiceIn(toServer, r)
                        \/ q.type = "leave" /\ q.room = r /\ LeaveIn(toServer, r)
           /\ \A i \in DOMAIN toServer' :
                 toServer'[i] = q \/ \E j \in DOMAIN toServer : toServer'[i] = toServer[j]
  <1>1. toServer \in Seq(Requests)
    BY DEF AppTypeOK
  <1>2. \A i \in DOMAIN toServer' :
           toServer'[i] = q \/ \E j \in DOMAIN toServer : toServer'[i] = toServer[j]
    BY <1>1, AtEnd
  <1> QED
    BY <1>1, <1>2, RequestAtEnd

\* A request is taken.
LEMMA ServedStep ==
    ASSUME AppTypeOK, toServer # <<>>, toServer' = Tail(toServer)
    PROVE  /\ Head(toServer) \in Requests /\ toServer' \in Seq(Requests)
           /\ \A r : /\ LeaveIn(toServer, r) <=>
                           \/ LeaveIn(toServer', r)
                           \/ Head(toServer).type = "leave" /\ Head(toServer).room = r
                     /\ LeaveTwiceIn(toServer', r) => LeaveTwiceIn(toServer, r)
                     /\ Head(toServer).type = "leave" /\ Head(toServer).room = r /\ LeaveIn(toServer', r)
                           => LeaveTwiceIn(toServer, r)
           /\ \A i \in DOMAIN toServer' : \E j \in DOMAIN toServer : toServer'[i] = toServer[j]
           /\ \E j \in DOMAIN toServer : Head(toServer) = toServer[j]
  <1>1. toServer \in Seq(Requests)
    BY DEF AppTypeOK
  <1>2. /\ Head(toServer) \in Requests /\ toServer' \in Seq(Requests)
        /\ \A i \in DOMAIN toServer' : \E j \in DOMAIN toServer : toServer'[i] = toServer[j]
        /\ \E j \in DOMAIN toServer : Head(toServer) = toServer[j]
    BY <1>1, AtHead
  <1> QED
    BY <1>1, <1>2, RequestAtHead

\* What the inductive invariant reads of the wires, the screens and the client's
\* own room is as before; other rooms may be created, left or started.
LEMMA Undisturbed ==
    ASSUME AppIInv, [Next]_vars, Noted', ChatFollows',
           Mine' = Mine, Mine \in Waiting => Mine \in Waiting',
           UNCHANGED <<misled, roomShown, strayed>>, InLobby' <=> InLobby,
           StartIn(toClient') <=> StartIn(toClient), EntryIn(toClient') <=> EntryIn(toClient),
           FreshTwiceIn(toClient') => FreshTwiceIn(toClient),
           \A r : FreshIn(toClient', r) <=> FreshIn(toClient, r),
           \A r : StaleIn(toClient', r) => StaleIn(toClient, r),
           \A r : LeaveIn(toServer', r) => LeaveIn(toServer, r),
           \A r : LeaveTwiceIn(toServer', r) => LeaveTwiceIn(toServer, r),
           Leaving => Leaving' \/ Mine = 0
    PROVE  Flow'
  <1> USE DEF AppIInv, Flow
  <1>1. /\ \A r : Given(r) => Given(r)'
        /\ \A r : Given(r) /\ r \in Waiting' => r \in Waiting
    BY OldRooms
  <1>2. Starting' <=> Starting
    BY DEF Starting
  <1>3. Old'
    BY <1>1 DEF Old
  <1>4. Mine' \in Waiting' => Mine \in Waiting /\ Mine # 0
    <2>1. ASSUME Mine \in Waiting' PROVE Given(Mine) /\ Mine # 0
      <3>1. Mine \in RoomIds
        BY <2>1 DEF Waiting, Live
      <3>2. Me \in Players /\ MembershipAgrees /\ FreshIds /\ nextRoom \in Nat
        BY DEF IInv, TypeOK
      <3>3. Mine \in Live
        BY <3>1, <3>2 DEF MembershipAgrees, Mine
      <3> QED
        BY <3>1, <3>2, <3>3 DEF FreshIds, Live, Given
    <2> QED
      BY <1>1, <2>1
  <1>5. Spoken'
    BY <1>2, <1>4 DEF Spoken
  <1>6. ASSUME Honest PROVE Honest'
    <2>1. \A r : StaleIn(toClient', r) => r \notin Waiting'
      BY <1>1, <1>6 DEF Honest, Old
    <2>2. \A r : FreshIn(toClient', r) => r = Mine' /\ r \in Waiting' /\ ~LeaveIn(toServer', r)
      BY <1>6 DEF Honest
    <2>3. \A r \in Waiting' : LeaveIn(toServer', r) => r = Mine' /\ ~LeaveTwiceIn(toServer', r)
      BY <1>1, <1>6 DEF Honest, Old
    <2>4. InLobby' => IF Starting' THEN roomShown' \notin Waiting'
                      ELSE /\ roomShown' = Mine' /\ roomShown' \in Waiting'
                           /\ ~LeaveIn(toServer', roomShown') /\ ~EntryIn(toClient')
      BY <1>1, <1>2, <1>6 DEF Honest, Old
    <2> QED
      BY <1>6, <2>1, <2>2, <2>3, <2>4 DEF Honest
  <1> QED
    BY <1>3, <1>5, <1>6

\* A click that asks to leave no room and changes between screens that are not
\* the lobby.
Clicked ==
    /\ view = "menu" /\ wasInMenu
    /\ UNCHANGED <<serverVars, toClient, datagrams, shownVars, known, view, wasInMenu, strayed,
                   chatTo, listed>>
    /\ menu' \in Menus /\ dialog' \in {0} \cup RoomIds
    /\ menu' = menu \/ (menu # "lobby" /\ menu' # "lobby")
    /\ toServer' = toServer \/ \E q \in Requests : /\ q.type # "leave" /\ q.known = known
                                                   /\ toServer' = toServer \o <<q>>

LEMMA ClickStep ==
    ASSUME AppIInv, Clicked
    PROVE  Flow'
  <1> USE DEF AppIInv, Flow
  <1>1. /\ UNCHANGED <<vars, misled, toClient, roomShown, roomId, known, view, wasInMenu, strayed, chatTo>>
        /\ InLobby' <=> InLobby
    BY DEF Clicked, InLobby, serverVars, shownVars, vars
  <1>2. /\ \A r : LeaveIn(toServer', r) <=> LeaveIn(toServer, r)
        /\ \A r : LeaveTwiceIn(toServer', r) => LeaveTwiceIn(toServer, r)
        /\ \A i \in DOMAIN toServer' : \/ toServer'[i].known = known /\ toServer'[i].type # "leave"
                                       \/ \E j \in DOMAIN toServer : toServer'[i] = toServer[j]
    <2>1. CASE toServer' = toServer
      BY <2>1
    <2>2. ASSUME NEW q \in Requests, q.type # "leave", q.known = known, toServer' = toServer \o <<q>>
          PROVE  <1>2!:
      BY <2>2, SentStep
    <2> QED
      BY <2>1, <2>2 DEF Clicked
  <1>3. Noted'
    BY <1>1, <1>2 DEF Noted, Mine, vars, Clicked
  <1>4. ChatFollows'
    BY <1>1 DEF ChatFollows
  <1>5. Mine' = Mine /\ Waiting' = Waiting
    BY <1>1 DEF Mine, Waiting, Live, vars
  <1> QED
    BY <1>1, <1>2, <1>3, <1>4, <1>5, Undisturbed DEF Leaving

\* The button of the result screen, and what the next frame notices.
LEMMA ScreenStep ==
    ASSUME AppIInv, BackToMenu \/ NoticeScreen
    PROVE  Flow'
  <1> USE DEF AppIInv, Flow
  <1>1. UNCHANGED <<vars, misled, toServer, toClient, roomShown, roomId, known, strayed>>
    BY DEF BackToMenu, NoticeScreen, serverVars, wires, shownVars, vars
  <1>2. InLobby' <=> InLobby
    BY DEF BackToMenu, NoticeScreen, EnterScreen, InLobby, menuVars
  <1>3. Noted'
    <2>1. menu' = "lobby" => menu = "lobby"
      BY DEF BackToMenu, NoticeScreen, EnterScreen, menuVars
    <2> QED
      BY <1>1, <2>1 DEF Noted, Mine, vars
  <1>4. ChatFollows'
    <2>1. CASE BackToMenu
      BY <1>1, <2>1 DEF ChatFollows, InLobby, BackToMenu, EnterScreen
    <2>2. CASE NoticeScreen
      <3>1. wasInMenu \in BOOLEAN
        BY DEF AppTypeOK
      <3> QED
        BY <1>1, <2>2, <3>1 DEF ChatFollows, InLobby, NoticeScreen, menuVars
    <2> QED
      BY <2>1, <2>2
  <1>5. Mine' = Mine /\ Waiting' = Waiting
    BY <1>1 DEF Mine, Waiting, Live, vars
  <1> QED
    BY <1>1, <1>2, <1>3, <1>4, <1>5, Undisturbed DEF Leaving

------------------------------------------------------------------------------
(* What the answers do                                                     *)

\* An answer is taken.
LEMMA TakeStep ==
    ASSUME AppTypeOK, Took
    PROVE  /\ Head1 \in Answers /\ toClient' \in Seq(Answers)
           /\ StartIn(toClient) <=> Head1.type = "start" \/ StartIn(toClient')
           /\ EntryIn(toClient) <=> Head1.type \in Entered \/ EntryIn(toClient')
           /\ \A r : StaleIn(toClient', r) => StaleIn(toClient, r)
           /\ \A r : FreshIn(toClient, r) <=>
                        \/ FreshIn(toClient', r)
                        \/ Head1.type \in Entered /\ Head1.room = r /\ ~StartIn(toClient')
           /\ Head1.type \in Entered /\ StartIn(toClient') => StaleIn(toClient, Head1.room)
           /\ FreshTwiceIn(toClient') => FreshTwiceIn(toClient)
           /\ Head1.type \in Entered /\ ~StartIn(toClient') /\ EntryIn(toClient') => FreshTwiceIn(toClient)
  <1>1. toClient \in Seq(Answers) /\ toClient # <<>> /\ toClient' = Tail(toClient) /\ Head1 = Head(toClient)
    BY DEF AppTypeOK, Took, Head1
  <1> QED
    BY <1>1, AtHead, AnswerAtHead

\* Answers that neither announce a game nor let the client in.
Passed ==
    /\ Took /\ Head1.type \notin Entered \cup {"start"}
    /\ UNCHANGED <<serverVars, toServer, datagrams, roomShown, roomId, view, chatVars, dialog>>
    /\ known' \in {known, TRUE} /\ menu' \in {menu, "main"}
    /\ menu' = menu \/ (menu # "lobby" /\ menu' # "lobby")
    /\ listed' \subseteq RoomIds /\ isHost' \in BOOLEAN /\ counting' \in BOOLEAN

LEMMA PassStep ==
    ASSUME AppIInv, Passed
    PROVE  Flow'
  <1> USE DEF AppIInv, Flow
  <1>1. /\ UNCHANGED <<vars, misled, toServer, roomShown, roomId, view, wasInMenu, strayed, chatTo>>
        /\ known' = known \/ known' = TRUE
        /\ menu' = menu \/ (menu # "lobby" /\ menu' # "lobby")
    BY DEF Passed, serverVars, chatVars, vars
  <1>2. (InLobby' <=> InLobby) /\ (menu' = "lobby" => menu = "lobby")
    BY <1>1 DEF InLobby
  <1>3. /\ StartIn(toClient') <=> StartIn(toClient)
        /\ EntryIn(toClient') <=> EntryIn(toClient)
        /\ FreshTwiceIn(toClient') => FreshTwiceIn(toClient)
        /\ \A r : FreshIn(toClient', r) <=> FreshIn(toClient, r)
        /\ \A r : StaleIn(toClient', r) => StaleIn(toClient, r)
    BY TakeStep DEF Passed
  <1>4. Noted'
    <2>1. \A i \in DOMAIN toServer : /\ toServer[i].known => known'
                                     /\ toServer[i].type = "leave" => toServer[i].known
      BY <1>1 DEF Noted
    <2>2. Mine' # 0 \/ EntryIn(toClient') \/ menu' = "lobby" => known'
      BY <1>1, <1>2, <1>3 DEF Noted, Mine, vars
    <2> QED
      BY <1>1, <2>1, <2>2 DEF Noted
  <1>5. ChatFollows'
    BY <1>1, <1>2 DEF ChatFollows
  <1>6. Mine' = Mine /\ Waiting' = Waiting
    BY <1>1 DEF Mine, Waiting, Live, vars
  <1> QED
    BY <1>1, <1>2, <1>3, <1>4, <1>5, <1>6, Undisturbed DEF Leaving

\* The client enters the room it is told of: its own, unless a game is announced
\* behind the answer.
LEMMA EnteredStep ==
    ASSUME AppIInv, OnRoomEntered
    PROVE  Flow'
  <1> USE DEF AppIInv, Flow
  <1> DEFINE q == Request("list", 0)
             h == Head1
  <1>1. /\ Took /\ h.type \in Entered
        /\ roomId' = h.room /\ roomShown' = h.room /\ menu' = "lobby" /\ chatTo' = "room"
        /\ strayed' = IF view = "menu" /\ wasInMenu THEN "no" ELSE "behind"
        /\ toServer' = toServer \o <<q>>
        /\ UNCHANGED <<vars, misled, known, view, wasInMenu>>
    BY DEF OnRoomEntered, Entered, EnterScreen, Send, serverVars, vars
  <1>2. q \in Requests /\ q.type = "list" /\ q.known = known
    BY DEF AppTypeOK, Request, Requests
  <1> HIDE DEF q
  <1>3. /\ \A r : LeaveIn(toServer', r) <=> LeaveIn(toServer, r)
        /\ \A r : LeaveTwiceIn(toServer', r) => LeaveTwiceIn(toServer, r)
        /\ \A i \in DOMAIN toServer' : toServer'[i] = q \/ \E j \in DOMAIN toServer : toServer'[i] = toServer[j]
    BY <1>1, <1>2, SentStep
  <1>4. /\ EntryIn(toClient)
        /\ StartIn(toClient') <=> StartIn(toClient)
        /\ StartIn(toClient') => StaleIn(toClient, h.room)
        /\ ~StartIn(toClient') => FreshIn(toClient, h.room) /\ (EntryIn(toClient') => FreshTwiceIn(toClient))
        /\ \A r : StaleIn(toClient', r) => StaleIn(toClient, r)
        /\ \A r : FreshIn(toClient, r) <=> FreshIn(toClient', r) \/ (h.room = r /\ ~StartIn(toClient'))
        /\ FreshTwiceIn(toClient') => FreshTwiceIn(toClient)
    BY <1>1, TakeStep DEF Entered
  <1> HIDE DEF h
  <1>5. Mine' = Mine /\ Waiting' = Waiting /\ nextRoom' = nextRoom
    BY <1>1 DEF Mine, Waiting, Live, vars
  <1>6. Noted'
    BY <1>1, <1>2, <1>3, <1>4, <1>5 DEF Noted
  <1>7. Old'
    BY <1>1, <1>3, <1>4, <1>5 DEF Old, Given
  <1>8. ChatFollows'
    BY <1>1, <1>4 DEF ChatFollows, InLobby
  <1>9. Spoken'
    BY <1>1, <1>3, <1>4, <1>5 DEF Spoken, Starting, InLobby
  <1>10. ASSUME Honest PROVE Honest'
    <2>1. \A r : StaleIn(toClient', r) => r \notin Waiting'
      BY <1>4, <1>5, <1>10 DEF Honest
    <2>2. \A r : FreshIn(toClient', r) => r = Mine' /\ r \in Waiting' /\ ~LeaveIn(toServer', r)
      BY <1>3, <1>4, <1>5, <1>10 DEF Honest
    <2>3. \A r \in Waiting' : LeaveIn(toServer', r) => r = Mine' /\ ~LeaveTwiceIn(toServer', r)
      BY <1>3, <1>5, <1>10 DEF Honest
    <2>4. CASE StartIn(toClient')
      <3>1. roomShown' \notin Waiting' /\ Starting'
        BY <1>1, <1>4, <1>5, <1>10, <2>4 DEF Honest, Starting
      <3> QED
        BY <1>4, <1>10, <2>1, <2>2, <2>3, <3>1 DEF Honest
    <2>5. CASE ~StartIn(toClient')
      <3>1. /\ roomShown' = Mine' /\ roomShown' \in Waiting'
            /\ ~LeaveIn(toServer', roomShown') /\ ~EntryIn(toClient') /\ ~Starting'
        BY <1>1, <1>3, <1>4, <1>5, <1>10, <2>5 DEF Honest, Starting
      <3> QED
        BY <1>4, <1>10, <2>1, <2>2, <2>3, <3>1 DEF Honest
    <2> QED
      BY <2>4, <2>5
  <1> QED
    BY <1>1, <1>6, <1>7, <1>8, <1>9, <1>10

\* A game begins on the screen, or ends there: the end may come at any time.
LEMMA ShowStep ==
    ASSUME AppIInv, OnGameStart \/ OnGameOver
    PROVE  Flow'
  <1> USE DEF AppIInv, Flow
  <1>1. /\ view' # "menu"
        /\ UNCHANGED <<vars, misled, toServer, menu, roomShown, roomId, known, wasInMenu, chatTo>>
    BY DEF OnGameStart, OnGameOver, Show, serverVars, vars, menuVars, shownVars
  <1>2. /\ StartIn(toClient') => StartIn(toClient)
        /\ EntryIn(toClient') <=> EntryIn(toClient)
        /\ FreshTwiceIn(toClient') => FreshTwiceIn(toClient)
        /\ \A r : FreshIn(toClient', r) <=> FreshIn(toClient, r)
        /\ \A r : StaleIn(toClient', r) => StaleIn(toClient, r)
    BY TakeStep DEF OnGameStart, OnGameOver, Entered
  <1>3. \/ strayed' = strayed /\ OnGameStart /\ StartIn(toClient)
        \/ /\ strayed' = strayed \/ (strayed = "no" /\ strayed' = "away")
           /\ InLobby => strayed' # "no"
           /\ toClient' = toClient
    BY TakeStep DEF OnGameStart, OnGameOver, InLobby
  <1>4. Mine' = Mine /\ Waiting' = Waiting /\ nextRoom' = nextRoom
    BY <1>1 DEF Mine, Waiting, Live, vars
  <1>5. Noted'
    BY <1>1, <1>2, <1>4 DEF Noted
  <1>6. Old'
    BY <1>1, <1>2, <1>4 DEF Old, Given
  <1>7. ChatFollows'
    BY <1>1, <1>3 DEF ChatFollows, InLobby
  <1>8. Spoken'
    <2>1. strayed # "no" => strayed' # "no"
      BY <1>3
    <2>2. (Leaving' <=> Leaving) /\ (Starting' => Starting)
      BY <1>1, <1>2 DEF Leaving, Starting
    <2> QED
      BY <1>2, <1>3, <1>4, <2>1, <2>2 DEF Spoken, Starting
  <1>9. Honest => Honest'
    BY <1>1, <1>2, <1>4 DEF Honest, InLobby
  <1> QED
    BY <1>1, <1>5, <1>6, <1>7, <1>8, <1>9

\* Leave, in the lobby: the room is the client's, or does not wait any more.
LEMMA LeaveStep ==
    ASSUME AppIInv, Go("lobby", "main", <<Request("leave", roomId)>>)
    PROVE  Flow'
  <1> USE DEF AppIInv, Flow
  <1> DEFINE q == Request("leave", roomId)
  <1>1. /\ InLobby /\ view = "menu" /\ wasInMenu
        /\ menu' = "main" /\ chatTo' = chatTo /\ toServer' = toServer \o <<q>>
        /\ UNCHANGED <<vars, misled, toClient, roomShown, roomId, known, view, wasInMenu, strayed>>
    BY DEF Go, InMenu, InLobby, Send, EnterScreen, serverVars, vars, shownVars
  <1>2. q \in Requests /\ q.type = "leave" /\ q.known = known /\ q.room = roomId
    BY DEF AppTypeOK, Request, Requests
  <1>3. known /\ q.room = roomShown
    BY <1>1, <1>2 DEF Noted, InLobby
  <1> HIDE DEF q
  <1>4. /\ \A r : LeaveIn(toServer', r) <=> LeaveIn(toServer, r) \/ r = roomShown
        /\ \A r : LeaveTwiceIn(toServer', r) =>
                     LeaveTwiceIn(toServer, r) \/ (r = roomShown /\ LeaveIn(toServer, r))
        /\ \A i \in DOMAIN toServer' : toServer'[i] = q \/ \E j \in DOMAIN toServer : toServer'[i] = toServer[j]
    BY <1>1, <1>2, <1>3, SentStep
  <1>5. Mine' = Mine /\ Waiting' = Waiting /\ nextRoom' = nextRoom /\ ~InLobby' /\ Leaving'
    BY <1>1, <1>4 DEF Mine, Waiting, Live, vars, InLobby, Leaving
  <1>6. Noted'
    BY <1>1, <1>2, <1>3, <1>4, <1>5 DEF Noted
  <1>7. Old'
    BY <1>1, <1>4, <1>5 DEF Old, Given
  <1>8. ChatFollows'
    BY <1>1, <1>5 DEF ChatFollows
  <1>9. Spoken'
    BY <1>1, <1>5 DEF Spoken, Starting
  <1>10. ASSUME Honest PROVE Honest'
    <2>1. \A r : FreshIn(toClient, r) => r # roomShown
      BY <1>1, <1>10 DEF Honest, FreshIn, EntryIn
    <2>2. roomShown \in Waiting => roomShown = Mine /\ ~LeaveIn(toServer, roomShown) /\ ~LeaveTwiceIn(toServer, roomShown)
      <3>1. LeaveTwiceIn(toServer, roomShown) => LeaveIn(toServer, roomShown)
        BY DEF LeaveTwiceIn, LeaveIn
      <3> QED
        BY <1>1, <1>10, <3>1 DEF Honest
    <2> QED
      BY <1>1, <1>4, <1>5, <1>10, <2>1, <2>2 DEF Honest
  <1> QED
    BY <1>1, <1>6, <1>7, <1>8, <1>9, <1>10

------------------------------------------------------------------------------
(* What the server does                                                    *)

\* An answer joins those under way.
LEMMA TellStep ==
    ASSUME AppTypeOK, NEW m \in Answers, toClient' = toClient \o <<m>>
    PROVE  /\ StartIn(toClient') <=> StartIn(toClient) \/ m.type = "start"
           /\ EntryIn(toClient') <=> EntryIn(toClient) \/ m.type \in Entered
           /\ \A r : StaleIn(toClient', r) => StaleIn(toClient, r) \/ (m.type = "start" /\ FreshIn(toClient, r))
           /\ \A r : m.type \notin Entered \cup {"start"} => (FreshIn(toClient', r) <=> FreshIn(toClient, r))
           /\ \A r : m.type = "start" => ~FreshIn(toClient', r)
           /\ \A r : m.type \in Entered => (FreshIn(toClient', r) <=> FreshIn(toClient, r) \/ m.room = r)
           /\ FreshTwiceIn(toClient') =>
                 \/ FreshTwiceIn(toClient) /\ m.type # "start"
                 \/ m.type \in Entered /\ \E r : FreshIn(toClient, r)
  <1>1. toClient \in Seq(Answers)
    BY DEF AppTypeOK
  <1> QED
    BY <1>1, AnswerAtEnd

\* What leaves the client in its room or out of one, lets it in, or out.
Aside ==
    /\ Mine' = Mine /\ (Mine \in Waiting => Mine \in Waiting') /\ UNCHANGED <<misled, clientVars>>
    /\ \/ toServer' = toServer
       \/ /\ toServer # <<>> /\ toServer' = Tail(toServer)
          /\ Head(toServer).type = "leave" /\ Head(toServer).known => Mine = 0
    /\ \/ toClient' = toClient
       \/ \E m \in Answers : /\ m.type \notin Entered \cup {"start"}
                             /\ toClient' = toClient \o <<m>>
LetIn ==
    /\ Mine = 0 /\ Mine' # 0 /\ Given(Mine)' /\ Mine' \in Waiting'
    /\ UNCHANGED <<misled, clientVars>>
    /\ toServer # <<>> /\ toServer' = Tail(toServer)
    /\ Head(toServer).type # "leave" /\ Head(toServer).known
    /\ \E m \in Answers : /\ m.type \in Entered /\ m.room = Mine'
                          /\ toClient' = toClient \o <<m>>
LetOut ==
    /\ Mine # 0 /\ Mine' = 0 /\ UNCHANGED <<clientVars, toClient>>
    /\ toServer # <<>> /\ toServer' = Tail(toServer) /\ Head(toServer).type = "leave"
    /\ misled' = (misled \/ Head(toServer).room # Mine)

LEMMA AsideStep ==
    ASSUME AppIInv, [Next]_vars, Aside
    PROVE  Flow'
  <1> USE DEF AppIInv, Flow
  <1>1. /\ UNCHANGED <<misled, menu, roomShown, roomId, known, view, wasInMenu, chatTo, strayed>>
        /\ Mine' = Mine /\ (Mine \in Waiting => Mine \in Waiting')
    BY DEF Aside, clientVars, menuVars, shownVars, chatVars
  <1>2. /\ \A r : LeaveIn(toServer', r) => LeaveIn(toServer, r)
        /\ \A r : LeaveTwiceIn(toServer', r) => LeaveTwiceIn(toServer, r)
        /\ \A i \in DOMAIN toServer' : \E j \in DOMAIN toServer : toServer'[i] = toServer[j]
        /\ Leaving => Leaving' \/ Mine = 0
    <2>1. CASE toServer' = toServer
      BY <2>1 DEF Leaving
    <2>2. CASE /\ toServer # <<>> /\ toServer' = Tail(toServer)
               /\ Head(toServer).type = "leave" /\ Head(toServer).known => Mine = 0
      <3>1. Head(toServer).type = "leave" => Head(toServer).known
        BY <2>2, ServedStep DEF Noted
      <3> QED
        BY <2>2, <3>1, ServedStep DEF Leaving
    <2> QED
      BY <2>1, <2>2 DEF Aside
  <1>3. /\ StartIn(toClient') <=> StartIn(toClient)
        /\ EntryIn(toClient') <=> EntryIn(toClient)
        /\ FreshTwiceIn(toClient') => FreshTwiceIn(toClient)
        /\ \A r : FreshIn(toClient', r) <=> FreshIn(toClient, r)
        /\ \A r : StaleIn(toClient', r) => StaleIn(toClient, r)
    <2>1. CASE toClient' = toClient
      BY <2>1
    <2>2. ASSUME NEW m \in Answers, m.type \notin Entered \cup {"start"}, toClient' = toClient \o <<m>>
          PROVE  <1>3!:
      BY <2>2, TellStep
    <2> QED
      BY <2>1, <2>2 DEF Aside
  <1>4. Noted'
    BY <1>1, <1>2, <1>3 DEF Noted
  <1>5. ChatFollows' /\ (InLobby' <=> InLobby)
    BY <1>1 DEF ChatFollows, InLobby
  <1> QED
    BY <1>1, <1>2, <1>3, <1>4, <1>5, Undisturbed

\* The server lets the client into a room: nothing it said before is about one
\* that waits.
LEMMA LetInStep ==
    ASSUME AppIInv, [Next]_vars, LetIn
    PROVE  Flow'
  <1> USE DEF AppIInv, Flow
  <1> DEFINE w == Mine'
  <1> PICK m \in Answers : m.type \in Entered /\ m.room = w /\ toClient' = toClient \o <<m>>
    BY DEF LetIn
  <1>1. /\ UNCHANGED <<misled, menu, roomShown, roomId, known, view, wasInMenu, chatTo, strayed>>
        /\ Mine = 0 /\ w # 0 /\ Given(Mine)' /\ w \in Waiting'
    BY DEF LetIn, clientVars, menuVars, shownVars, chatVars
  <1>2. /\ known
        /\ \A r : LeaveIn(toServer', r) => LeaveIn(toServer, r)
        /\ \A i \in DOMAIN toServer' : \E j \in DOMAIN toServer : toServer'[i] = toServer[j]
    BY ServedStep DEF LetIn, Noted
  <1>3. /\ StartIn(toClient') <=> StartIn(toClient)
        /\ \A r : StaleIn(toClient', r) => StaleIn(toClient, r)
        /\ \A r : FreshIn(toClient', r) <=> FreshIn(toClient, r) \/ r = w
        /\ FreshTwiceIn(toClient') => FreshTwiceIn(toClient) \/ \E r : FreshIn(toClient, r)
    BY TellStep DEF Entered
  <1>4. /\ \A r : Given(r) => Given(r)'
        /\ \A r : Given(r) /\ r \in Waiting' => r \in Waiting
        /\ 0 \notin Waiting
    BY OldRooms DEF Waiting, Live
  <1>5. Noted'
    BY <1>1, <1>2 DEF Noted
  <1>6. Old'
    <2>1. \A r : StaleIn(toClient', r) \/ LeaveIn(toServer', r) \/ FreshIn(toClient, r) => Given(r)'
      BY <1>2, <1>3, <1>4 DEF Old
    <2>2. Given(roomShown)'
      BY <1>1, <1>4 DEF Old, Given
    <2>3. \A r : r = w => Given(r)'
      BY <1>1 DEF Given
    <2> QED
      BY <1>3, <2>1, <2>2, <2>3 DEF Old
  <1>7. ChatFollows' /\ (InLobby' <=> InLobby)
    BY <1>1 DEF ChatFollows, InLobby
  <1>8. Spoken'
    BY <1>3 DEF Spoken
  <1>9. ASSUME Honest PROVE Honest'
    <2>1. (\A r : ~FreshIn(toClient, r)) /\ (\A r \in Waiting : ~LeaveIn(toServer, r))
      BY <1>1, <1>4, <1>9 DEF Honest
    <2>2. \A r \in Waiting' : ~LeaveIn(toServer', r)
      BY <1>2, <1>4, <2>1 DEF Old
    <2>3. \A r : StaleIn(toClient', r) => r \notin Waiting'
      BY <1>3, <1>4, <1>9 DEF Honest, Old
    <2>4. \A r : FreshIn(toClient', r) => r = Mine' /\ r \in Waiting' /\ ~LeaveIn(toServer', r)
      BY <1>1, <1>3, <2>1, <2>2
    <2>5. ~FreshTwiceIn(toClient')
      BY <1>3, <1>9, <2>1 DEF Honest
    <2>6. InLobby' => Starting' /\ roomShown' \notin Waiting'
      BY <1>1, <1>3, <1>4, <1>7, <1>9 DEF Honest, Old, Starting
    <2> QED
      BY <2>2, <2>3, <2>4, <2>5, <2>6 DEF Honest
  <1> QED
    BY <1>1, <1>5, <1>6, <1>7, <1>8, <1>9

\* The server lets it out.
LEMMA LetOutStep ==
    ASSUME AppIInv, [Next]_vars, LetOut
    PROVE  Flow'
  <1> USE DEF AppIInv, Flow
  <1> DEFINE h == Head(toServer)
  <1>1. /\ UNCHANGED <<menu, roomShown, roomId, known, view, wasInMenu, chatTo, strayed, toClient>>
        /\ Mine # 0 /\ Mine' = 0 /\ h.type = "leave"
        /\ misled' = (misled \/ h.room # Mine)
    BY DEF LetOut, clientVars, menuVars, shownVars, chatVars
  <1>2. /\ \A r : LeaveIn(toServer, r) <=> LeaveIn(toServer', r) \/ r = h.room
        /\ LeaveIn(toServer', h.room) => LeaveTwiceIn(toServer, h.room)
        /\ \A i \in DOMAIN toServer' : \E j \in DOMAIN toServer : toServer'[i] = toServer[j]
    BY ServedStep DEF LetOut
  <1> HIDE DEF h
  <1>3. /\ \A r : Given(r) => Given(r)'
        /\ \A r : Given(r) /\ r \in Waiting' => r \in Waiting
        /\ 0 \notin Waiting'
    BY OldRooms DEF Waiting, Live
  <1>4. Noted'
    BY <1>1, <1>2 DEF Noted
  <1>5. Old'
    BY <1>1, <1>2, <1>3 DEF Old, Given
  <1>6. ChatFollows' /\ (InLobby' <=> InLobby)
    BY <1>1 DEF ChatFollows, InLobby
  <1>7. Spoken'
    BY <1>1, <1>3 DEF Spoken
  <1>8. ASSUME Honest, h.room = Mine PROVE Honest'
    <2>1. /\ \A r : ~FreshIn(toClient, r)
          /\ InLobby => Starting
      BY <1>2, <1>8 DEF Honest
    <2>2. \A r \in Waiting' : ~LeaveIn(toServer', r)
      BY <1>2, <1>3, <1>8 DEF Honest, Old
    <2>3. \A r : StaleIn(toClient, r) => r \notin Waiting'
      BY <1>3, <1>8 DEF Honest, Old
    <2>4. InLobby' => Starting' /\ roomShown' \notin Waiting'
      BY <1>1, <1>3, <1>6, <1>8, <2>1 DEF Honest, Old, Starting
    <2> QED
      BY <1>1, <1>8, <2>1, <2>2, <2>3, <2>4 DEF Honest
  <1> QED
    BY <1>1, <1>4, <1>5, <1>6, <1>7, <1>8

\* The room of the client begins its game.
LEMMA BeginStep ==
    ASSUME AppIInv, [Next]_vars, NEW r \in RoomIds, StartRoom(r), Mine = r,
           Tell(<<Answer("start", r)>>), UNCHANGED <<misled, toServer, clientVars>>
    PROVE  Flow'
  <1> USE DEF AppIInv, Flow
  <1> DEFINE m == Answer("start", r)
  <1>1. UNCHANGED <<misled, toServer, menu, roomShown, roomId, known, view, wasInMenu, chatTo, strayed>>
    BY DEF clientVars, menuVars, shownVars, chatVars
  <1>2. m \in Answers /\ m.type = "start" /\ toClient' = toClient \o <<m>>
    BY DEF Answer, Answers, Tell
  <1> HIDE DEF m
  <1>3. /\ StartIn(toClient') /\ (EntryIn(toClient') <=> EntryIn(toClient))
        /\ \A q : StaleIn(toClient', q) => StaleIn(toClient, q) \/ FreshIn(toClient, q)
        /\ \A q : ~FreshIn(toClient', q)
        /\ ~FreshTwiceIn(toClient')
    BY <1>2, TellStep DEF Entered
  <1>4. /\ \A q : Given(q) => Given(q)'
        /\ \A q : Given(q) /\ q \in Waiting' => q \in Waiting
    BY OldRooms
  <1>5. r # 0 /\ Mine' \notin Waiting' /\ r \notin Waiting'
    BY FirstInside
  <1>6. Noted'
    BY <1>1, <1>3, <1>5 DEF Noted
  <1>7. Old'
    BY <1>1, <1>3, <1>4 DEF Old, Given
  <1>8. ChatFollows' /\ (InLobby' <=> InLobby)
    BY <1>1 DEF ChatFollows, InLobby
  <1>9. Spoken'
    BY <1>5 DEF Spoken
  <1>10. ASSUME Honest PROVE Honest'
    <2>1. \A q : StaleIn(toClient', q) => q \notin Waiting'
      BY <1>3, <1>4, <1>5, <1>10 DEF Honest, Old
    <2>2. \A q \in Waiting' : ~LeaveIn(toServer', q)
      BY <1>1, <1>4, <1>5, <1>10 DEF Honest, Old
    <2>3. InLobby' => Starting' /\ roomShown' \notin Waiting'
      BY <1>1, <1>3, <1>4, <1>5, <1>8, <1>10 DEF Honest, Old, Starting
    <2> QED
      BY <1>3, <2>1, <2>2, <2>3 DEF Honest
  <1> QED
    BY <1>1, <1>6, <1>7, <1>8, <1>9, <1>10

------------------------------------------------------------------------------
(* Types                                                                   *)

\* Requests and answers are built from what the client and the server know.
LEMMA MessageTypes ==
    ASSUME AppTypeOK, NEW r \in {0} \cup RoomIds
    PROVE  /\ \A t \in {"connect", "create", "join", "leave", "start", "list"} : Request(t, r) \in Requests
           /\ \A t \in {"accept", "created", "joined", "error", "countdown", "start"} :
                 Answer(t, r) \in Answers
           /\ \A R \in SUBSET RoomIds : Listing(R) \in Answers
  BY DEF AppTypeOK, Request, Requests, Answer, Answers, Listing

LEMMA SendTypes ==
    ASSUME AppTypeOK, NEW q \in Requests, Send(<<q>>)
    PROVE  toServer' \in Seq(Requests) /\ toServer' = toServer \o <<q>>
  BY AtEnd DEF Send, AppTypeOK

LEMMA TellTypes ==
    ASSUME AppTypeOK, NEW m \in Answers, Tell(<<m>>)
    PROVE  toClient' \in Seq(Answers) /\ toClient' = toClient \o <<m>>
  BY AtEnd DEF Tell, AppTypeOK

LEMMA ClickTypes ==
    ASSUME AppTypeOK, TypeOK', Clicked
    PROVE  AppTypeOK'
  <1>1. ASSUME NEW q \in Requests PROVE toServer \o <<q>> \in Seq(Requests)
    BY AtEnd DEF AppTypeOK
  <1>2. toServer' \in Seq(Requests)
    BY <1>1 DEF Clicked, AppTypeOK
  <1> QED
    BY <1>2 DEF Clicked, AppTypeOK, serverVars, shownVars, vars, datagrams

\* A click that asks for something but to leave a room.
LEMMA AskClicked ==
    ASSUME AppTypeOK, NEW m \in Menus, NEW r \in {0} \cup RoomIds,
           NEW t \in {"connect", "create", "join", "start", "list"}, Ask(m, <<Request(t, r)>>)
    PROVE  Clicked
  <1>1. Request(t, r) \in Requests /\ Request(t, r).type # "leave" /\ Request(t, r).known = known
    BY MessageTypes DEF Request
  <1>2. toServer' = toServer \o <<Request(t, r)>>
    BY DEF Ask, Send
  <1> QED
    BY <1>1, <1>2 DEF Ask, Clicked, InMenu, AppTypeOK, clientVars, menuVars, shownVars, chatVars, serverVars

LEMMA GoClicked ==
    ASSUME AppTypeOK, NEW m \in Menus \ {"lobby"}, NEW n \in Menus \ {"lobby"},
           NEW t \in {"connect", "create", "join", "start", "list"},
           Go(m, n, <<Request(t, 0)>>) \/ Go(m, n, <<>>)
    PROVE  Clicked
  <1>1. Request(t, 0) \in Requests /\ Request(t, 0).type # "leave" /\ Request(t, 0).known = known
    BY MessageTypes DEF Request
  <1>2. /\ view = "menu" /\ wasInMenu /\ menu = m /\ menu' = n /\ chatTo' = chatTo
        /\ UNCHANGED <<serverVars, toClient, datagrams, shownVars, known, view, wasInMenu, strayed,
                       listed, dialog>>
    BY DEF Go, InMenu, EnterScreen
  <1>3. toServer' = toServer \/ toServer' = toServer \o <<Request(t, 0)>>
    <2>1. toServer \o <<>> = toServer
      BY DEF AppTypeOK
    <2> QED
      BY <2>1 DEF Go, Send
  <1> QED
    BY <1>1, <1>2, <1>3 DEF Clicked, AppTypeOK

LEMMA DialogClicked ==
    ASSUME AppTypeOK, Dialog
    PROVE  Clicked
  <1>1. dialog \in {0} \cup RoomIds
    BY DEF AppTypeOK
  <1> DEFINE q == Request("join", dialog)
  <1>2. q \in Requests /\ q.type # "leave" /\ q.known = known
    BY <1>1, MessageTypes DEF Request
  <1>3. toServer' = toServer \/ toServer' = toServer \o <<q>>
    BY DEF Dialog, Send
  <1>4. dialog' \in {0} \cup RoomIds
    BY DEF Dialog, AppTypeOK
  <1> HIDE DEF q
  <1> QED
    BY <1>2, <1>3, <1>4 DEF Dialog, Clicked, AppTypeOK, chatVars

LEMMA UserMoves ==
    ASSUME AppTypeOK, User \/ LobbyRefresh
    PROVE  Clicked \/ Go("lobby", "main", <<Request("leave", roomId)>>) \/ BackToMenu
  <1>1. CASE Connect
    BY <1>1, GoClicked DEF Connect, Menus
  <1>2. CASE FromMain
    BY <1>2, GoClicked DEF FromMain, Menus
  <1>3. CASE Back
    BY <1>3, GoClicked DEF Back, Menus
  <1>4. CASE CreateClicked
    BY <1>4, AskClicked DEF CreateClicked, Menus
  <1>5. CASE BrowseClicked
    <2>1. \A r \in listed : r \in {0} \cup RoomIds
      BY DEF AppTypeOK
    <2> QED
      BY <1>5, <2>1, AskClicked DEF BrowseClicked, Menus
  <1>6. CASE LobbyClicked
    <2>1. roomId \in {0} \cup RoomIds
      BY DEF AppTypeOK
    <2> QED
      BY <1>6, <2>1, AskClicked DEF LobbyClicked, Menus
  <1>7. CASE LobbyRefresh
    BY <1>7, AskClicked DEF LobbyRefresh, Menus
  <1> QED
    BY <1>1, <1>2, <1>3, <1>4, <1>5, <1>6, <1>7, DialogClicked DEF User

LEMMA PassMoves ==
    ASSUME AppTypeOK, OnAccept \/ OnRoomList \/ OnRoomError \/ OnCountdown
    PROVE  Passed
  <1> USE DEF AppTypeOK, Passed, Entered, serverVars, vars, menuVars, shownVars, chatVars
  <1>1. CASE OnAccept
    BY <1>1 DEF OnAccept
  <1>2. CASE OnRoomList
    <2>1. Head1 \in Answers /\ Head1.type = "list"
      BY <1>2, TakeStep DEF OnRoomList
    <2>2. Head1.rooms \subseteq RoomIds
      BY <2>1 DEF Answers
    <2> QED
      BY <1>2, <2>2 DEF OnRoomList
  <1>3. CASE OnRoomError
    BY <1>3 DEF OnRoomError, EnterScreen
  <1>4. CASE OnCountdown
    BY <1>4 DEF OnCountdown
  <1> QED
    BY <1>1, <1>2, <1>3, <1>4

LEMMA ReceiveTypes ==
    ASSUME AppTypeOK, TypeOK', ReceiveAnswer
    PROVE  AppTypeOK'
  <1>1. Took => toClient' \in Seq(Answers) /\ Head1 \in Answers
    BY TakeStep
  <1>2. CASE OnAccept \/ OnRoomList \/ OnRoomError \/ OnCountdown
    BY <1>1, <1>2, PassMoves DEF Passed, AppTypeOK, Menus, serverVars, vars, chatVars, datagrams
  <1>3. CASE OnRoomEntered
    <2>1. Head1.room \in {0} \cup RoomIds
      BY <1>1, <1>3 DEF OnRoomEntered, Answers
    <2>2. toServer' \in Seq(Requests)
      BY <1>3, MessageTypes, SendTypes DEF OnRoomEntered
    <2> QED
      BY <1>1, <1>3, <2>1, <2>2 DEF OnRoomEntered, EnterScreen, AppTypeOK, Menus, serverVars, vars, datagrams
  <1>4. CASE OnGameStart
    BY <1>1, <1>4 DEF OnGameStart, Show, AppTypeOK, serverVars, vars, menuVars, shownVars
  <1>5. CASE OnGameOver
    <2>1. overs' \in 0..MaxEach /\ strayed' \in {"no", "behind", "away"}
      BY <1>5 DEF OnGameOver, AppTypeOK
    <2> QED
      BY <1>5, <2>1 DEF OnGameOver, Show, AppTypeOK, serverVars, vars, menuVars, shownVars
  <1> QED
    BY <1>2, <1>3, <1>4, <1>5 DEF ReceiveAnswer

\* A room that lets the client in waits, and its number is given.
LEMMA RoomOpen ==
    ASSUME IInv, NEW r, JoinRoom(Me, r) \/ (r = nextRoom /\ \E size \in Sizes : CreateRoom(Me, size))
    PROVE  r \in RoomIds /\ Mine' = r /\ Mine' # 0 /\ Given(Mine)' /\ Mine' \in Waiting'
  <1> USE DEF IInv, TypeOK
  <1>1. CASE JoinRoom(Me, r)
    <2>1. r \in RoomIds /\ rooms[r] \in Room /\ rooms[r].status = "waiting" /\ Me \in Players
      BY <1>1 DEF JoinRoom, CanJoin, Live
    <2>2. ~(r >= nextRoom) /\ nextRoom' = nextRoom
      BY <1>1, <2>1 DEF JoinRoom, CanJoin, Live, FreshIds
    <2> DEFINE joined == [rooms[r] EXCEPT !.players = Append(@, Me)]
    <2>3. rooms'[r] = joined /\ playerRoom'[Me] = r
      BY <1>1, <2>1 DEF JoinRoom
    <2>4. joined \in Room /\ joined.status = "waiting"
      BY <2>1, AppendFacts, RoomFields DEF Room
    <2> HIDE DEF joined
    <2>5. rooms'[r] # NoRoom /\ rooms'[r].status = "waiting"
      BY <2>3, <2>4
    <2> QED
      BY <2>1, <2>2, <2>3, <2>5 DEF Mine, Given, Waiting, Live
  <1>2. ASSUME NEW size \in Sizes, CreateRoom(Me, size), r = nextRoom
        PROVE  r \in RoomIds /\ Mine' = r /\ Mine' # 0 /\ Given(Mine)' /\ Mine' \in Waiting'
    <2>1. r \in RoomIds /\ nextRoom' = nextRoom + 1 /\ Me \in Players
      BY <1>2 DEF CreateRoom
    <2>2. rooms'[r] = NewRoom(Me, size) /\ playerRoom'[Me] = r
      BY <1>2, <2>1 DEF CreateRoom
    <2>3. NewRoom(Me, size) \in Room /\ NewRoom(Me, size).status = "waiting"
      BY <2>1 DEF NewRoom, Room
    <2>4. rooms'[r] # NoRoom /\ rooms'[r].status = "waiting"
      BY <2>2, <2>3
    <2>5. r \in Waiting'
      BY <2>1, <2>4 DEF Waiting, Live
    <2> QED
      BY <1>2, <2>1, <2>2, <2>5 DEF Mine, Given
  <1> QED
    BY <1>1, <1>2

LEMMA ServeMoves ==
    ASSUME IInv, AppTypeOK, Serve
    PROVE  (Aside \/ LetIn \/ LetOut) /\ (TypeOK' => AppTypeOK')
  <1> DEFINE q == Head(toServer)
             Still == Mine' = Mine /\ (Mine \in Waiting => Mine \in Waiting')
             Asked(m) == m.type \notin Entered \cup {"start"} /\ Tell(<<m>>)
             Shut == \E m \in Answers : Asked(m) /\ Still /\ q.type # "leave"
             Kept == UNCHANGED toClient /\ Still /\ (q.type = "leave" /\ q.known => Mine = 0)
             Open == /\ Mine = 0 /\ Mine' # 0 /\ Given(Mine)' /\ Mine' \in Waiting'
                     /\ \E m \in Answers : m.type \in Entered /\ m.room = Mine' /\ Tell(<<m>>)
             Gone == Mine # 0 /\ Mine' = 0 /\ UNCHANGED toClient
  <1>1. /\ toServer # <<>> /\ toServer' = Tail(toServer) /\ UNCHANGED <<session, datagrams, clientVars>>
        /\ q \in Requests /\ toServer' \in Seq(Requests)
        /\ misled' = (misled \/ (q.known /\ q.type = "leave" /\ Mine \notin {0, q.room}))
    BY ServedStep DEF Serve, Mine
  <1>2. /\ q.room \in {0} \cup RoomIds /\ q.known \in BOOLEAN
        /\ q.type \in {"connect", "create", "join", "leave", "start", "list"}
    BY <1>1 DEF Requests
  <1>3. playerRoom \in [Players -> {0} \cup RoomIds] /\ Me \in Players
    BY DEF AppTypeOK, TypeOK
  <1>4. UNCHANGED vars => Still
    BY DEF vars, Mine, Waiting, Live
  <1>5. ASSUME Refuse, q.type # "leave" PROVE Shut
    <2>1. Answer("error", 0) \in Answers /\ Answer("error", 0).type = "error"
      BY MessageTypes DEF Answer
    <2> QED
      BY <1>4, <1>5, <2>1 DEF Refuse, Entered
  <1>6. \/ Shut \/ Kept
        \/ Open /\ q.known /\ q.type # "leave"
        \/ Gone /\ q.known /\ q.type = "leave"
    <2>1. CASE q.type = "connect"
      <3>1. Tell(<<Answer("accept", 0)>>) /\ UNCHANGED vars
        BY <2>1 DEF Serve
      <3>2. Answer("accept", 0) \in Answers /\ Answer("accept", 0).type = "accept"
        BY MessageTypes DEF Answer
      <3> QED
        BY <1>4, <2>1, <3>1, <3>2 DEF Entered
    <2>2. CASE q.type = "list"
      <3>1. Tell(<<Listing(Waiting)>>) /\ UNCHANGED vars
        BY <2>2 DEF Serve
      <3>2. Listing(Waiting) \in Answers /\ Listing(Waiting).type = "list"
        BY MessageTypes DEF Listing, Waiting, Live
      <3> QED
        BY <1>4, <2>2, <3>1, <3>2 DEF Entered
    <2>3. CASE ~q.known /\ q.type \notin {"connect", "list"}
      <3>1. UNCHANGED <<toClient, vars>>
        BY <2>3, Zenon DEF Serve
      <3> QED
        BY <1>4, <2>3, <3>1
    <2>4. CASE q.known /\ q.type = "create"
      <3>1. ServeCreate
        BY <2>4 DEF Serve
      <3>2. ASSUME Mine = 0, NEW size \in Sizes, CreateRoom(Me, size), Tell(<<Answer("created", nextRoom)>>)
            PROVE  Open
        <4>1. /\ nextRoom \in RoomIds /\ Mine' = nextRoom /\ Mine' # 0
              /\ Given(Mine)' /\ Mine' \in Waiting'
          BY <3>2, RoomOpen
        <4>2. /\ Answer("created", nextRoom) \in Answers /\ Answer("created", nextRoom).type = "created"
              /\ Answer("created", nextRoom).room = nextRoom
          BY <4>1, MessageTypes DEF Answer
        <4> QED
          BY <3>2, <4>1, <4>2 DEF Entered
      <3> QED
        BY <1>5, <2>4, <3>1, <3>2 DEF ServeCreate, Mine
    <2>5. CASE q.known /\ q.type = "join"
      <3>1. ServeJoin(q.room)
        BY <2>5 DEF Serve
      <3>2. ASSUME Mine = 0, JoinRoom(Me, q.room), Tell(<<Answer("joined", q.room)>>)
            PROVE  Open
        <4>1. /\ q.room \in RoomIds /\ Mine' = q.room /\ Mine' # 0
              /\ Given(Mine)' /\ Mine' \in Waiting'
          BY <3>2, RoomOpen
        <4>2. /\ Answer("joined", q.room) \in Answers /\ Answer("joined", q.room).type = "joined"
              /\ Answer("joined", q.room).room = q.room
          BY <4>1, MessageTypes DEF Answer
        <4> QED
          BY <3>2, <4>1, <4>2 DEF Entered
      <3> QED
        BY <1>5, <2>5, <3>1, <3>2 DEF ServeJoin, Mine
    <2>6. CASE q.known /\ q.type = "leave"
      <3>1. ServeLeave
        BY <2>6 DEF Serve
      <3>2. ASSUME LeaveRoom(Me) PROVE Mine # 0 /\ Mine' = 0
        BY <1>3, <3>2 DEF LeaveRoom, Live, Mine
      <3> QED
        BY <1>4, <2>6, <3>1, <3>2 DEF ServeLeave, Mine
    <2>7. CASE q.known /\ q.type = "start"
      <3>1. ServeStart(q.room)
        BY <2>7 DEF Serve
      <3>2. ASSUME StartGame(q.room, Me) PROVE Still
        <4>1. q.room \in RoomIds
          BY <3>2 DEF StartGame, Live
        <4>2. Mine' = Mine
          BY <3>2 DEF StartGame, Mine
        <4>3. Mine \in Waiting => Mine \in Waiting'
          BY <1>3, <3>2, <4>1, <4>2, GoesOnWaiting DEF Waiting, Live
        <4> QED
          BY <4>2, <4>3
      <3>3. /\ Answer("countdown", q.room) \in Answers
            /\ Answer("countdown", q.room).type = "countdown"
        BY <1>2, MessageTypes DEF Answer
      <3> QED
        BY <1>5, <2>7, <3>1, <3>2, <3>3 DEF ServeStart, CountdownTold, Entered
    <2> QED
      BY <1>2, <2>1, <2>2, <2>3, <2>4, <2>5, <2>6, <2>7
  <1>7. \A m \in Answers : Tell(<<m>>) => toClient' = toClient \o <<m>> /\ toClient' \in Seq(Answers)
    BY TellTypes
  <1>8. misled \in BOOLEAN /\ toClient \in Seq(Answers)
    BY DEF AppTypeOK
  <1> HIDE DEF q, Still
  <1>9. CASE Shut
    <2>1. misled' = misled
      BY <1>1, <1>8, <1>9
    <2>2. Aside
      BY <1>1, <1>7, <1>9, <2>1 DEF Aside, q, Still
    <2> QED
      BY <1>1, <1>7, <1>8, <1>9, <2>1, <2>2 DEF AppTypeOK, clientVars, menuVars, shownVars, chatVars, datagrams
  <1>10. CASE Kept
    <2>1. misled' = misled
      BY <1>1, <1>8, <1>10
    <2>2. Aside
      BY <1>1, <1>10, <2>1 DEF Aside, q, Still
    <2> QED
      BY <1>1, <1>8, <1>10, <2>1, <2>2 DEF AppTypeOK, clientVars, menuVars, shownVars, chatVars, datagrams
  <1>11. CASE Open /\ q.known /\ q.type # "leave"
    <2>1. misled' = misled
      BY <1>1, <1>8, <1>11
    <2>2. LetIn
      BY <1>1, <1>7, <1>11, <2>1 DEF LetIn, q
    <2> QED
      BY <1>1, <1>7, <1>8, <1>11, <2>1, <2>2 DEF AppTypeOK, clientVars, menuVars, shownVars, chatVars, datagrams
  <1>12. CASE Gone /\ q.known /\ q.type = "leave"
    <2>1. misled' = (misled \/ q.room # Mine) /\ misled' \in BOOLEAN
      BY <1>1, <1>8, <1>12
    <2>2. LetOut
      BY <1>1, <1>12, <2>1 DEF LetOut, q
    <2> QED
      BY <1>1, <1>8, <1>12, <2>1, <2>2 DEF AppTypeOK, clientVars, menuVars, shownVars, chatVars, datagrams
  <1> QED
    BY <1>6, <1>9, <1>10, <1>11, <1>12

\* The other player, the ticks of the rooms and the ends of games.
LEMMA OtherMoves ==
    ASSUME IInv, AppTypeOK, PeerActs \/ RoomsUpdate \/ GameOver
    PROVE  /\ \/ Aside
              \/ \E r \in RoomIds : /\ StartRoom(r) /\ Mine = r /\ Tell(<<Answer("start", r)>>)
                                    /\ UNCHANGED <<misled, toServer, clientVars>>
           /\ TypeOK' => AppTypeOK'
  <1>1. playerRoom \in [Players -> {0} \cup RoomIds] /\ Me \in Players /\ Peer \in Players
    BY DEF AppTypeOK, TypeOK
  <1>2. \A r \in RoomIds : CountdownTold(r) => \/ toClient' = toClient
                                              \/ \E m \in Answers : m.type = "countdown" /\ Tell(<<m>>)
    <2> SUFFICES ASSUME NEW r \in RoomIds, CountdownTold(r)
                 PROVE  toClient' = toClient \/ \E m \in Answers : m.type = "countdown" /\ Tell(<<m>>)
      OBVIOUS
    <2>1. Answer("countdown", r) \in Answers /\ Answer("countdown", r).type = "countdown"
      BY MessageTypes DEF Answer
    <2> QED
      BY <2>1 DEF CountdownTold
  <1>3. \A m \in Answers : Tell(<<m>>) => toClient' = toClient \o <<m>> /\ toClient' \in Seq(Answers)
    BY TellTypes
  <1> DEFINE Elsewhere == \/ UNCHANGED vars \/ CleanupEmptyRooms
                          \/ \E p \in Players : LeaveRoom(p) \/ \E size \in Sizes : CreateRoom(p, size)
                          \/ \E p \in Players, s \in RoomIds : JoinRoom(p, s) \/ StartGame(s, p)
                          \/ \E s \in RoomIds \ {Mine} : StartRoom(s)
             Apart == /\ Mine' = Mine /\ UNCHANGED <<misled, toServer, clientVars>>
                      /\ session' \in {0} \cup RoomIds /\ overs' \in 0..MaxEach /\ udp' = udp
                      /\ \/ toClient' = toClient
                         \/ \E m \in Answers : m.type = "countdown" /\ Tell(<<m>>)
  <1>4. ASSUME Elsewhere, Apart PROVE Aside /\ (TypeOK' => AppTypeOK')
    <2>1. toClient' \in Seq(Answers)
      BY <1>3, <1>4 DEF AppTypeOK
    <2>2. TypeOK' => AppTypeOK'
      BY <1>4, <2>1 DEF AppTypeOK, clientVars, menuVars, shownVars, chatVars
    <2>3. Mine \in Waiting => rooms'[Mine] # NoRoom /\ rooms'[Mine].status = "waiting"
      BY <1>4, GoesOnWaiting
    <2>4. Mine \in Waiting => Mine \in Waiting'
      BY <1>4, <2>3 DEF Waiting, Live
    <2> QED
      BY <1>3, <1>4, <2>2, <2>4 DEF Aside, Entered
  <1>5. session \in {0} \cup RoomIds /\ overs \in 0..MaxEach
    BY DEF AppTypeOK
  <1> HIDE DEF Apart, Elsewhere
  <1>6. CASE PeerActs
    <2>1. Apart
      BY <1>1, <1>2, <1>5, <1>6 DEF PeerActs, CreateRoom, JoinRoom, LeaveRoom, StartGame, Apart, Mine, datagrams
    <2>2. Elsewhere
      BY <1>1, <1>6 DEF PeerActs, Elsewhere
    <2> QED
      BY <1>4, <2>1, <2>2
  <1>7. CASE RoomsUpdate
    <2>1. CASE CleanupEmptyRooms /\ UNCHANGED <<session, toClient>>
      <3>1. Apart /\ Elsewhere
        BY <1>5, <1>7, <2>1 DEF RoomsUpdate, CleanupEmptyRooms, Apart, Elsewhere, Mine, datagrams
      <3> QED
        BY <1>4, <3>1
    <2>2. CASE \E r \in Live : CountdownTold(r) /\ UNCHANGED <<vars, session>>
      <3>1. Apart /\ Elsewhere
        BY <1>2, <1>5, <1>7, <2>2 DEF RoomsUpdate, vars, Live, Apart, Elsewhere, Mine, datagrams
      <3> QED
        BY <1>4, <3>1
    <2>3. ASSUME NEW r \in RoomIds, StartRoom(r),
                 IF playerRoom[Me] = r
                 THEN session' = r /\ Tell(<<Answer("start", r)>>)
                 ELSE UNCHANGED <<session, toClient>>
          PROVE  /\ \/ Aside
                    \/ /\ Mine = r /\ Tell(<<Answer("start", r)>>)
                       /\ UNCHANGED <<misled, toServer, clientVars>>
                 /\ TypeOK' => AppTypeOK'
      <3>1. CASE Mine # r
        <4>1. Mine' = Mine
          BY <2>3, <3>1, FirstInside
        <4>2. Apart
          BY <1>5, <1>7, <2>3, <3>1, <4>1 DEF RoomsUpdate, Apart, Mine, datagrams
        <4>3. Elsewhere
          BY <2>3, <3>1 DEF Elsewhere
        <4> QED
          BY <1>4, <4>2, <4>3
      <3>2. CASE Mine = r
        <4>1. Answer("start", r) \in Answers
          BY MessageTypes
        <4>2. /\ toClient' \in Seq(Answers) /\ session' = r /\ Tell(<<Answer("start", r)>>)
              /\ UNCHANGED <<misled, toServer, datagrams, clientVars>>
          BY <1>3, <1>7, <2>3, <3>2, <4>1 DEF RoomsUpdate, Mine
        <4>3. TypeOK' => AppTypeOK'
          BY <4>2 DEF AppTypeOK, clientVars, menuVars, shownVars, chatVars, datagrams
        <4> QED
          BY <3>2, <4>2, <4>3
      <3> QED
        BY <3>1, <3>2
    <2> QED
      BY <1>7, <2>1, <2>2, <2>3 DEF RoomsUpdate
  <1>8. CASE GameOver
    <2>1. overs' \in 0..MaxEach
      BY <1>5, <1>8 DEF GameOver
    <2>2. Apart /\ Elsewhere
      BY <1>8, <2>1 DEF GameOver, Apart, Elsewhere, Mine, vars
    <2> QED
      BY <1>4, <2>2
  <1> QED
    BY <1>6, <1>7, <1>8

------------------------------------------------------------------------------
(* The theorems                                                            *)

LEMMA AppInitInv == AppInit => AppIInv
  <1> SUFFICES ASSUME AppInit PROVE AppIInv
    OBVIOUS
  <1>1. IInv
    BY InitInv DEF AppInit
  <1>2. AppTypeOK
    <2>1. TypeOK
      BY <1>1 DEF IInv
    <2>2. toServer \in Seq(Requests) /\ toClient \in Seq(Answers)
      BY DEF AppInit
    <2>3. overs \in 0..MaxEach
      BY DEF AppInit
    <2> QED
      BY <2>1, <2>2, <2>3 DEF AppInit, AppTypeOK, Menus
  <1>3. Mine = 0 /\ 0 \notin Waiting /\ nextRoom \in Nat \ {0}
    BY DEF AppInit, Init, Mine, Waiting, Live
  <1>4. toServer = <<>> /\ toClient = <<>> /\ menu = "connection" /\ view = "menu" /\ wasInMenu
    BY DEF AppInit
  <1>5. Noted /\ Old /\ ChatFollows
    BY <1>3, <1>4, Silence DEF AppInit, Noted, Old, Given, ChatFollows, InLobby
  <1>6. Spoken /\ Honest
    BY <1>3, <1>4, Silence DEF Spoken, Honest, InLobby
  <1> QED
    BY <1>1, <1>2, <1>5, <1>6 DEF AppIInv, Flow

LEMMA AppNextInv == AppIInv /\ [AppNext]_appVars => AppIInv'
  <1> SUFFICES ASSUME AppIInv, [AppNext]_appVars PROVE AppIInv'
    OBVIOUS
  <1> USE DEF AppIInv
  <1>1. CASE UNCHANGED appVars
    <2>1. UNCHANGED vars /\ UNCHANGED <<session, misled, toServer, toClient, overs, udp, menu, listed, dialog,
                       roomShown, isHost, counting, known, roomId, view, wasInMenu, chatTo, strayed>>
      BY <1>1 DEF appVars, vars, serverVars, wires, datagrams, clientVars, menuVars, shownVars, chatVars
    <2>2. IInv'
      BY <2>1, NextInv
    <2>3. AppTypeOK'
      BY <2>1, <2>2 DEF AppTypeOK, IInv
    <2>4. Aside
      BY <2>1 DEF Aside, vars, clientVars, menuVars, shownVars, chatVars, Mine, Waiting, Live
    <2> QED
      BY <2>1, <2>2, <2>3, <2>4, AsideStep
  <1>2. CASE AppNext
    <2>1. [Next]_vars
      BY <1>2, RoomsMove
    <2>2. IInv' /\ TypeOK'
      <3>1. IInv'
        BY <2>1, NextInv
      <3> QED
        BY <3>1 DEF IInv
    <2>3. CASE User \/ LobbyRefresh
      <3>1. CASE Clicked
        BY <2>2, <3>1, ClickStep, ClickTypes
      <3>2. CASE Go("lobby", "main", <<Request("leave", roomId)>>)
        <4>1. toServer' \in Seq(Requests)
          <5>1. Request("leave", roomId) \in Requests
            BY MessageTypes DEF AppTypeOK
          <5> QED
            BY <3>2, <5>1, SendTypes DEF Go
        <4>2. AppTypeOK'
          BY <2>2, <3>2, <4>1 DEF Go, EnterScreen, AppTypeOK, Menus, serverVars, shownVars, datagrams
        <4> QED
          BY <2>2, <3>2, <4>2, LeaveStep
      <3>3. CASE BackToMenu
        <4>1. AppTypeOK'
          BY <2>2, <3>3 DEF BackToMenu, EnterScreen, AppTypeOK, Menus, serverVars, shownVars, wires, datagrams
        <4> QED
          BY <2>2, <3>3, <4>1, ScreenStep
      <3> QED
        BY <2>3, <3>1, <3>2, <3>3, UserMoves
    <2>4. CASE NoticeScreen
      <3>1. AppTypeOK'
        BY <2>2, <2>4 DEF NoticeScreen, AppTypeOK, serverVars, shownVars, wires, datagrams, menuVars
      <3> QED
        BY <2>2, <2>4, <3>1, ScreenStep
    <2>5. CASE ReceiveAnswer
      <3>1. AppTypeOK'
        BY <2>2, <2>5, ReceiveTypes
      <3>2. Flow'
        BY <2>5, PassMoves, PassStep, EnteredStep, ShowStep DEF ReceiveAnswer
      <3> QED
        BY <2>2, <3>1, <3>2
    <2>6. CASE Serve
      <3>1. AppTypeOK' /\ (Aside \/ LetIn \/ LetOut)
        BY <2>2, <2>6, ServeMoves
      <3> QED
        BY <2>1, <2>2, <3>1, AsideStep, LetInStep, LetOutStep
    <2>7. CASE PeerActs \/ RoomsUpdate \/ GameOver
      <3>1. AppTypeOK'
        BY <2>2, <2>7, OtherMoves
      <3>2. Flow'
        BY <2>1, <2>7, OtherMoves, AsideStep, BeginStep
      <3> QED
        BY <2>2, <3>1, <3>2
    <2> QED
      BY <1>2, <2>3, <2>4, <2>5, <2>6, <2>7 DEF AppNext, Server
  <1> QED
    BY <1>1, <1>2

LEMMA AlwaysAppIInv == AppSpec => []AppIInv
  BY AppInitInv, AppNextInv, PTL DEF AppSpec

\* Every screen, request and answer of the client keeps its type.
THEOREM AppTypeCorrect == AppSpec => []AppTypeOK
  BY AlwaysAppIInv, PTL DEF AppIInv

\* However answers, games and their ends cross each other, or ends are lost, a
\* quiet client shows the lobby of the room it is in, but for the two cases
\* LobbyShown names.
THEOREM AppLobbyShown == AppSpec => []LobbyShown
  <1>1. AppIInv => LobbyShown
    <2> SUFFICES ASSUME AppIInv, Quiet, view = "menu"
                 PROVE  /\ menu = "lobby" => misled \/ (Mine = roomShown /\ roomShown = roomId)
                        /\ menu # "lobby" /\ Mine \in Waiting => strayed # "no"
      BY DEF LobbyShown, Mine
    <2>1. ~Starting /\ ~Leaving /\ \A r : ~FreshIn(toClient, r)
      BY Silence DEF Quiet, Starting, Leaving
    <2> QED
      BY <2>1 DEF AppIInv, Flow, Noted, Spoken, Honest, InLobby
  <1> QED
    BY <1>1, AlwaysAppIInv, PTL

\* Chat goes to the screen the player looks at, in whatever order answers and
\* the ends of games come and however often an end is lost or doubled.
THEOREM AppChatShown == AppSpec => []ChatShown
  <1>1. AppIInv => ChatShown
    BY DEF AppIInv, Flow, ChatFollows, InLobby, ChatShown, AppTypeOK
  <1> QED
    BY <1>1, AlwaysAppIInv, PTL

\* The requests of a client and of anybody else are operations of the rooms.
THEOREM AppRespectsRooms == AppSpec => Spec
  <1>1. AppInit => Init
    BY DEF AppInit
  <1>2. AppIInv /\ [AppNext]_appVars => [Next]_vars
    BY RoomsMove DEF AppIInv, appVars, serverVars, vars
  <1> QED
    BY <1>1, <1>2, AlwaysAppIInv, PTL DEF AppSpec, Spec

\* Behind the client's screens, a player is in at most one room, no countdown
\* ends on an empty one and nobody enters a game that has begun.
THEOREM AppRoomsSound ==
    AppSpec => [](MembershipAgrees /\ CountdownHasPlayers) /\ NoEntryOnceStarted
  BY AppRespectsRooms, RoomsMembership, RoomsCountdown, RoomsStayStarted, PTL
------------------------------------------------------------------------------
(* The change of level behind the fade                                     *)

USE FadeBounds

\* The level the campaign is about to be at
Announced == IF next # 0 THEN next ELSE level

\* The announcements that no game is to follow
Heralds(s) ==
    {i \in DOMAIN s : s[i].type = "transition" /\ \A j \in DOMAIN s : i < j => s[j].type # "start"}

\* The map and the pending level when these announcements will be taken
From == IF Beginning THEN 1 ELSE map
Due == IF Beginning THEN 0 ELSE pendingLevel

\* What is pending makes the screen dark, and a screen that gets dark for no
\* level does so for a respawn
Curtain ==
    /\ pendingLevel # 0 \/ pendingRespawn => fade = 1
    /\ fade = 1 /\ pendingLevel = 0 => pendingRespawn /\ hurried

Course == next # 0 => next = level + 1

\* The levels of the map, of what is pending and of the announcements rise to
\* the announced one
Rising ==
    /\ From <= Announced /\ Due <= Announced
    /\ Due # 0 => From < Due
    /\ \A i \in Heralds(notices) :
          From < notices[i].level /\ Due < notices[i].level /\ notices[i].level <= Announced
    /\ \A i, j \in Heralds(notices) : i < j => notices[i].level < notices[j].level

\* The last of them is that level
ReachesAnnounced ==
    /\ \A i \in Heralds(notices) : notices[i].level = Announced \/ \E j \in Heralds(notices) : i < j
    /\ Heralds(notices) = {} => Announced = IF Due # 0 THEN Due ELSE From

\* Nothing makes the client believe that a level is loaded before it is
NotReadyYet ==
    next # 0 =>
        /\ \A i \in Heralds(notices), j \in DOMAIN notices :
              i < j /\ notices[i].level = next => notices[j].type # "ready"
        /\ Heralds(notices) = {} =>
              /\ \A j \in DOMAIN notices : notices[j].type # "ready"
              /\ ~ready /\ (fade = 3 => hurried)

Faultless == ~disturbed /\ running

FadeIInv ==
    /\ FadeTypeOK
    /\ Curtain
    /\ Course
    /\ Faultless => Rising /\ ReachesAnnounced /\ NotReadyYet

\* The type invariant, Booleans apart
Flags ==
    /\ running \in BOOLEAN /\ cut \in BOOLEAN /\ playing \in BOOLEAN
    /\ pendingRespawn \in BOOLEAN /\ ready \in BOOLEAN /\ hurried \in BOOLEAN
    /\ disturbed \in BOOLEAN
Marks ==
    /\ level \in Levels /\ map \in Levels
    /\ next \in {0} \cup Levels /\ pendingLevel \in {0} \cup Levels
    /\ notices \in Seq(Notices)
    /\ link \in {"closed", "shaking", "lost", "open"}
    /\ fade \in 0..3

LEMMA TypeInParts == FadeTypeOK <=> Flags /\ Marks
  BY DEF FadeTypeOK, Flags, Marks

LEMMA FadeInitInv == FadeInit => FadeIInv
  <1> SUFFICES ASSUME FadeInit PROVE FadeIInv
    OBVIOUS
  <1>1. 1 \in Levels /\ <<>> \in Seq(Notices)
    BY DEF Levels
  <1>2. Flags
    BY DEF FadeInit, Flags
  <1>3. Marks
    BY <1>1 DEF FadeInit, Marks
  <1>4. Curtain /\ Course /\ ~Faultless
    BY DEF FadeInit, Curtain, Course, Faultless
  <1> QED
    BY <1>2, <1>3, <1>4, TypeInParts DEF FadeIInv

LEMMA NoticeTypes ==
    /\ \A n \in Levels : Notice("transition", n) \in Notices /\ Notice("ready", n) \in Notices
    /\ \A t \in {"respawn", "start", "over"} : Notice(t, 0) \in Notices
  BY DEF Notice, Notices

LEMMA HeraldLevels ==
    ASSUME NEW s \in Seq(Notices)
    PROVE  \A i \in Heralds(s) : i \in Nat /\ i \in DOMAIN s /\ s[i].level \in Levels
  <1>1. \A i \in DOMAIN s : s[i] \in Notices /\ i \in Nat
    OBVIOUS
  <1> QED
    BY <1>1 DEF Heralds, Notices

LEMMA HeraldsAtEnd ==
    ASSUME NEW s \in Seq(Notices), NEW m \in Notices
    PROVE  LET e == s \o <<m>>
           IN  /\ StartIn(e) <=> StartIn(s) \/ m.type = "start"
               /\ m.type = "start" => Heralds(e) = {}
               /\ m.type = "transition" => Heralds(e) = Heralds(s) \cup {Len(s) + 1}
               /\ m.type \notin {"start", "transition"} => Heralds(e) = Heralds(s)
  <1> DEFINE e == s \o <<m>>
             n == Len(s) + 1
  <1>1. /\ \A i \in DOMAIN s : i \in DOMAIN e /\ e[i] = s[i] /\ i < n
        /\ e[n] = m /\ n \in DOMAIN e
        /\ \A i \in DOMAIN e : i \in DOMAIN s \/ i = n
        /\ \A i \in DOMAIN e : ~(n < i)
    BY AtEnd
  <1> HIDE DEF e, n
  <1>2. StartIn(e) <=> StartIn(s) \/ m.type = "start"
    BY <1>1 DEF StartIn
  <1>3. ASSUME m.type = "start" PROVE Heralds(e) = {}
    BY <1>1, <1>3 DEF Heralds
  <1>4. ASSUME m.type # "start", NEW i \in DOMAIN s
        PROVE  i \in Heralds(e) <=> i \in Heralds(s)
    BY <1>1, <1>4 DEF Heralds
  <1>5. n \in Heralds(e) <=> m.type = "transition"
    BY <1>1 DEF Heralds
  <1>6. Heralds(e) \subseteq DOMAIN s \cup {n} /\ Heralds(s) \subseteq DOMAIN s
    BY <1>1 DEF Heralds
  <1>7. m.type = "transition" => Heralds(e) = Heralds(s) \cup {n}
    BY <1>4, <1>5, <1>6
  <1>8. m.type \notin {"start", "transition"} => Heralds(e) = Heralds(s)
    BY <1>4, <1>5, <1>6
  <1> QED
    BY <1>2, <1>3, <1>7, <1>8 DEF e, n

LEMMA HeraldsAtHead ==
    ASSUME NEW s \in Seq(Notices), s # <<>>
    PROVE  LET h == Head(s)
               t == Tail(s)
           IN  /\ StartIn(s) <=> h.type = "start" \/ StartIn(t)
               /\ \A i \in Heralds(t) : i + 1 \in Heralds(s) /\ t[i] = s[i + 1]
               /\ \A i \in Heralds(s) : i = 1 \/ (i - 1 \in Heralds(t) /\ t[i - 1] = s[i])
               /\ 1 \in Heralds(s) <=> h.type = "transition" /\ ~StartIn(t)
  <1> DEFINE h == Head(s)
             t == Tail(s)
  <1>1. /\ h = s[1] /\ 1 \in DOMAIN s
        /\ \A i \in DOMAIN t : i + 1 \in DOMAIN s /\ t[i] = s[i + 1]
        /\ \A i \in DOMAIN s : i = 1 \/ (i - 1 \in DOMAIN t /\ t[i - 1] = s[i])
        /\ \A i \in DOMAIN s : i \in Nat /\ 1 <= i
        /\ \A i \in DOMAIN t : i \in Nat /\ 1 <= i
    BY AtHead
  <1> HIDE DEF h, t
  <1>2. StartIn(s) <=> h.type = "start" \/ StartIn(t)
    BY <1>1 DEF StartIn
  <1>3. ASSUME NEW i \in Heralds(t) PROVE i + 1 \in Heralds(s) /\ t[i] = s[i + 1]
    <2>1. /\ i \in DOMAIN t /\ i \in Nat /\ t[i].type = "transition"
          /\ \A j \in DOMAIN t : i < j => t[j].type # "start"
      BY <1>1 DEF Heralds
    <2>2. ASSUME NEW j \in DOMAIN s, i + 1 < j PROVE s[j].type # "start"
      <3>1. j - 1 \in DOMAIN t /\ t[j - 1] = s[j] /\ i < j - 1
        BY <1>1, <2>1, <2>2
      <3> QED
        BY <2>1, <3>1
    <2> QED
      BY <1>1, <2>1, <2>2 DEF Heralds
  <1>4. ASSUME NEW i \in Heralds(s), i # 1 PROVE i - 1 \in Heralds(t) /\ t[i - 1] = s[i]
    <2>1. /\ i - 1 \in DOMAIN t /\ t[i - 1] = s[i] /\ i \in Nat /\ s[i].type = "transition"
          /\ \A j \in DOMAIN s : i < j => s[j].type # "start"
      BY <1>1, <1>4 DEF Heralds
    <2>2. ASSUME NEW j \in DOMAIN t, i - 1 < j PROVE t[j].type # "start"
      BY <1>1, <2>1, <2>2
    <2> QED
      BY <2>1, <2>2 DEF Heralds
  <1>5. 1 \in Heralds(s) <=> h.type = "transition" /\ ~StartIn(t)
    <2>1. StartIn(t) <=> \E j \in DOMAIN s : 1 < j /\ s[j].type = "start"
      BY <1>1 DEF StartIn
    <2> QED
      BY <1>1, <2>1 DEF Heralds
  <1> QED
    BY <1>2, <1>3, <1>4, <1>5 DEF h, t

\* What the rest of the invariant speaks of is of these types.
LEMMA Numbers ==
    ASSUME FadeTypeOK
    PROVE  /\ level \in Nat /\ next \in Nat /\ map \in Nat /\ pendingLevel \in Nat
           /\ 1 <= level /\ 1 <= map
           /\ Announced \in Nat /\ From \in Nat /\ Due \in Nat
           /\ \A i \in Heralds(notices) : i \in Nat /\ i \in DOMAIN notices
                                          /\ notices[i].level \in Nat /\ 1 <= notices[i].level
  <1>1. level \in Levels /\ map \in Levels /\ next \in {0} \cup Levels /\ pendingLevel \in {0} \cup Levels
    BY DEF FadeTypeOK
  <1>2. /\ level \in Nat /\ next \in Nat /\ map \in Nat /\ pendingLevel \in Nat
        /\ 1 <= level /\ 1 <= map
    BY <1>1 DEF Levels
  <1>3. \A i \in Heralds(notices) : i \in Nat /\ i \in DOMAIN notices /\ notices[i].level \in Levels
    BY HeraldLevels DEF FadeTypeOK
  <1> QED
    BY <1>2, <1>3 DEF Announced, From, Due, Levels

\* A datagram that is not sent, or is about the network, ends what is promised.
LEMMA PromiseEnds ==
    ASSUME FadeTypeOK', Curtain', Course', ~Faultless'
    PROVE  FadeIInv'
  BY DEF FadeIInv

LEMMA BroadcastStep ==
    ASSUME FadeIInv, NEW notice \in Notices, Broadcast(notice),
           FadeTypeOK', Course', UNCHANGED running,
           \/ notice.type = "respawn" /\ UNCHANGED <<next, level>>
           \/ notice.type = "ready" /\ next # 0 /\ next' = 0 /\ level' = next
           \/ notice.type = "transition" /\ next = 0 /\ next' = notice.level /\ level' = level
              /\ notice.level = level + 1
    PROVE  FadeIInv'
  <1>1. Curtain' /\ UNCHANGED <<map, pendingLevel, fade, ready, hurried>>
    BY DEF FadeIInv, Curtain, Broadcast, clientSide, curtainVars
  <1> SUFFICES ASSUME Faultless' PROVE Rising' /\ ReachesAnnounced' /\ NotReadyYet'
    BY <1>1 DEF FadeIInv
  <1>2. Rising /\ ReachesAnnounced /\ NotReadyYet /\ notices' = notices \o <<notice>> /\ notices \in Seq(Notices)
    <2>1. ~disturbed /\ link = "open" /\ running
      BY Zenon DEF Faultless, Broadcast
    <2>2. notices \in Seq(Notices) /\ notices' = Append(notices, notice)
      BY <2>1 DEF FadeIInv, Broadcast, FadeTypeOK
    <2> QED
      BY <2>1, <2>2 DEF Faultless, FadeIInv
  <1> DEFINE z == Len(notices) + 1
  <1>3. /\ z \in DOMAIN notices' /\ notices'[z] = notice /\ z \in Nat
        /\ \A i \in DOMAIN notices : notices'[i] = notices[i] /\ i < z
        /\ \A i \in DOMAIN notices' : i \in DOMAIN notices \/ i = z
        /\ \A i \in DOMAIN notices' : i \in Nat
    BY <1>2, AtEnd
  <1>4. /\ Beginning' <=> Beginning
        /\ notice.type = "transition" => Heralds(notices') = Heralds(notices) \cup {z}
        /\ notice.type # "transition" => Heralds(notices') = Heralds(notices)
    BY <1>2, HeraldsAtEnd DEF Beginning, StartIn
  <1>5. From' = From /\ Due' = Due
    BY <1>1, <1>4 DEF From, Due
  <1>6. /\ level \in Nat /\ next \in Nat /\ From \in Nat /\ Due \in Nat /\ 1 <= level
        /\ \A i \in Heralds(notices) : i \in Nat /\ i \in DOMAIN notices /\ notices[i].level \in Nat
    BY Numbers DEF FadeIInv
  <1> HIDE DEF z
  <1>7. CASE notice.type = "respawn" /\ UNCHANGED <<next, level>>
    <2>1. Heralds(notices') = Heralds(notices) /\ Announced' = Announced
      BY <1>4, <1>7 DEF Announced
    <2>2. Rising' /\ ReachesAnnounced'
      BY <1>2, <1>3, <1>5, <1>6, <2>1 DEF Rising, ReachesAnnounced
    <2>3. NotReadyYet'
      BY <1>1, <1>2, <1>3, <1>6, <1>7, <2>1 DEF NotReadyYet
    <2> QED
      BY <2>2, <2>3
  <1>8. CASE notice.type = "ready" /\ next # 0 /\ next' = 0 /\ level' = next
    <2>1. Heralds(notices') = Heralds(notices) /\ Announced' = Announced
      BY <1>4, <1>8 DEF Announced
    <2>2. Rising' /\ ReachesAnnounced'
      BY <1>2, <1>3, <1>5, <1>6, <2>1 DEF Rising, ReachesAnnounced
    <2> QED
      BY <1>8, <2>2 DEF NotReadyYet
  <1>9. CASE notice.type = "transition" /\ next = 0 /\ next' = notice.level /\ level' = level
             /\ notice.level = level + 1
    <2>1. /\ Heralds(notices') = Heralds(notices) \cup {z}
          /\ Announced = level /\ Announced' = level + 1 /\ next' = level + 1
          /\ notices'[z].level = level + 1
      BY <1>3, <1>4, <1>6, <1>9 DEF Announced
    <2>2. From < level + 1 /\ Due < level + 1
      BY <1>2, <1>6, <2>1 DEF Rising
    <2>3. Rising'
      <3>1. From <= Announced' /\ Due <= Announced' /\ (Due # 0 => From < Due)
        BY <1>2, <1>6, <2>1 DEF Rising
      <3>2. \A i \in Heralds(notices') :
              From < notices'[i].level /\ Due < notices'[i].level /\ notices'[i].level <= Announced'
        <4> TAKE i \in Heralds(notices')
        <4>1. CASE i = z
          BY <1>6, <2>1, <2>2, <4>1
        <4>2. CASE i \in Heralds(notices)
          BY <1>2, <1>3, <1>6, <2>1, <4>2 DEF Rising
        <4> QED
          BY <2>1, <4>1, <4>2
      <3>3. \A i, j \in Heralds(notices') : i < j => notices'[i].level < notices'[j].level
        <4> TAKE i, j \in Heralds(notices')
        <4> HAVE i < j
        <4>1. i \in Heralds(notices) /\ notices'[i] = notices[i]
          <5>1. j = z \/ j < z
            BY <1>3, <1>6, <2>1
          <5>2. i # z
            BY <1>3, <1>6, <2>1, <5>1
          <5> QED
            BY <1>3, <1>6, <2>1, <5>2
        <4>2. CASE j = z
          <5>1. notices[i].level <= Announced
            BY <1>2, <4>1 DEF Rising
          <5> QED
            BY <1>6, <2>1, <4>1, <4>2, <5>1
        <4>3. CASE j \in Heralds(notices)
          BY <1>2, <1>3, <1>6, <4>1, <4>3 DEF Rising
        <4> QED
          BY <2>1, <4>2, <4>3
      <3> QED
        BY <1>5, <3>1, <3>2, <3>3 DEF Rising
    <2>4. ReachesAnnounced'
      BY <1>3, <1>6, <2>1 DEF ReachesAnnounced
    <2>5. NotReadyYet'
      <3>1. ASSUME NEW i \in Heralds(notices'), NEW j \in DOMAIN notices', i < j,
                   notices'[i].level = next'
            PROVE  notices'[j].type # "ready"
        <4>1. CASE i = z
          BY <1>3, <3>1, <4>1
        <4>2. CASE i \in Heralds(notices)
          BY <1>2, <1>3, <1>6, <2>1, <3>1, <4>2 DEF Rising
        <4> QED
          BY <2>1, <4>1, <4>2
      <3> QED
        BY <2>1, <3>1 DEF NotReadyYet
    <2> QED
      BY <2>3, <2>4, <2>5
  <1> QED
    BY <1>7, <1>8, <1>9

\* What the session does to the notices under way.
LEMMA SessionStepInv == FadeIInv /\ SessionStep => FadeIInv'
  <1> SUFFICES ASSUME FadeIInv, SessionStep PROVE FadeIInv'
    OBVIOUS
  <1> USE DEF FadeIInv
  <1>1. /\ Flags /\ Marks /\ notices \in Seq(Notices)
        /\ level \in Nat /\ next \in Nat /\ 1 \in Levels
    BY Numbers, TypeInParts DEF Marks, Levels
  <1>2. CASE BeginGame
    <2>1. /\ notices' = notices \o <<Notice("start", 0)>> /\ running' = TRUE /\ level' = 1 /\ next' = 0
          /\ cut' = (cut \/ next # 0)
          /\ UNCHANGED <<link, playing, map, fade, pendingLevel, pendingRespawn, ready, hurried, disturbed>>
      BY <1>1, <1>2 DEF BeginGame, clientSide, curtainVars
    <2>2. Notice("start", 0) \in Notices /\ Notice("start", 0).type = "start"
      BY NoticeTypes DEF Notice
    <2>3. FadeTypeOK'
      <3>1. notices' \in Seq(Notices)
        BY <1>1, <2>1, <2>2
      <3> QED
        BY <1>1, <2>1, <3>1, TypeInParts DEF FadeTypeOK, Flags, Marks
    <2>4. Curtain' /\ Course'
      BY <2>1 DEF Curtain, Course
    <2>5. Beginning' /\ Heralds(notices') = {}
      BY <1>1, <2>1, <2>2, HeraldsAtEnd DEF Beginning, StartIn
    <2> QED
      BY <2>1, <2>3, <2>4, <2>5 DEF Rising, ReachesAnnounced, NotReadyYet, Announced, From, Due
  <1>3. ASSUME NEW notice \in Notices, Broadcast(notice)
        PROVE  /\ notices' \in Seq(Notices) /\ disturbed' \in BOOLEAN
               /\ UNCHANGED <<link, playing, map, fade, pendingLevel, pendingRespawn, ready, hurried>>
               /\ Curtain'
    BY <1>1, <1>3 DEF Broadcast, clientSide, curtainVars, Curtain, Flags
  <1>4. CASE EndGame
    <2> DEFINE notice == Notice("over", 0)
    <2>1. Broadcast(notice) /\ running' = FALSE /\ cut' = (cut \/ next # 0) /\ UNCHANGED <<level, next>>
      BY <1>4 DEF EndGame
    <2>2. notice \in Notices
      BY NoticeTypes
    <2> HIDE DEF notice
    <2>3. FadeTypeOK'
      BY <1>1, <1>3, <2>1, <2>2, TypeInParts DEF FadeTypeOK, Flags, Marks
    <2> QED
      BY <1>3, <2>1, <2>2, <2>3, PromiseEnds DEF Course, Faultless
  <1>5. CASE AnnounceLevel
    <2> DEFINE notice == Notice("transition", level + 1)
    <2>1. /\ next = 0 /\ level < LastLevel /\ next' = level + 1 /\ cut' = FALSE
          /\ Broadcast(notice) /\ UNCHANGED <<running, level>>
      BY <1>5 DEF AnnounceLevel
    <2>2. level + 1 \in Levels
      BY <1>1, <2>1 DEF Levels, Marks
    <2>3. notice \in Notices /\ notice.type = "transition" /\ notice.level = level + 1
      BY <2>2, NoticeTypes DEF Notice
    <2> HIDE DEF notice
    <2>4. FadeTypeOK'
      BY <1>1, <1>3, <2>1, <2>2, <2>3, TypeInParts DEF FadeTypeOK, Flags, Marks
    <2>5. Course'
      BY <2>1 DEF Course
    <2> QED
      BY <2>1, <2>3, <2>4, <2>5, BroadcastStep
  <1>6. CASE LoadLevel
    <2> DEFINE notice == Notice("ready", next)
    <2>1. /\ next # 0 /\ next' = 0 /\ level' = next
          /\ Broadcast(notice) /\ UNCHANGED <<running, cut>>
      BY <1>6 DEF LoadLevel
    <2>2. next \in Levels
      BY <1>1, <2>1 DEF Marks
    <2>3. notice \in Notices /\ notice.type = "ready"
      BY <2>2, NoticeTypes DEF Notice
    <2> HIDE DEF notice
    <2>4. FadeTypeOK'
      BY <1>1, <1>3, <2>1, <2>2, <2>3, TypeInParts DEF FadeTypeOK, Flags, Marks
    <2>5. Course'
      BY <2>1 DEF Course
    <2> QED
      BY <2>1, <2>3, <2>4, <2>5, BroadcastStep
  <1>7. CASE Respawn
    <2> DEFINE notice == Notice("respawn", 0)
    <2>1. Broadcast(notice) /\ UNCHANGED <<running, level, next, cut>>
      BY <1>7 DEF Respawn, sessionSide
    <2>2. notice \in Notices /\ notice.type = "respawn"
      BY NoticeTypes DEF Notice
    <2> HIDE DEF notice
    <2>3. FadeTypeOK'
      BY <1>1, <1>3, <2>1, <2>2, TypeInParts DEF FadeTypeOK, Flags, Marks
    <2>4. Course'
      BY <2>1 DEF Course
    <2> QED
      BY <2>1, <2>2, <2>3, <2>4, BroadcastStep
  <1>8. CASE Handshake
    <2>1. /\ link' = "open"
          /\ UNCHANGED <<running, level, next, cut, notices, playing, map, fade, pendingLevel,
                         pendingRespawn, ready, hurried, disturbed>>
      BY <1>8 DEF Handshake, sessionSide, clientSide, curtainVars
    <2>2. FadeTypeOK'
      BY <1>1, <2>1, TypeInParts DEF FadeTypeOK, Flags, Marks
    <2>3. From' = From /\ Due' = Due /\ Announced' = Announced
      BY <2>1 DEF From, Due, Beginning, Announced
    <2> QED
      BY <2>1, <2>2, <2>3 DEF Curtain, Course, Faultless, Rising, ReachesAnnounced, NotReadyYet
  <1> QED
    BY <1>2, <1>4, <1>5, <1>6, <1>7, <1>8 DEF SessionStep

LEMMA FaultStepInv == FadeIInv /\ Fault => FadeIInv'
  <1> SUFFICES ASSUME FadeIInv, Fault PROVE FadeIInv'
    OBVIOUS
  <1>1. Flags /\ Marks /\ notices \in Seq(Notices)
    BY TypeInParts DEF FadeIInv, FadeTypeOK
  <1>2. /\ disturbed' = TRUE /\ link' \in {link, "lost"}
        /\ UNCHANGED <<running, level, next, cut, playing, map, fade, pendingLevel, pendingRespawn,
                       ready, hurried>>
    BY DEF Fault, sessionSide, clientSide, curtainVars
  <1>3. notices' \in Seq(Notices)
    <2>1. CASE notices # <<>> /\ notices' = Tail(notices)
      BY <1>1, <2>1
    <2>2. CASE notices # <<>> /\ notices' = Append(notices, Head(notices))
      BY <1>1, <2>2
    <2>3. ASSUME NEW i \in 1..(Len(notices) - 1),
                 notices' = [notices EXCEPT ![i] = notices[i + 1], ![i + 1] = notices[i]]
          PROVE  notices' \in Seq(Notices)
      <3>1. /\ Len(notices) \in Nat /\ i \in DOMAIN notices /\ i + 1 \in DOMAIN notices
            /\ notices \in [1..Len(notices) -> Notices]
        BY <1>1
      <3>2. notices' \in [1..Len(notices) -> Notices]
        BY <2>3, <3>1
      <3> QED
        BY <3>1, <3>2
    <2> QED
      BY <1>1, <2>1, <2>2, <2>3 DEF Fault
  <1>4. FadeTypeOK'
    BY <1>1, <1>2, <1>3, TypeInParts DEF FadeTypeOK, Flags, Marks
  <1> QED
    BY <1>2, <1>4, PromiseEnds DEF FadeIInv, Curtain, Course, Faultless

\* The oldest notice is taken.
LEMMA NoticedStep ==
    ASSUME FadeTypeOK, NEW t, Noticed(t)
    PROVE  /\ notices[1] \in Notices /\ notices[1] = Head(notices) /\ notices[1].type = t
           /\ 1 \in DOMAIN notices
           /\ notices' \in Seq(Notices)
           /\ UNCHANGED <<running, level, next, cut>> /\ Announced' = Announced
           /\ \A i \in DOMAIN notices' : i \in Nat /\ 1 <= i /\ i + 1 \in DOMAIN notices
                                         /\ notices'[i] = notices[i + 1]
           /\ \A i \in DOMAIN notices : /\ i \in Nat
                                        /\ i = 1 \/ (i - 1 \in DOMAIN notices' /\ notices'[i - 1] = notices[i])
           /\ Beginning <=> t = "start" \/ Beginning'
           /\ \A i \in Heralds(notices') : i + 1 \in Heralds(notices)
           /\ \A i \in Heralds(notices) : i = 1 \/ i - 1 \in Heralds(notices')
           /\ 1 \in Heralds(notices) <=> t = "transition" /\ ~Beginning'
           /\ \A i \in Heralds(notices') : i \in DOMAIN notices' /\ notices'[i].level \in Nat /\ 1 <= notices'[i].level
  <1>1. notices \in Seq(Notices) /\ notices # <<>> /\ notices' = Tail(notices) /\ Head(notices).type = t
    BY DEF FadeTypeOK, Noticed
  <1>2. /\ notices[1] \in Notices /\ notices[1] = Head(notices) /\ 1 \in DOMAIN notices
        /\ notices' \in Seq(Notices)
        /\ \A i \in DOMAIN notices' : i \in Nat /\ 1 <= i /\ i + 1 \in DOMAIN notices
                                      /\ notices'[i] = notices[i + 1]
        /\ \A i \in DOMAIN notices : /\ i \in Nat
                                     /\ i = 1 \/ (i - 1 \in DOMAIN notices' /\ notices'[i - 1] = notices[i])
    BY <1>1, AtHead
  <1>3. /\ Beginning <=> t = "start" \/ Beginning'
        /\ \A i \in Heralds(notices') : i + 1 \in Heralds(notices)
        /\ \A i \in Heralds(notices) : i = 1 \/ i - 1 \in Heralds(notices')
        /\ 1 \in Heralds(notices) <=> t = "transition" /\ ~Beginning'
    BY <1>1, HeraldsAtHead DEF Beginning, StartIn
  <1>4. \A i \in Heralds(notices') : i \in DOMAIN notices' /\ notices'[i].level \in Nat /\ 1 <= notices'[i].level
    BY <1>2, HeraldLevels DEF Levels
  <1>5. UNCHANGED <<running, level, next, cut>> /\ Announced' = Announced
    BY DEF Noticed, sessionSide, Announced
  <1> QED
    BY <1>1, <1>2, <1>3, <1>4, <1>5

\* Any notice but an announcement of the game to be played leaves the promises alone.
LEMMA PassedStep ==
    ASSUME FadeIInv, NEW t, Noticed(t), t # "transition" \/ Beginning',
           Rising, ReachesAnnounced, NotReadyYet, From' = From, Due' = Due,
           next # 0 /\ Heralds(notices) = {} /\ t # "ready" => ~ready' /\ (fade' = 3 => hurried')
    PROVE  Rising' /\ ReachesAnnounced' /\ NotReadyYet'
  <1>1. /\ notices[1].type = t /\ 1 \in DOMAIN notices
        /\ next' = next /\ Announced' = Announced
        /\ \A i \in DOMAIN notices' : i \in Nat /\ 1 <= i /\ i + 1 \in DOMAIN notices
                                      /\ notices'[i] = notices[i + 1]
        /\ \A i \in Heralds(notices') : i + 1 \in Heralds(notices)
        /\ \A i \in Heralds(notices) : i # 1 /\ i - 1 \in Heralds(notices')
        /\ \A i \in Heralds(notices) : i \in Nat
        /\ \A i \in Heralds(notices') : i \in DOMAIN notices'
    BY NoticedStep, Numbers DEF FadeIInv
  <1>2. Rising'
    BY <1>1 DEF Rising
  <1>3. Heralds(notices') = {} <=> Heralds(notices) = {}
    BY <1>1
  <1>4. ReachesAnnounced'
    <2>1. ASSUME NEW i \in Heralds(notices')
          PROVE  notices'[i].level = Announced \/ \E j \in Heralds(notices') : i < j
      <3>1. i \in Nat /\ i + 1 \in Heralds(notices) /\ notices'[i] = notices[i + 1]
        BY <1>1
      <3>2. ASSUME NEW k \in Heralds(notices), i + 1 < k
            PROVE  \E j \in Heralds(notices') : i < j
        <4>1. k - 1 \in Heralds(notices') /\ i < k - 1
          BY <1>1, <3>1, <3>2
        <4> QED
          BY <4>1
      <3> QED
        BY <3>1, <3>2 DEF ReachesAnnounced
    <2> QED
      BY <1>1, <1>3, <2>1 DEF ReachesAnnounced
  <1>5. ASSUME next # 0 PROVE NotReadyYet'
    <2>1. \A i \in Heralds(notices'), j \in DOMAIN notices' :
              i < j /\ notices'[i].level = next => notices'[j].type # "ready"
      BY <1>1, <1>5 DEF NotReadyYet
    <2>2. ASSUME Heralds(notices) = {}
          PROVE  /\ \A j \in DOMAIN notices' : notices'[j].type # "ready"
                 /\ ~ready' /\ (fade' = 3 => hurried')
      <3>1. \A j \in DOMAIN notices : notices[j].type # "ready"
        BY <1>5, <2>2 DEF NotReadyYet
      <3> QED
        BY <1>1, <1>5, <2>2, <3>1
    <2> QED
      BY <1>1, <1>3, <2>1, <2>2 DEF NotReadyYet
  <1> QED
    BY <1>1, <1>2, <1>4, <1>5 DEF NotReadyYet

\* An announcement of the game to be played becomes what is pending.
LEMMA HeraldStep ==
    ASSUME FadeIInv, OnTransition, ~Beginning', Rising, ReachesAnnounced, NotReadyYet
    PROVE  Rising' /\ ReachesAnnounced' /\ NotReadyYet'
  <1>1. Noticed("transition") /\ FadeTypeOK
    BY DEF OnTransition, FadeIInv
  <1> DEFINE m == notices[1].level
  <1>2. /\ next' = next /\ Announced' = Announced /\ ~Beginning
        /\ \A i \in DOMAIN notices' : i \in Nat /\ 1 <= i /\ i + 1 \in DOMAIN notices
                                      /\ notices'[i] = notices[i + 1]
        /\ \A i \in DOMAIN notices : i \in Nat
        /\ \A i \in DOMAIN notices : i = 1 \/ (i - 1 \in DOMAIN notices' /\ notices'[i - 1] = notices[i])
        /\ \A i \in Heralds(notices') : i + 1 \in Heralds(notices)
        /\ \A i \in Heralds(notices) : i = 1 \/ i - 1 \in Heralds(notices')
        /\ 1 \in Heralds(notices)
        /\ \A i \in Heralds(notices') : i \in DOMAIN notices'
        /\ notices[1] = Head(notices) /\ 1 \in DOMAIN notices /\ notices[1].type = "transition"
    BY <1>1, NoticedStep
  <1>3. /\ From' = From /\ Due' = m /\ ready' = FALSE /\ fade' = 1
        /\ From \in Nat /\ m \in Nat /\ 1 <= m /\ Announced \in Nat
        /\ \A i \in Heralds(notices) : i \in Nat /\ notices[i].level \in Nat
    BY <1>1, <1>2, Numbers DEF OnTransition, From, Due
  <1> HIDE DEF m
  <1>4. From < m /\ m <= Announced
    BY <1>2 DEF Rising, m
  <1>5. \A i \in Heralds(notices') :
          /\ From < notices'[i].level /\ m < notices'[i].level /\ notices'[i].level <= Announced
    <2> TAKE i \in Heralds(notices')
    <2>1. i + 1 \in Heralds(notices) /\ notices'[i] = notices[i + 1] /\ 1 < i + 1
      BY <1>2
    <2> QED
      BY <1>2, <2>1 DEF Rising, m
  <1>6. \A i, j \in Heralds(notices') : i < j => notices'[i].level < notices'[j].level
    <2> TAKE i, j \in Heralds(notices')
    <2> HAVE i < j
    <2>1. /\ i + 1 \in Heralds(notices) /\ notices'[i] = notices[i + 1]
          /\ j + 1 \in Heralds(notices) /\ notices'[j] = notices[j + 1] /\ i + 1 < j + 1
      BY <1>2
    <2> QED
      BY <2>1 DEF Rising
  <1>7. Rising'
    BY <1>2, <1>3, <1>4, <1>5, <1>6 DEF Rising
  <1>8. ASSUME Heralds(notices') = {} PROVE m = Announced
    <2>1. ~\E j \in Heralds(notices) : 1 < j
      BY <1>2, <1>8
    <2> QED
      BY <1>2, <2>1 DEF ReachesAnnounced, m
  <1>9. ReachesAnnounced'
    <2>1. ASSUME NEW i \in Heralds(notices')
          PROVE  notices'[i].level = Announced \/ \E j \in Heralds(notices') : i < j
      <3>1. i \in Nat /\ i + 1 \in Heralds(notices) /\ notices'[i] = notices[i + 1]
        BY <1>2
      <3>2. ASSUME NEW k \in Heralds(notices), i + 1 < k
            PROVE  \E j \in Heralds(notices') : i < j
        <4>1. k - 1 \in Heralds(notices') /\ i < k - 1
          BY <1>2, <1>3, <3>1, <3>2
        <4> QED
          BY <4>1
      <3> QED
        BY <3>1, <3>2 DEF ReachesAnnounced
    <2> QED
      BY <1>2, <1>3, <1>8, <2>1 DEF ReachesAnnounced
  <1>10. ASSUME next # 0 PROVE NotReadyYet'
    <2>1. \A i \in Heralds(notices'), j \in DOMAIN notices' :
              i < j /\ notices'[i].level = next => notices'[j].type # "ready"
      BY <1>2, <1>10 DEF NotReadyYet
    <2>2. ASSUME Heralds(notices') = {}
          PROVE  \A j \in DOMAIN notices' : notices'[j].type # "ready"
      <3>1. m = next
        BY <1>8, <1>10, <2>2 DEF Announced
      <3>2. \A j \in DOMAIN notices : 1 < j => notices[j].type # "ready"
        BY <1>2, <1>10, <3>1 DEF NotReadyYet, m
      <3> QED
        BY <1>2, <3>2
    <2> QED
      BY <1>2, <1>3, <2>1, <2>2 DEF NotReadyYet
  <1> QED
    BY <1>2, <1>7, <1>9, <1>10 DEF NotReadyYet

\* Taking a notice leaves the client's own variables as the others say.
LEMMA ReceiveStepInv == FadeIInv /\ Receive => FadeIInv'
  <1> SUFFICES ASSUME FadeIInv, Receive PROVE FadeIInv'
    OBVIOUS
  <1>1. /\ FadeTypeOK /\ Flags /\ Marks /\ Curtain /\ Course /\ 1 \in Levels
        /\ level \in Nat /\ next \in Nat /\ 1 <= level
    BY TypeInParts, Numbers DEF FadeIInv, Levels
  <1>2. ASSUME NEW t, Noticed(t)
        PROVE  /\ notices' \in Seq(Notices) /\ notices[1] \in Notices /\ notices[1] = Head(notices)
               /\ notices[1].type = t
               /\ UNCHANGED <<running, level, next, cut>> /\ Course'
    BY <1>1, <1>2, NoticedStep DEF Course
  <1>3. CASE HandleGameStart
    <2>1. /\ Noticed("start") /\ link' \in {link, "shaking"} /\ playing' = TRUE /\ map' = 1
          /\ UNCHANGED <<fade, pendingLevel, pendingRespawn, ready, hurried>>
      BY <1>3 DEF HandleGameStart, curtainVars
    <2>2. disturbed' \in BOOLEAN /\ (~disturbed' => ~disturbed /\ pendingLevel = 0)
      BY <1>3 DEF HandleGameStart
    <2>3. /\ notices' \in Seq(Notices) /\ UNCHANGED <<running, level, next, cut>> /\ Course'
      BY <1>2, <2>1
    <2>4. FadeTypeOK' /\ Curtain'
      BY <1>1, <2>1, <2>2, <2>3, TypeInParts DEF FadeTypeOK, Flags, Marks, Curtain
    <2> SUFFICES ASSUME Faultless' PROVE Rising' /\ ReachesAnnounced' /\ NotReadyYet'
      BY <2>3, <2>4 DEF FadeIInv
    <2>5. Rising /\ ReachesAnnounced /\ NotReadyYet /\ pendingLevel = 0
      BY <2>2, <2>3 DEF Faultless, FadeIInv
    <2>6. Beginning
      BY <1>1, <2>1, NoticedStep
    <2>7. From' = From /\ Due' = Due /\ From = 1 /\ Due = 0
      BY <2>1, <2>5, <2>6 DEF From, Due
    <2>8. next # 0 => Heralds(notices) # {}
      BY <1>1, <2>5, <2>7 DEF ReachesAnnounced, Announced, Course
    <2> QED
      BY <2>1, <2>5, <2>7, <2>8, PassedStep
  <1>4. CASE HandleGameOver
    <2>1. /\ Noticed("over") /\ playing' = FALSE
          /\ UNCHANGED <<link, map, fade, pendingLevel, pendingRespawn, ready, hurried, disturbed>>
      BY <1>4 DEF HandleGameOver, curtainVars
    <2>2. /\ notices' \in Seq(Notices) /\ UNCHANGED <<running, level, next, cut>> /\ Course'
      BY <1>2, <2>1
    <2>3. FadeTypeOK' /\ Curtain'
      BY <1>1, <2>1, <2>2, TypeInParts DEF FadeTypeOK, Flags, Marks, Curtain
    <2> SUFFICES ASSUME Faultless' PROVE Rising' /\ ReachesAnnounced' /\ NotReadyYet'
      BY <2>2, <2>3 DEF FadeIInv
    <2>4. Rising /\ ReachesAnnounced /\ NotReadyYet
      BY <2>1, <2>2 DEF Faultless, FadeIInv
    <2>5. From' = From /\ Due' = Due
      BY <1>1, <2>1, NoticedStep DEF From, Due
    <2> QED
      BY <2>1, <2>4, <2>5, PassedStep DEF NotReadyYet
  <1>5. CASE OnTransition
    <2>1. /\ Noticed("transition") /\ pendingLevel' = notices[1].level
          /\ fade' = 1 /\ ready' = FALSE /\ hurried' = FALSE
          /\ UNCHANGED <<link, playing, map, pendingRespawn, disturbed>>
      BY <1>2, <1>5 DEF OnTransition
    <2>2. /\ notices' \in Seq(Notices) /\ UNCHANGED <<running, level, next, cut>> /\ Course'
          /\ notices[1].level \in Levels /\ notices[1].level # 0
      BY <1>2, <2>1 DEF Notices, Levels
    <2>3. FadeTypeOK'
      <3>1. Flags'
        BY <1>1, <2>1, <2>2 DEF Flags
      <3>2. Marks'
        BY <1>1, <2>1, <2>2 DEF Marks
      <3> QED
        BY <3>1, <3>2 DEF FadeTypeOK, Flags, Marks
    <2>4. Curtain'
      BY <2>1, <2>2 DEF Curtain
    <2> SUFFICES ASSUME Faultless' PROVE Rising' /\ ReachesAnnounced' /\ NotReadyYet'
      BY <2>2, <2>3, <2>4 DEF FadeIInv
    <2>5. Rising /\ ReachesAnnounced /\ NotReadyYet
      BY <2>1, <2>2 DEF Faultless, FadeIInv
    <2>6. CASE ~Beginning'
      BY <1>5, <2>5, <2>6, HeraldStep
    <2>7. CASE Beginning'
      <3>1. From' = From /\ Due' = Due
        BY <1>1, <2>1, <2>7, NoticedStep DEF From, Due
      <3> QED
        BY <2>1, <2>5, <2>7, <3>1, PassedStep
    <2> QED
      BY <2>6, <2>7
  <1>6. CASE OnReady \/ OnRespawn
    <2>1. PICK t \in {"ready", "respawn"} :
              /\ Noticed(t) /\ UNCHANGED <<link, playing, map, pendingLevel, disturbed>>
              /\ t = "ready" => /\ ready' = TRUE
                                /\ UNCHANGED <<fade, pendingRespawn, hurried>>
              /\ t = "respawn" => /\ ready' = ready /\ pendingRespawn' = TRUE
                                  /\ fade' = 1 /\ hurried' = TRUE
      BY <1>6 DEF OnReady, OnRespawn
    <2>2. /\ notices' \in Seq(Notices) /\ UNCHANGED <<running, level, next, cut>> /\ Course'
      BY <1>2, <2>1
    <2>3. FadeTypeOK' /\ Curtain'
      <3>1. Flags'
        BY <1>1, <2>1, <2>2 DEF Flags
      <3>2. Marks'
        BY <1>1, <2>1, <2>2 DEF Marks
      <3>3. Curtain'
        BY <1>1, <2>1, <2>2 DEF Curtain
      <3> QED
        BY <3>1, <3>2, <3>3 DEF FadeTypeOK, Flags, Marks
    <2> SUFFICES ASSUME Faultless' PROVE Rising' /\ ReachesAnnounced' /\ NotReadyYet'
      BY <2>2, <2>3 DEF FadeIInv
    <2>4. Rising /\ ReachesAnnounced /\ NotReadyYet
      BY <2>1, <2>2 DEF Faultless, FadeIInv
    <2>5. From' = From /\ Due' = Due
      BY <1>1, <2>1, NoticedStep DEF From, Due
    <2> QED
      BY <2>1, <2>4, <2>5, PassedStep DEF NotReadyYet
  <1> QED
    BY <1>3, <1>4, <1>5, <1>6 DEF Receive

\* The screen gets dark and clear again.
LEMMA FrameStepInv == FadeIInv /\ Frame => FadeIInv'
  <1> SUFFICES ASSUME FadeIInv, Frame PROVE FadeIInv'
    OBVIOUS
  <1>1. /\ FadeTypeOK /\ Flags /\ Marks /\ Curtain /\ Course
    BY TypeInParts DEF FadeIInv
  <1>2. UNCHANGED <<running, level, next, cut, notices, link, playing, ready, hurried, disturbed>>
    BY DEF Frame, Blackout, Reveal, sessionSide, between
  <1>3. FadeTypeOK'
    <2>1. Flags'
      BY <1>1, <1>2 DEF Frame, Blackout, Reveal, Flags
    <2>2. Marks'
      BY <1>1, <1>2 DEF Frame, Blackout, Reveal, Marks
    <2> QED
      BY <2>1, <2>2 DEF FadeTypeOK, Flags, Marks
  <1>4. Curtain' /\ Course'
    BY <1>1, <1>2 DEF Frame, Blackout, Reveal, Curtain, Course
  <1> SUFFICES ASSUME Faultless' PROVE Rising' /\ ReachesAnnounced' /\ NotReadyYet'
    BY <1>3, <1>4 DEF FadeIInv
  <1>5. /\ Rising /\ ReachesAnnounced /\ NotReadyYet
        /\ Announced' = Announced /\ Heralds(notices') = Heralds(notices) /\ Beginning' = Beginning
    BY <1>2 DEF Faultless, FadeIInv, Announced, Beginning
  <1>6. /\ Announced \in Nat /\ From \in Nat /\ Due \in Nat /\ next \in Nat /\ level \in Nat /\ 1 <= level
        /\ \A i \in Heralds(notices) : i \in Nat /\ notices[i].level \in Nat /\ 1 <= notices[i].level
    BY <1>1, Numbers
  <1>7. \/ From' = (IF Due # 0 THEN Due ELSE From) /\ Due' = 0
        \/ From' = From /\ Due' = Due
    <2>1. CASE Beginning
      BY <1>5, <2>1 DEF From, Due
    <2>2. CASE ~Beginning
      <3>1. \/ map' = (IF pendingLevel # 0 THEN pendingLevel ELSE map) /\ pendingLevel' = 0
            \/ UNCHANGED <<map, pendingLevel>>
        BY DEF Frame, Blackout, Reveal
      <3>2. From = map /\ Due = pendingLevel /\ From' = map' /\ Due' = pendingLevel'
        BY <1>5, <2>2 DEF From, Due
      <3>3. CASE UNCHANGED <<map, pendingLevel>>
        BY <3>2, <3>3
      <3>4. CASE map' = (IF pendingLevel # 0 THEN pendingLevel ELSE map) /\ pendingLevel' = 0
        <4>1. From' = (IF Due # 0 THEN Due ELSE From)
          BY <3>2, <3>4
        <4>2. Due' = 0
          BY <3>2, <3>4
        <4> QED
          BY <4>1, <4>2
      <3> QED
        BY <3>1, <3>3, <3>4
    <2> QED
      BY <2>1, <2>2
  <1>8. Rising' /\ ReachesAnnounced'
    BY <1>2, <1>5, <1>6, <1>7 DEF Rising, ReachesAnnounced
  <1>9. ASSUME next # 0, Heralds(notices) = {} PROVE fade' = 3 => hurried
    <2>1. ~ready /\ (fade = 3 => hurried)
      BY <1>5, <1>9 DEF NotReadyYet
    <2> QED
      BY <1>1, <2>1 DEF Frame, Blackout, Reveal, Curtain
  <1>10. NotReadyYet'
    BY <1>2, <1>5, <1>9 DEF NotReadyYet
  <1> QED
    BY <1>8, <1>10

LEMMA FadeStepInv == FadeIInv /\ [FadeNext]_fadeVars => FadeIInv'
  <1> SUFFICES ASSUME FadeIInv, [FadeNext]_fadeVars PROVE FadeIInv'
    OBVIOUS
  <1>1. CASE UNCHANGED fadeVars
    <2>1. UNCHANGED <<running, level, next, cut, notices, link, playing, map, fade, pendingLevel,
                      pendingRespawn, ready, hurried, disturbed>>
      BY <1>1 DEF fadeVars, sessionSide, between, clientSide, curtainVars
    <2>2. From' = From /\ Due' = Due /\ Announced' = Announced
      BY <2>1 DEF From, Due, Beginning, Announced
    <2>3. FadeTypeOK' /\ Curtain' /\ Course'
      BY <2>1 DEF FadeIInv, FadeTypeOK, Curtain, Course
    <2> QED
      BY <2>1, <2>2, <2>3 DEF FadeIInv, Faultless, Rising, ReachesAnnounced, NotReadyYet
  <1> QED
    BY <1>1, SessionStepInv, FaultStepInv, ReceiveStepInv, FrameStepInv DEF FadeNext

LEMMA AlwaysFadeIInv == FadeSpec => []FadeIInv
  BY FadeInitInv, FadeStepInv, PTL DEF FadeSpec

\* The fade, what is pending behind it and the notices under way keep their types.
THEOREM FadeTypeCorrect == FadeSpec => []FadeTypeOK
  <1>1. FadeIInv => FadeTypeOK
    BY DEF FadeIInv
  <1> QED
    BY <1>1, AlwaysFadeIInv, PTL

\* With no datagram lost, doubled or overtaken, in this game and those before, the
\* player is on the map of the level announced last and does not see it before it
\* is loaded, unless a respawn has hurried the fade: for any campaign, any number
\* of games and however many notices are under way.
THEOREM FadeShowsRightLevel == FadeSpec => []ShownLevelRight
  <1>1. ASSUME FadeIInv, ~disturbed, running, ~Beginning
        PROVE  /\ Rising /\ ReachesAnnounced /\ NotReadyYet /\ Curtain /\ Course
               /\ From = map /\ Due = pendingLevel /\ level \in Nat /\ map \in Nat
    BY <1>1, Numbers DEF FadeIInv, Faultless, From, Due
  <1>2. ASSUME FadeIInv, ~disturbed, running, ~Beginning, fade = 0, notices = <<>>
        PROVE  map = IF next # 0 THEN next ELSE level
    <2>1. Heralds(notices) = {} /\ pendingLevel = 0
      BY <1>1, <1>2 DEF Heralds, Curtain
    <2> QED
      BY <1>1, <1>2, <2>1 DEF ReachesAnnounced, Announced
  <1>3. ASSUME FadeIInv, ~disturbed, running, ~Beginning, fade = 3
        PROVE  map <= level \/ hurried
    <2>1. CASE next = 0
      BY <1>1, <1>3, <2>1 DEF Rising, Announced
    <2>2. CASE next # 0 /\ Heralds(notices) = {}
      BY <1>1, <1>3, <2>2 DEF NotReadyYet
    <2>3. CASE next # 0 /\ Heralds(notices) # {}
      <3>1. PICK i \in Heralds(notices) : TRUE
        BY <2>3
      <3>2. map < notices[i].level /\ notices[i].level <= level + 1
        BY <1>1, <1>3, <2>3 DEF Rising, Announced, Course
      <3>3. notices[i].level \in Nat
        BY <1>3, Numbers DEF FadeIInv
      <3> QED
        BY <1>1, <1>3, <3>2, <3>3
    <2> QED
      BY <2>1, <2>2, <2>3
  <1>4. FadeIInv => ShownLevelRight
    BY <1>2, <1>3 DEF ShownLevelRight
  <1> QED
    BY <1>4, AlwaysFadeIInv, PTL
==============================================================================
