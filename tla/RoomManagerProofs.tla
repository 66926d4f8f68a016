-------------------------- MODULE RoomManagerProofs --------------------------
(***************************************************************************)
(* Proofs about custom rooms, for any players, rooms and room sizes.       *)
(* The player lists and player_to_room_ are changed together by every      *)
(* operation, so MembershipAgrees needs PlayerListsSound (a list names a   *)
(* player once, so one removal removes them) and that room ids are never   *)
(* handed out twice.  No packet is assumed to find the rooms updated.      *)
(***************************************************************************)
EXTENDS RoomManager, TLAPS

\* create_room has not reached these ids yet
FreshIds == \A r \in RoomIds : r >= nextRoom => rooms[r] = NoRoom

IInv ==
    /\ TypeOK
    /\ MembershipAgrees
    /\ PlayerListsSound
    /\ CountdownHasPlayers
    /\ FreshIds

------------------------------------------------------------------------------
USE RoomIdsAssumption, SizesAssumption, NoRoomAssumption

\* The fields of a room.
LEMMA RoomFields ==
    ASSUME NEW room \in Room
    PROVE  /\ room.players \in Seq(Players) /\ Len(room.players) \in Nat
           /\ room.host \in Players /\ room.max \in Sizes /\ room.max \in Nat
           /\ room # NoRoom
  <1>1. room # NoRoom
    OBVIOUS
  <1>2. /\ room.players \in Seq(Players) /\ room.host \in Players
        /\ room.max \in Sizes /\ room.max \in Nat
    BY DEF Room
  <1> QED
    BY <1>1, <1>2

\* Removing p from a duplicate-free list removes p and nothing else.
LEMMA WithoutFacts ==
    ASSUME NEW seq \in Seq(Players), IsInjective(seq), NEW p \in Players
    PROVE  /\ Without(seq, p) \in Seq(Players)
           /\ IsInjective(Without(seq, p))
           /\ Range(Without(seq, p)) = Range(seq) \ {p}
           /\ Len(Without(seq, p)) <= Len(seq)
           /\ Without(seq, p) # <<>> /\ seq[1] # p => Without(seq, p)[1] = seq[1]
  <1>1. CASE p \notin Range(seq)
    <2>1. Without(seq, p) = seq
      BY <1>1 DEF Without
    <2> QED
      BY <1>1, <2>1
  <1>2. CASE p \in Range(seq)
    <2> DEFINE i == CHOOSE j \in DOMAIN seq : seq[j] = p
               rest == [j \in 1..(Len(seq) - 1) |-> seq[IF j < i THEN j ELSE j + 1]]
    <2>1. i \in 1..Len(seq) /\ seq[i] = p
      BY <1>2 DEF Range
    <2>2. Without(seq, p) = rest
      BY <1>2 DEF Without
    <2>3. Len(seq) \in Nat /\ DOMAIN seq = 1..Len(seq)
      OBVIOUS
    <2> HIDE DEF i
    <2>4. rest \in Seq(Players) /\ Len(rest) = Len(seq) - 1 /\ DOMAIN rest = 1..(Len(seq) - 1)
      <3>1. Len(seq) - 1 \in Nat
        BY <2>1, <2>3
      <3>2. rest \in [1..(Len(seq) - 1) -> Players]
        BY <2>1, <2>3
      <3> QED
        BY <3>1, <3>2
    <2>5. IsInjective(rest)
      BY <2>1, <2>3, <2>4 DEF IsInjective
    <2>6. \A q \in Range(rest) : q \in Range(seq) /\ q # p
      BY <2>1, <2>3, <2>4 DEF Range, IsInjective
    <2>7. ASSUME NEW q \in Range(seq), q # p
          PROVE  q \in Range(rest)
      <3>1. PICK k \in 1..Len(seq) : seq[k] = q
        BY <2>3 DEF Range
      <3>2. CASE k < i
        <4>1. k \in 1..(Len(seq) - 1) /\ rest[k] = q
          BY <2>1, <2>3, <3>1, <3>2
        <4> QED
          BY <2>4, <4>1 DEF Range
      <3>3. CASE k > i
        <4>1. k - 1 \in 1..(Len(seq) - 1) /\ rest[k - 1] = q
          BY <2>1, <2>3, <3>1, <3>3
        <4> QED
          BY <2>4, <4>1 DEF Range
      <3> QED
        BY <2>1, <2>3, <2>7, <3>1, <3>2, <3>3
    <2>8. Range(rest) = Range(seq) \ {p}
      BY <2>6, <2>7
    <2>9. rest # <<>> /\ seq[1] # p => rest[1] = seq[1]
      BY <2>1, <2>3, <2>4
    <2> HIDE DEF rest
    <2>10. Len(rest) <= Len(seq)
      BY <2>3, <2>4
    <2> QED
      BY <2>2, <2>4, <2>5, <2>8, <2>9, <2>10
  <1> QED
    BY <1>1, <1>2

\* Appending p to a duplicate-free list without p adds p and nothing else.
LEMMA AppendFacts ==
    ASSUME NEW seq \in Seq(Players), NEW p \in Players
    PROVE  /\ Append(seq, p) \in Seq(Players)
           /\ Range(Append(seq, p)) = Range(seq) \cup {p}
           /\ Len(Append(seq, p)) = Len(seq) + 1
           /\ IsInjective(seq) /\ p \notin Range(seq) => IsInjective(Append(seq, p))
           /\ seq # <<>> => Append(seq, p)[1] = seq[1]
  <1> DEFINE app == Append(seq, p)
  <1>1. /\ app \in Seq(Players) /\ Len(app) = Len(seq) + 1 /\ Len(seq) \in Nat
        /\ DOMAIN app = 1..(Len(seq) + 1) /\ DOMAIN seq = 1..Len(seq)
        /\ app[Len(seq) + 1] = p
        /\ \A i \in 1..Len(seq) : app[i] = seq[i]
        /\ seq # <<>> => app[1] = seq[1]
    OBVIOUS
  <1> HIDE DEF app
  <1>2. Range(app) = Range(seq) \cup {p}
    BY <1>1 DEF Range
  <1>3. IsInjective(seq) /\ p \notin Range(seq) => IsInjective(app)
    BY <1>1 DEF Range, IsInjective
  <1> QED
    BY <1>1, <1>2, <1>3 DEF app

\* What leave_room makes of a room.
LEMMA DepartedFacts ==
    ASSUME NEW room \in Room, IsInjective(room.players), NEW p \in Range(room.players)
    PROVE  /\ Departed(room, p) \in Room
           /\ IsInjective(Departed(room, p).players)
           /\ Range(Departed(room, p).players) = Range(room.players) \ {p}
           /\ Len(Departed(room, p).players) <= Len(room.players)
           /\ Departed(room, p).countdown = FALSE
           /\ Departed(room, p).max = room.max
           /\ Departed(room, p).status = room.status
           /\ room.host = room.players[1] /\ Departed(room, p).players # <<>>
                => Departed(room, p).host = Departed(room, p).players[1]
  <1> DEFINE rest == Without(room.players, p)
  <1>1. p \in Players
    BY DEF Room, Range
  <1>2. /\ rest \in Seq(Players)
        /\ IsInjective(rest)
        /\ Range(rest) = Range(room.players) \ {p}
        /\ Len(rest) <= Len(room.players)
        /\ rest # <<>> /\ room.players[1] # p => rest[1] = room.players[1]
    BY <1>1, WithoutFacts DEF Room
  <1> DEFINE heir == IF room.host = p /\ rest # <<>> THEN rest[1] ELSE room.host
  <1>3. heir \in Players
    BY <1>2, RoomFields
  <1>4. Departed(room, p) = [room EXCEPT !.players = rest, !.host = heir, !.countdown = FALSE]
    BY DEF Departed
  <1>5. room.host = room.players[1] /\ rest # <<>> => heir = rest[1]
    BY <1>2
  <1> HIDE DEF rest, heir
  <1>6. /\ Departed(room, p) \in Room
        /\ Departed(room, p).players = rest
        /\ Departed(room, p).host = heir
        /\ Departed(room, p).countdown = FALSE
        /\ Departed(room, p).max = room.max
        /\ Departed(room, p).status = room.status
    BY <1>2, <1>3, <1>4 DEF Room
  <1> QED
    BY <1>2, <1>5, <1>6

------------------------------------------------------------------------------
LEMMA InitInv == Init => IInv
  BY DEF Init, IInv, TypeOK, MembershipAgrees, PlayerListsSound, CountdownHasPlayers,
         FreshIds, Live, Members

\* create_room
LEMMA CreateStep ==
    ASSUME IInv, NEW p \in Players, NEW size \in Sizes, playerRoom[p] = 0, CreateRoom(p, size)
    PROVE  IInv'
  <1> USE DEF IInv, TypeOK
  <1> DEFINE new == NewRoom(p, size)
  <1>1. /\ new \in Room /\ new # NoRoom
        /\ new.players = <<p>> /\ Len(new.players) = 1 /\ Range(new.players) = {p}
        /\ IsInjective(new.players) /\ new.countdown = FALSE /\ new.max = size
    <2>1. <<p>> \in Seq(Players) /\ Len(<<p>>) = 1 /\ DOMAIN <<p>> = {1} /\ <<p>>[1] = p
      OBVIOUS
    <2>2. Range(<<p>>) = {p} /\ IsInjective(<<p>>)
      BY <2>1 DEF Range, IsInjective
    <2>3. new \in Room
      BY <2>1 DEF NewRoom, Room
    <2>4. new.players = <<p>> /\ new.countdown = FALSE /\ new.max = size
      BY DEF NewRoom
    <2> QED
      BY <2>1, <2>2, <2>3, <2>4, RoomFields
  <1> HIDE DEF new
  <1>2. /\ nextRoom \in RoomIds /\ nextRoom' = nextRoom + 1
        /\ rooms' = [rooms EXCEPT ![nextRoom] = new]
        /\ playerRoom' = [playerRoom EXCEPT ![p] = nextRoom]
    BY DEF CreateRoom, new
  <1>3. rooms[nextRoom] = NoRoom /\ \A q \in Players : playerRoom[q] # nextRoom
    BY <1>2 DEF FreshIds, MembershipAgrees, Live
  <1>4. TypeOK'
    BY <1>1, <1>2
  <1>5. MembershipAgrees'
    BY <1>1, <1>2, <1>3 DEF MembershipAgrees, Live, Members
  <1>6. PlayerListsSound' /\ CountdownHasPlayers'
    <2>1. \A r \in RoomIds : rooms'[r] = IF r = nextRoom THEN new ELSE rooms[r]
      BY <1>2
    <2>2. 1 <= size
      BY SizesAssumption
    <2> QED
      BY <1>1, <2>1, <2>2 DEF PlayerListsSound, CountdownHasPlayers, Live
  <1>7. FreshIds'
    BY <1>2 DEF FreshIds
  <1> QED
    BY <1>4, <1>5, <1>6, <1>7

\* join_room
LEMMA JoinStep ==
    ASSUME IInv, NEW p \in Players, NEW r \in RoomIds, playerRoom[p] = 0, JoinRoom(p, r)
    PROVE  IInv'
  <1> USE DEF IInv, TypeOK
  <1> DEFINE joined == [rooms[r] EXCEPT !.players = Append(@, p)]
  <1>1. /\ r \in Live /\ rooms[r] \in Room /\ rooms[r].status = "waiting"
        /\ Len(rooms[r].players) < rooms[r].max
        /\ rooms' = [rooms EXCEPT ![r] = joined]
        /\ playerRoom' = [playerRoom EXCEPT ![p] = r] /\ nextRoom' = nextRoom
    BY DEF JoinRoom, CanJoin, Live
  <1>2. p \notin Range(rooms[r].players)
    BY <1>1 DEF MembershipAgrees, Members
  <1>3. rooms[r].players \in Seq(Players) /\ IsInjective(rooms[r].players)
    BY <1>1 DEF Room, PlayerListsSound
  <1>4. /\ joined \in Room /\ joined # NoRoom
        /\ joined.players = Append(rooms[r].players, p)
        /\ joined.countdown = rooms[r].countdown /\ joined.status = rooms[r].status
        /\ joined.max = rooms[r].max
    <2>1. Append(rooms[r].players, p) \in Seq(Players)
      BY <1>3
    <2> QED
      BY <1>1, <2>1 DEF Room
  <1>5. /\ IsInjective(joined.players) /\ joined.players # <<>>
        /\ Range(joined.players) = Range(rooms[r].players) \cup {p}
        /\ Len(joined.players) <= joined.max
    <2> HIDE DEF joined
    <2>1. Len(rooms[r].players) \in Nat /\ rooms[r].max \in Nat
      BY <1>1, RoomFields
    <2>2. /\ IsInjective(joined.players)
          /\ Range(joined.players) = Range(rooms[r].players) \cup {p}
          /\ Len(joined.players) = Len(rooms[r].players) + 1
      BY <1>2, <1>3, <1>4, AppendFacts
    <2>3. joined.players # <<>>
      BY <2>2 DEF Range
    <2> QED
      BY <1>1, <1>4, <2>1, <2>2, <2>3
  <1> HIDE DEF joined
  <1>6. TypeOK'
    BY <1>1, <1>4
  <1>7. MembershipAgrees'
    <2>1. \A s \in RoomIds : rooms'[s] = IF s = r THEN joined ELSE rooms[s]
      BY <1>1
    <2>2. \A q \in Players : playerRoom'[q] = IF q = p THEN r ELSE playerRoom[q]
      BY <1>1
    <2>3. rooms[r] # NoRoom /\ joined # NoRoom /\ Range(joined.players) = Range(rooms[r].players) \cup {p}
      BY <1>1, <1>4, <1>5 DEF Live
    <2> QED
      BY <2>1, <2>2, <2>3 DEF MembershipAgrees, Live, Members
  <1>8. PlayerListsSound' /\ CountdownHasPlayers'
    BY <1>1, <1>4, <1>5 DEF PlayerListsSound, CountdownHasPlayers, Live
  <1>9. FreshIds'
    BY <1>1 DEF FreshIds, Live
  <1> QED
    BY <1>6, <1>7, <1>8, <1>9

\* A room that p leaves, with no player left in it or one fewer: leave_room,
\* and the departure on_game_start causes (room is then already started).
LEMMA DepartStep ==
    ASSUME IInv, NEW p \in Players, NEW r \in Live, playerRoom[p] = r,
           NEW room \in Room, room.players = rooms[r].players, room.max = rooms[r].max,
           NEW others \in {rooms, Cleaned},
           rooms' = [others EXCEPT ![r] = Departed(room, p)],
           playerRoom' = [playerRoom EXCEPT ![p] = 0], nextRoom' = nextRoom
    PROVE  IInv'
  <1> USE DEF IInv, TypeOK
  <1> DEFINE left == Departed(room, p)
  <1>1. r \in RoomIds /\ rooms[r] \in Room /\ p \in Range(rooms[r].players)
    BY DEF Live, MembershipAgrees, Members
  <1>2. /\ left \in Room /\ left # NoRoom /\ IsInjective(left.players)
        /\ Range(left.players) = Range(rooms[r].players) \ {p}
        /\ Len(left.players) <= Len(rooms[r].players)
        /\ left.countdown = FALSE /\ left.max = rooms[r].max
    <2>1. IsInjective(room.players) /\ p \in Range(room.players)
      BY <1>1 DEF PlayerListsSound
    <2> QED
      BY <2>1, DepartedFacts, RoomFields
  <1> HIDE DEF left
  <1>3. \A s \in RoomIds \ {r} : rooms'[s] = rooms[s] \/ (rooms'[s] = NoRoom /\ rooms[s].players = <<>>)
    BY <1>1 DEF Cleaned, Live
  <1>4. rooms'[r] = left
    BY <1>1 DEF Cleaned, left
  <1>5. TypeOK'
    <2>1. others \in [RoomIds -> Room \cup {NoRoom}]
      BY DEF Cleaned
    <2> QED
      BY <1>1, <1>2, <2>1 DEF left
  <1>6. MembershipAgrees'
    <2> SUFFICES ASSUME NEW q \in Players, NEW s \in RoomIds
                 PROVE  playerRoom'[q] = s <=> rooms'[s] # NoRoom /\ q \in Range(rooms'[s].players)
      BY DEF MembershipAgrees, Live, Members
    <2>1. s # 0
      OBVIOUS
    <2>2. playerRoom[q] = s <=> rooms[s] # NoRoom /\ q \in Range(rooms[s].players)
      BY DEF MembershipAgrees, Live, Members
    <2>3. CASE s = r
      BY <1>1, <1>2, <1>4, <2>1, <2>2, <2>3
    <2>4. CASE s # r
      <3>1. q # p => playerRoom'[q] = playerRoom[q]
        OBVIOUS
      <3>2. playerRoom'[q] = s <=> playerRoom[q] = s
        BY <2>1, <2>4, <3>1
      <3>3. rooms[s].players = <<>> => q \notin Range(rooms[s].players)
        BY DEF Range
      <3> QED
        BY <1>3, <2>2, <2>4, <3>2, <3>3
    <2> QED
      BY <2>3, <2>4
  <1>7. PlayerListsSound'
    <2> SUFFICES ASSUME NEW s \in RoomIds, rooms'[s] # NoRoom
                 PROVE  IsInjective(rooms'[s].players) /\ Len(rooms'[s].players) <= rooms'[s].max
      BY DEF PlayerListsSound, Live
    <2>1. CASE s = r
      <3>1. /\ Len(rooms[r].players) <= rooms[r].max /\ Len(rooms[r].players) \in Nat
            /\ Len(left.players) \in Nat /\ rooms[r].max \in Nat
        BY <1>1, <1>2, RoomFields DEF PlayerListsSound
      <3> QED
        BY <1>2, <1>4, <2>1, <3>1
    <2>2. CASE s # r
      BY <1>3, <2>2 DEF PlayerListsSound, Live
    <2> QED
      BY <2>1, <2>2
  <1>8. CountdownHasPlayers'
    BY <1>2, <1>3, <1>4 DEF CountdownHasPlayers, Live
  <1>9. FreshIds'
    BY <1>1, <1>3, <1>4 DEF FreshIds, Live
  <1> QED
    BY <1>5, <1>6, <1>7, <1>8, <1>9

\* cleanup_empty_rooms
LEMMA CleanupStep ==
    ASSUME IInv, CleanupEmptyRooms
    PROVE  IInv'
  <1> USE DEF IInv, TypeOK
  <1>1. rooms' = Cleaned /\ playerRoom' = playerRoom /\ nextRoom' = nextRoom
    BY DEF CleanupEmptyRooms
  <1>2. \A s \in RoomIds : rooms'[s] = rooms[s] \/ (rooms'[s] = NoRoom /\ rooms[s].players = <<>>)
    BY <1>1 DEF Cleaned, Live
  <1>3. TypeOK'
    BY <1>1 DEF Cleaned
  <1>4. MembershipAgrees'
    BY <1>1, <1>2 DEF MembershipAgrees, Live, Members, Range
  <1>5. PlayerListsSound' /\ CountdownHasPlayers' /\ FreshIds'
    BY <1>1, <1>2 DEF PlayerListsSound, CountdownHasPlayers, FreshIds, Live
  <1> QED
    BY <1>3, <1>4, <1>5

\* start_game
LEMMA StartGameStep ==
    ASSUME IInv, NEW p \in Players, NEW r \in RoomIds, StartGame(r, p)
    PROVE  IInv'
  <1> USE DEF IInv, TypeOK
  <1> DEFINE counting == [rooms[r] EXCEPT !.countdown = TRUE]
  <1>1. /\ r \in Live /\ rooms[r] \in Room /\ rooms[r].players # <<>>
        /\ rooms[r].status = "waiting"
        /\ rooms' = [rooms EXCEPT ![r] = counting]
        /\ playerRoom' = playerRoom /\ nextRoom' = nextRoom
    BY DEF StartGame, Live
  <1>2. /\ counting \in Room /\ counting # NoRoom /\ counting.players = rooms[r].players
        /\ counting.max = rooms[r].max /\ counting.status = "waiting"
    BY <1>1 DEF Room
  <1> HIDE DEF counting
  <1>3. TypeOK'
    BY <1>1, <1>2
  <1>4. MembershipAgrees'
    BY <1>1, <1>2 DEF MembershipAgrees, Live, Members
  <1>5. PlayerListsSound' /\ CountdownHasPlayers' /\ FreshIds'
    BY <1>1, <1>2 DEF PlayerListsSound, CountdownHasPlayers, FreshIds, Live
  <1> QED
    BY <1>3, <1>4, <1>5

\* Every step of the rooms keeps the inductive invariant.
LEMMA NextInv == IInv /\ [Next]_vars => IInv'
  <1> SUFFICES ASSUME IInv, [Next]_vars
               PROVE  IInv'
    OBVIOUS
  <1>1. ASSUME NEW p \in Players, NEW size \in Sizes, playerRoom[p] = 0, CreateRoom(p, size)
        PROVE  IInv'
    BY <1>1, CreateStep
  <1>2. ASSUME NEW p \in Players, NEW r \in RoomIds, playerRoom[p] = 0, JoinRoom(p, r)
        PROVE  IInv'
    BY <1>2, JoinStep
  <1>3. ASSUME NEW p \in Players, LeaveRoom(p)
        PROVE  IInv'
    <2>1. /\ playerRoom[p] \in Live /\ rooms[playerRoom[p]] \in Room
          /\ rooms' = [rooms EXCEPT ![playerRoom[p]] = Departed(rooms[playerRoom[p]], p)]
          /\ playerRoom' = [playerRoom EXCEPT ![p] = 0] /\ nextRoom' = nextRoom
      BY <1>3 DEF LeaveRoom, Live, IInv, TypeOK
    <2> QED
      BY <2>1, DepartStep
  <1>4. ASSUME NEW p \in Players, NEW r \in RoomIds, StartGame(r, p)
        PROVE  IInv'
    BY <1>4, StartGameStep
  <1>5. ASSUME NEW r \in RoomIds, StartRoom(r)
        PROVE  IInv'
    <2> DEFINE first == rooms[r].players[1]
               started == [rooms[r] EXCEPT !.countdown = FALSE, !.status = "in_progress"]
    <2>1. /\ r \in Live /\ rooms[r] \in Room /\ rooms[r].players # <<>>
          /\ rooms' = [Cleaned EXCEPT ![r] = Departed(started, first)]
          /\ playerRoom' = [playerRoom EXCEPT ![first] = 0] /\ nextRoom' = nextRoom
      BY <1>5 DEF StartRoom, Live, IInv, TypeOK, CountdownHasPlayers
    <2>2. started \in Room /\ started.players = rooms[r].players /\ started.max = rooms[r].max
      BY <2>1 DEF Room
    <2>3. first \in Players /\ first \in Members(r)
      BY <2>1 DEF Room, Members, Range
    <2>4. playerRoom[first] = r
      BY <2>1, <2>3 DEF IInv, MembershipAgrees
    <2> HIDE DEF first, started
    <2> QED
      BY <2>1, <2>2, <2>3, <2>4, DepartStep
  <1>6. CASE CleanupEmptyRooms
    BY <1>6, CleanupStep
  <1>7. CASE UNCHANGED vars
    BY <1>7 DEF vars, IInv, TypeOK, MembershipAgrees, PlayerListsSound, CountdownHasPlayers,
                FreshIds, Live, Members
  <1> QED
    BY <1>1, <1>2, <1>3, <1>4, <1>5, <1>6, <1>7 DEF Next

LEMMA AlwaysIInv == Spec => []IInv
  BY InitInv, NextInv, PTL DEF Spec

\* Every field of every room and the players' entries keep their types.
THEOREM RoomsTypeCorrect == Spec => []TypeOK
  BY AlwaysIInv, PTL DEF IInv

\* A player is in at most one room, and it is the one player_to_room_ names.
THEOREM RoomsMembership == Spec => []MembershipAgrees
  BY AlwaysIInv, PTL DEF IInv

\* No room lists a player twice or holds more players than it was created for.
THEOREM RoomsPlayerLists == Spec => []PlayerListsSound
  BY AlwaysIInv, PTL DEF IInv

\* on_game_start never takes the first player of an empty list.
THEOREM RoomsCountdown == Spec => []CountdownHasPlayers
  BY AlwaysIInv, PTL DEF IInv

------------------------------------------------------------------------------
(* What a step does to one room                                            *)

StaysStarted(r) ==
    r \in Live /\ rooms[r].status = "in_progress" /\ rooms'[r] # NoRoom =>
        /\ rooms'[r].status = "in_progress"
        /\ Range(rooms'[r].players) \subseteq Range(rooms[r].players)

HostFirst(r) == r \in Live /\ rooms[r].players # <<>> => rooms[r].host = rooms[r].players[1]

\* cleanup_empty_rooms removes a room or leaves it as it is.
LEMMA CleanedFacts ==
    ASSUME NEW r \in RoomIds
    PROVE  Cleaned[r] = rooms[r] \/ Cleaned[r] = NoRoom
  BY DEF Cleaned

\* What one departure does to the room, in the terms of the two properties.
LEMMA LeaveRoomFacts ==
    ASSUME IInv, NEW p \in Players, LeaveRoom(p), NEW r \in RoomIds
    PROVE  StaysStarted(r) /\ (HostFirst(r) => HostFirst(r)')
  <1>1. CASE r = playerRoom[p]
    <2>1. /\ rooms'[r] = Departed(rooms[r], p) /\ r \in Live
          /\ rooms[r] \in Room /\ IsInjective(rooms[r].players)
          /\ p \in Range(rooms[r].players)
      BY <1>1 DEF LeaveRoom, IInv, TypeOK, MembershipAgrees, Live, Members, PlayerListsSound
    <2>2. /\ Range(rooms'[r].players) \subseteq Range(rooms[r].players)
          /\ rooms'[r].status = rooms[r].status
          /\ rooms[r].host = rooms[r].players[1] /\ rooms'[r].players # <<>>
                => rooms'[r].host = rooms'[r].players[1]
      <3> DEFINE left == Departed(rooms[r], p)
      <3>1. /\ Range(left.players) = Range(rooms[r].players) \ {p}
            /\ left.status = rooms[r].status
            /\ rooms[r].host = rooms[r].players[1] /\ left.players # <<>>
                  => left.host = left.players[1]
        BY <2>1, DepartedFacts
      <3> QED
        BY <2>1, <3>1
    <2>3. rooms[r].players # <<>>
      BY <2>1 DEF Range
    <2> QED
      BY <2>1, <2>2, <2>3 DEF StaysStarted, HostFirst
  <1>2. CASE r # playerRoom[p]
    <2>1. rooms'[r] = rooms[r]
      BY <1>2 DEF LeaveRoom, IInv, TypeOK
    <2> QED
      BY <2>1 DEF StaysStarted, HostFirst, Live
  <1> QED
    BY <1>1, <1>2

\* What the end of a countdown does to the rooms.
LEMMA StartRoomFacts ==
    ASSUME IInv, NEW s \in RoomIds, StartRoom(s), NEW r \in RoomIds
    PROVE  StaysStarted(r) /\ (HostFirst(r) => HostFirst(r)')
  <1> DEFINE first == rooms[s].players[1]
             started == [rooms[s] EXCEPT !.countdown = FALSE, !.status = "in_progress"]
  <1>1. /\ s \in Live /\ rooms[s] \in Room /\ rooms[s].countdown
        /\ rooms[s].players # <<>> /\ rooms[s].status = "waiting"
        /\ IsInjective(rooms[s].players)
        /\ rooms' = [Cleaned EXCEPT ![s] = Departed(started, first)]
    BY DEF StartRoom, IInv, TypeOK, Live, CountdownHasPlayers, PlayerListsSound
  <1>2. CASE r = s
    <2>1. /\ started \in Room /\ started.players = rooms[s].players
          /\ started.host = rooms[s].host
      BY <1>1 DEF Room
    <2>2. first \in Range(started.players)
      BY <1>1, <2>1, RoomFields DEF Range
    <2>3. rooms'[r] = Departed(started, first)
      BY <1>1, <1>2 DEF Cleaned
    <2> HIDE DEF started, first
    <2>4. started.host = started.players[1] /\ rooms'[r].players # <<>>
             => rooms'[r].host = rooms'[r].players[1]
      <3>1. IsInjective(started.players)
        BY <1>1, <2>1
      <3>2. started.host = started.players[1] /\ Departed(started, first).players # <<>>
               => Departed(started, first).host = Departed(started, first).players[1]
        BY <2>1, <2>2, <3>1, DepartedFacts
      <3> QED
        BY <2>3, <3>2
    <2> QED
      BY <1>1, <1>2, <2>1, <2>4 DEF StaysStarted, HostFirst
  <1>3. CASE r # s
    <2>1. rooms'[r] = rooms[r] \/ rooms'[r] = NoRoom
      BY <1>1, <1>3 DEF Cleaned
    <2> QED
      BY <2>1 DEF StaysStarted, HostFirst, Live
  <1> QED
    BY <1>2, <1>3

\* No step takes a room out of progress or lets a player into it, and a step
\* leaves the first player as host, unless it is a join of an empty room.
LEMMA RoomStep ==
    ASSUME IInv, [Next]_vars, NEW r \in RoomIds
    PROVE  StaysStarted(r) /\ (rooms[r].players # <<>> /\ HostFirst(r) => HostFirst(r)')
  <1> USE DEF IInv, TypeOK
  <1>1. ASSUME NEW p \in Players, NEW size \in Sizes, CreateRoom(p, size)
        PROVE  StaysStarted(r) /\ (HostFirst(r) => HostFirst(r)')
    <2>1. CASE r = nextRoom
      <3>1. r \notin Live /\ rooms'[r] = NewRoom(p, size)
        BY <1>1, <2>1 DEF CreateRoom, FreshIds, Live
      <3> QED
        BY <3>1 DEF StaysStarted, HostFirst, NewRoom
    <2>2. CASE r # nextRoom
      <3>1. rooms'[r] = rooms[r]
        BY <1>1, <2>2 DEF CreateRoom
      <3> QED
        BY <3>1 DEF StaysStarted, HostFirst, Live
    <2> QED
      BY <2>1, <2>2
  <1>2. ASSUME NEW p \in Players, NEW s \in RoomIds, JoinRoom(p, s)
        PROVE  StaysStarted(r) /\ (rooms[r].players # <<>> /\ HostFirst(r) => HostFirst(r)')
    <2>1. CASE r = s
      <3> DEFINE joined == [rooms[r] EXCEPT !.players = Append(@, p)]
      <3>1. r \in Live /\ rooms[r] \in Room /\ rooms[r].status = "waiting" /\ rooms'[r] = joined
        BY <1>2, <2>1 DEF JoinRoom, CanJoin, Live
      <3>2. joined.players = Append(rooms[r].players, p) /\ joined.host = rooms[r].host
        BY <3>1 DEF Room
      <3> HIDE DEF joined
      <3>3. rooms[r].players # <<>> => joined.players[1] = rooms[r].players[1]
        BY <3>1, <3>2, RoomFields, AppendFacts
      <3> QED
        BY <3>1, <3>2, <3>3 DEF StaysStarted, HostFirst
    <2>2. CASE r # s
      <3>1. rooms'[r] = rooms[r]
        BY <1>2, <2>2 DEF JoinRoom
      <3> QED
        BY <3>1 DEF StaysStarted, HostFirst, Live
    <2> QED
      BY <2>1, <2>2
  <1>3. ASSUME NEW p \in Players, LeaveRoom(p)
        PROVE  StaysStarted(r) /\ (HostFirst(r) => HostFirst(r)')
    BY <1>3, LeaveRoomFacts
  <1>4. ASSUME NEW p \in Players, NEW s \in RoomIds, StartGame(s, p)
        PROVE  StaysStarted(r) /\ (HostFirst(r) => HostFirst(r)')
    <2>1. CASE r = s
      <3>1. /\ r \in Live /\ rooms[r] \in Room /\ rooms[r].status = "waiting"
            /\ rooms'[r] = [rooms[r] EXCEPT !.countdown = TRUE]
        BY <1>4, <2>1 DEF StartGame, Live
      <3>2. rooms'[r].players = rooms[r].players /\ rooms'[r].host = rooms[r].host
        BY <3>1 DEF Room
      <3> QED
        BY <3>1, <3>2 DEF StaysStarted, HostFirst
    <2>2. CASE r # s
      <3>1. rooms'[r] = rooms[r]
        BY <1>4, <2>2 DEF StartGame
      <3> QED
        BY <3>1 DEF StaysStarted, HostFirst, Live
    <2> QED
      BY <2>1, <2>2
  <1>5. ASSUME NEW s \in RoomIds, StartRoom(s)
        PROVE  StaysStarted(r) /\ (HostFirst(r) => HostFirst(r)')
    BY <1>5, StartRoomFacts
  <1>6. CASE CleanupEmptyRooms
    <2>1. rooms'[r] = rooms[r] \/ rooms'[r] = NoRoom
      BY <1>6, CleanedFacts DEF CleanupEmptyRooms
    <2> QED
      BY <2>1 DEF StaysStarted, HostFirst, Live
  <1>7. CASE UNCHANGED vars
    BY <1>7 DEF vars, StaysStarted, HostFirst, Live
  <1> QED
    BY <1>1, <1>2, <1>3, <1>4, <1>5, <1>6, <1>7 DEF Next

\* No game that started lets anybody in or goes back to waiting.
THEOREM RoomsStayStarted == Spec => NoEntryOnceStarted
  <1>1. IInv /\ [Next]_vars =>
          [\A r \in RoomIds :
              r \in Live /\ rooms[r].status = "in_progress" /\ rooms'[r] # NoRoom =>
                  /\ rooms'[r].status = "in_progress"
                  /\ Range(rooms'[r].players) \subseteq Range(rooms[r].players)]_vars
    BY RoomStep DEF StaysStarted
  <1> QED
    BY <1>1, AlwaysIInv, PTL DEF Spec, NoEntryOnceStarted

\* While a room has players its longest standing one stays or becomes its host,
\* whoever leaves, joins or is started away (RoomManager.cpp:215-235).
THEOREM RoomsHostPasses == Spec => HostPasses
  <1>1. IInv /\ [Next]_vars =>
          [\A r \in RoomIds :
              /\ r \in Live /\ rooms[r].players # <<>> /\ rooms[r].host = rooms[r].players[1]
              /\ rooms'[r] # NoRoom /\ rooms'[r].players # <<>>
              => rooms'[r].host = rooms'[r].players[1]]_vars
    BY RoomStep DEF HostFirst, Live
  <1> QED
    BY <1>1, AlwaysIInv, PTL DEF Spec, HostPasses
==============================================================================
