--------------------------- MODULE GameServerProofs ---------------------------
(***************************************************************************)
(* Proofs about matchmaking, for any players, kinds, capacities and        *)
(* lobbies, and about the server that holds it.                            *)
(* Every property of the lobbies rests on one induction: the lists and     *)
(* player_to_lobby_ change together, a lobby's countdown is settled        *)
(* whenever its list changes, and lobby ids are never handed out twice.    *)
(*                                                                         *)
(* That the handlers implement both managers needs no invariant.  That     *)
(* clients and sessions agree needs that the sessions not started yet are  *)
(* empty and that who is not connected is forgotten: a session may go on   *)
(* listing a player who is gone, but never one who is still to come.       *)
(***************************************************************************)
EXTENDS GameServer, RoomManagerProofs, FiniteSetTheorems

------------------------------------------------------------------------------
(* Matchmaking                                                             *)

\* create_lobby has not reached these ids yet
FreshLobbies == \A l \in LobbyIds : l >= nextLobby => lobbies[l] = NoLobby

LobbyIInv ==
    /\ LobbyTypeOK
    /\ LobbyMembershipAgrees
    /\ CountdownIffFull
    /\ FreshLobbies

------------------------------------------------------------------------------
USE LobbyIdsAssumption, CapacityAssumption, PlayersAssumption, NoLobbyAssumption

\* A lobby's countdown is settled: it runs exactly while the lobby is full.
Settled(lobby) ==
    /\ Cardinality(lobby.players) <= Capacity[lobby.kind]
    /\ lobby.countdown <=> Cardinality(lobby.players) = Capacity[lobby.kind]

\* CountdownIffFull, one lobby at a time.
LEMMA CountdownSettled == CountdownIffFull <=> \A l \in Open : Settled(lobbies[l])
  BY DEF CountdownIffFull, Settled

\* The fields of a lobby.
LEMMA LobbyFields ==
    ASSUME NEW lobby \in Lobby
    PROVE  /\ lobby.players \subseteq Players /\ IsFiniteSet(lobby.players)
           /\ Cardinality(lobby.players) \in Nat
           /\ lobby.kind \in Kinds /\ Capacity[lobby.kind] \in Nat \ {0}
           /\ lobby # NoLobby
  <1>1. lobby.players \subseteq Players /\ lobby.kind \in Kinds /\ lobby # NoLobby
    BY DEF Lobby
  <1>2. IsFiniteSet(lobby.players)
    BY <1>1, FS_Subset
  <1>3. Cardinality(lobby.players) \in Nat
    BY <1>2, FS_CardinalityType
  <1> QED
    BY <1>1, <1>2, <1>3

\* What join_lobby makes of a lobby with a free place.
LEMMA EnteredFacts ==
    ASSUME NEW lobby \in Lobby, NEW p \in Players, p \notin lobby.players,
           Cardinality(lobby.players) < Capacity[lobby.kind]
    PROVE  /\ Entered(lobby, p) \in Lobby
           /\ Entered(lobby, p).players = lobby.players \cup {p}
           /\ Entered(lobby, p).kind = lobby.kind
           /\ Settled(Entered(lobby, p))
  <1> DEFINE after == Entered(lobby, p)
             full == Cardinality(lobby.players) + 1 >= Capacity[lobby.kind]
  <1>1. full \in BOOLEAN
    OBVIOUS
  <1>2. /\ after \in Lobby
        /\ after.players = lobby.players \cup {p}
        /\ after.kind = lobby.kind
        /\ after.countdown = full
    BY <1>1 DEF Entered, Lobby
  <1>3. Cardinality(lobby.players \cup {p}) = Cardinality(lobby.players) + 1
    BY LobbyFields, FS_AddElement
  <1>4. Cardinality(lobby.players) \in Nat /\ Capacity[lobby.kind] \in Nat
    BY LobbyFields
  <1> HIDE DEF after
  <1>5. Cardinality(after.players) = Cardinality(lobby.players) + 1
    BY <1>2, <1>3
  <1>6. Cardinality(after.players) <= Capacity[after.kind]
    BY <1>2, <1>4, <1>5
  <1>7. full <=> Cardinality(after.players) = Capacity[after.kind]
    BY <1>2, <1>4, <1>5
  <1> QED
    BY <1>2, <1>6, <1>7 DEF Settled, after

------------------------------------------------------------------------------
LEMMA InitIInv == LobbyInit => LobbyIInv
<1> SUFFICES ASSUME LobbyInit
             PROVE  LobbyIInv
  OBVIOUS
<1>1. Open = {} /\ \A p \in Players : playerLobby[p] = 0
  BY DEF LobbyInit, Open
<1>2. LobbyTypeOK
  BY DEF LobbyInit, LobbyTypeOK
<1>3. LobbyMembershipAgrees
  BY <1>1 DEF LobbyMembershipAgrees
<1>4. CountdownIffFull /\ FreshLobbies
  BY <1>1 DEF CountdownIffFull, FreshLobbies, LobbyInit
<1> QED
  BY <1>2, <1>3, <1>4 DEF LobbyIInv

\* Joining a lobby that is there.
LEMMA JoinOpenIInv ==
    ASSUME LobbyIInv, NEW p \in Players, NEW kind \in Kinds, NEW l \in Available(kind),
           playerLobby[p] = 0,
           lobbies' = [lobbies EXCEPT ![l] = Entered(@, p)],
           playerLobby' = [playerLobby EXCEPT ![p] = l],
           UNCHANGED nextLobby
    PROVE  LobbyIInv'
<1> DEFINE after == Entered(lobbies[l], p)
<1>1. /\ l \in LobbyIds /\ l \in Open /\ lobbies[l] \in Lobby
      /\ Cardinality(lobbies[l].players) < Capacity[lobbies[l].kind]
  BY DEF Available, Open, LobbyIInv, LobbyTypeOK
<1>2. p \notin lobbies[l].players
  BY <1>1 DEF LobbyIInv, LobbyMembershipAgrees
<1>3. /\ after \in Lobby /\ after # NoLobby
      /\ after.players = lobbies[l].players \cup {p}
      /\ Settled(after)
  BY <1>1, <1>2, EnteredFacts, LobbyFields
<1>4. /\ lobbies'[l] = after
      /\ \A m \in LobbyIds \ {l} : lobbies'[m] = lobbies[m]
      /\ playerLobby'[p] = l
      /\ \A q \in Players \ {p} : playerLobby'[q] = playerLobby[q]
  BY <1>1 DEF LobbyIInv, LobbyTypeOK
<1> HIDE DEF after
<1>5. Open' = Open
  BY <1>1, <1>3, <1>4 DEF Open
<1>6. LobbyTypeOK'
  BY <1>1, <1>3, <1>4 DEF LobbyIInv, LobbyTypeOK, after
<1>7. LobbyMembershipAgrees'
  <2>1. ASSUME NEW q \in Players, NEW m \in LobbyIds
        PROVE  playerLobby'[q] = m <=> m \in Open' /\ q \in lobbies'[m].players
    <3>1. CASE q = p
      BY <1>1, <1>3, <1>4, <1>5, <3>1 DEF LobbyIInv, LobbyMembershipAgrees
    <3>2. CASE q # p
      BY <1>1, <1>3, <1>4, <1>5, <3>2 DEF LobbyIInv, LobbyMembershipAgrees
    <3> QED
      BY <3>1, <3>2
  <2>2. \A m \in Open' : lobbies'[m].players # {}
    BY <1>1, <1>3, <1>4, <1>5 DEF LobbyIInv, LobbyMembershipAgrees, Open
  <2> QED
    BY <2>1, <2>2 DEF LobbyMembershipAgrees
<1>8. CountdownIffFull'
  <2>1. \A m \in Open : Settled(lobbies[m])
    BY CountdownSettled DEF LobbyIInv
  <2>2. ASSUME NEW m \in Open'
        PROVE  Settled(lobbies'[m])
    <3>1. CASE m = l
      BY <1>3, <1>4, <3>1
    <3>2. CASE m # l
      BY <1>4, <1>5, <2>1, <3>2 DEF Open
    <3> QED
      BY <3>1, <3>2
  <2> QED
    BY <2>2 DEF CountdownIffFull, Settled
<1>9. FreshLobbies'
  BY <1>1, <1>4 DEF LobbyIInv, FreshLobbies, Open
<1> QED
  BY <1>6, <1>7, <1>8, <1>9 DEF LobbyIInv

\* Opening a lobby for the player.
LEMMA JoinNewIInv ==
    ASSUME LobbyIInv, NEW p \in Players, NEW kind \in Kinds,
           playerLobby[p] = 0,
           nextLobby \in LobbyIds,
           lobbies' = [lobbies EXCEPT ![nextLobby] =
                          Entered([players |-> {}, kind |-> kind, countdown |-> FALSE], p)],
           playerLobby' = [playerLobby EXCEPT ![p] = nextLobby],
           nextLobby' = nextLobby + 1
    PROVE  LobbyIInv'
<1> DEFINE empty == [players |-> {}, kind |-> kind, countdown |-> FALSE]
           after == Entered(empty, p)
           l == nextLobby
<1>1. l \in LobbyIds /\ l \in Nat /\ lobbies[l] = NoLobby /\ l \notin Open
  BY DEF LobbyIInv, LobbyTypeOK, FreshLobbies, Open
<1>2. empty \in Lobby /\ empty.players = {} /\ empty.kind = kind
  BY DEF Lobby
<1>3. Cardinality(empty.players) = 0 /\ Capacity[kind] \in Nat \ {0}
  BY <1>2, FS_EmptySet
<1> HIDE DEF empty
<1>4. /\ after \in Lobby /\ after # NoLobby
      /\ after.players = {p}
      /\ Settled(after)
  <2>1. p \notin empty.players /\ Cardinality(empty.players) < Capacity[empty.kind]
    BY <1>2, <1>3
  <2>2. after \in Lobby /\ after.players = empty.players \cup {p} /\ Settled(after)
    BY <1>2, <2>1, EnteredFacts
  <2>3. after # NoLobby
    BY <2>2, LobbyFields
  <2>4. after.players = {p}
    BY <1>2, <2>2
  <2> QED
    BY <2>2, <2>3, <2>4
<1>5. /\ lobbies'[l] = after
      /\ \A m \in LobbyIds \ {l} : lobbies'[m] = lobbies[m]
      /\ playerLobby'[p] = l
      /\ \A q \in Players \ {p} : playerLobby'[q] = playerLobby[q]
  BY <1>1 DEF LobbyIInv, LobbyTypeOK, empty
<1> HIDE DEF after
<1>6. Open' = Open \cup {l}
  BY <1>1, <1>4, <1>5 DEF Open
<1>7. LobbyTypeOK'
  <2>1. lobbies' = [lobbies EXCEPT ![l] = after]
    BY DEF after, empty
  <2>2. lobbies' \in [LobbyIds -> Lobby \cup {NoLobby}]
    BY <1>4, <2>1 DEF LobbyIInv, LobbyTypeOK
  <2>3. playerLobby' \in [Players -> {0} \cup LobbyIds] /\ nextLobby' \in Nat
    BY <1>1 DEF LobbyIInv, LobbyTypeOK
  <2> QED
    BY <2>2, <2>3 DEF LobbyTypeOK
<1> HIDE DEF l
<1>8. LobbyMembershipAgrees'
  <2>1. ASSUME NEW q \in Players, NEW m \in LobbyIds
        PROVE  playerLobby'[q] = m <=> m \in Open' /\ q \in lobbies'[m].players
    <3>1. CASE m = l
      BY <1>1, <1>4, <1>5, <1>6, <3>1 DEF LobbyIInv, LobbyMembershipAgrees
    <3>2. CASE m # l /\ q = p
      BY <1>1, <1>4, <1>5, <1>6, <3>2 DEF LobbyIInv, LobbyMembershipAgrees
    <3>3. CASE m # l /\ q # p
      BY <1>1, <1>4, <1>5, <1>6, <3>3 DEF LobbyIInv, LobbyMembershipAgrees
    <3> QED
      BY <3>1, <3>2, <3>3
  <2>2. ASSUME NEW m \in Open'
        PROVE  lobbies'[m].players # {}
    <3>1. CASE m = l
      BY <1>4, <1>5, <3>1
    <3>2. CASE m # l
      BY <1>5, <1>6, <3>2 DEF LobbyIInv, LobbyMembershipAgrees, Open
    <3> QED
      BY <3>1, <3>2
  <2> QED
    BY <2>1, <2>2 DEF LobbyMembershipAgrees
<1>9. CountdownIffFull'
  <2>1. \A m \in Open : Settled(lobbies[m])
    BY CountdownSettled DEF LobbyIInv
  <2>2. ASSUME NEW m \in Open'
        PROVE  Settled(lobbies'[m])
    <3>1. CASE m = l
      BY <1>4, <1>5, <3>1
    <3>2. CASE m # l
      BY <1>5, <1>6, <2>1, <3>2 DEF Open
    <3> QED
      BY <3>1, <3>2
  <2> QED
    BY <2>2 DEF CountdownIffFull, Settled
<1>10. FreshLobbies'
  BY <1>1, <1>5 DEF LobbyIInv, FreshLobbies, l
<1> QED
  BY <1>7, <1>8, <1>9, <1>10 DEF LobbyIInv

\* Leaving: the lobby that is left behind is not full and does not count.
LEMMA LeaveLobbyIInv ==
    ASSUME LobbyIInv, NEW p \in Players, LeaveLobby(p)
    PROVE  LobbyIInv'
<1> DEFINE l == playerLobby[p]
           rest == lobbies[l].players \ {p}
           after == [lobbies[l] EXCEPT !.players = rest, !.countdown = FALSE]
<1>1. l \in LobbyIds /\ l \in Open /\ lobbies[l] \in Lobby /\ p \in lobbies[l].players
  BY DEF LeaveLobby, Open, LobbyIInv, LobbyTypeOK, LobbyMembershipAgrees
<1>2. /\ lobbies' = [lobbies EXCEPT ![l] = IF rest = {} THEN NoLobby ELSE after]
      /\ playerLobby' = [playerLobby EXCEPT ![p] = 0]
      /\ nextLobby' = nextLobby
  BY DEF LeaveLobby
<1>3. /\ after \in Lobby /\ after # NoLobby
      /\ after.players = rest /\ after.kind = lobbies[l].kind /\ after.countdown = FALSE
  BY <1>1 DEF Lobby
<1>4. Settled(after)
  <2>1. Cardinality(rest) = Cardinality(lobbies[l].players) - 1
    BY <1>1, LobbyFields, FS_RemoveElement
  <2>2. /\ Cardinality(lobbies[l].players) \in Nat /\ Capacity[lobbies[l].kind] \in Nat
        /\ Cardinality(lobbies[l].players) <= Capacity[lobbies[l].kind]
    BY <1>1, LobbyFields DEF LobbyIInv, CountdownIffFull
  <2> HIDE DEF rest, after
  <2>3. /\ Cardinality(rest) <= Capacity[lobbies[l].kind]
        /\ Cardinality(rest) # Capacity[lobbies[l].kind]
    BY <2>1, <2>2
  <2> QED
    BY <1>3, <2>3 DEF Settled
<1> HIDE DEF after
<1>5. /\ lobbies'[l] = IF rest = {} THEN NoLobby ELSE after
      /\ \A m \in LobbyIds \ {l} : lobbies'[m] = lobbies[m]
      /\ playerLobby'[p] = 0
      /\ \A q \in Players \ {p} : playerLobby'[q] = playerLobby[q]
  BY <1>1, <1>2 DEF LobbyIInv, LobbyTypeOK
<1>6. Open' = IF rest = {} THEN Open \ {l} ELSE Open
  BY <1>1, <1>3, <1>5 DEF Open
<1>7. LobbyTypeOK'
  BY <1>2, <1>3 DEF LobbyIInv, LobbyTypeOK
<1>8. \A q \in Players, m \in LobbyIds : playerLobby[q] = m <=> m \in Open /\ q \in lobbies[m].players
  BY DEF LobbyIInv, LobbyMembershipAgrees
<1>9. \A q \in rest : q # p /\ q \in lobbies[l].players
  OBVIOUS
<1>10. \A q \in Players \ {p} : playerLobby[q] = l => q \in rest
  BY <1>1, <1>8
<1>11. p \notin rest /\ 0 \notin LobbyIds
  OBVIOUS
<1> HIDE DEF l, rest
<1>12. LobbyMembershipAgrees'
  <2>1. ASSUME NEW q \in Players, NEW m \in LobbyIds
        PROVE  playerLobby'[q] = m <=> m \in Open' /\ q \in lobbies'[m].players
    <3>1. CASE m = l /\ rest = {}
      BY <1>1, <1>5, <1>6, <1>10, <1>11, <3>1
    <3>2. CASE m = l /\ rest # {}
      BY <1>1, <1>3, <1>5, <1>6, <1>8, <1>9, <1>10, <1>11, <3>2
    <3>3. CASE m # l
      BY <1>1, <1>5, <1>6, <1>8, <1>11, <3>3 DEF l
    <3> QED
      BY <3>1, <3>2, <3>3
  <2>2. \A m \in Open' : lobbies'[m].players # {}
    BY <1>1, <1>3, <1>5, <1>6 DEF LobbyIInv, LobbyMembershipAgrees, Open
  <2> QED
    BY <2>1, <2>2 DEF LobbyMembershipAgrees
<1>13. CountdownIffFull'
  <2>1. \A m \in Open : Settled(lobbies[m])
    BY CountdownSettled DEF LobbyIInv
  <2>2. ASSUME NEW m \in Open'
        PROVE  Settled(lobbies'[m])
    <3>1. CASE m = l
      BY <1>4, <1>5, <1>6, <3>1
    <3>2. CASE m # l
      BY <1>5, <1>6, <2>1, <3>2 DEF Open
    <3> QED
      BY <3>1, <3>2
  <2> QED
    BY <2>2 DEF CountdownIffFull, Settled
<1>14. FreshLobbies'
  BY <1>1, <1>2, <1>5 DEF LobbyIInv, FreshLobbies, Open
<1> QED
  BY <1>7, <1>12, <1>13, <1>14 DEF LobbyIInv

\* Starting: the lobby is gone and so are its players' entries.
LEMMA StartLobbyIInv ==
    ASSUME LobbyIInv, NEW l \in LobbyIds, StartLobby(l)
    PROVE  LobbyIInv'
<1>1. /\ l \in Open
      /\ playerLobby' = [p \in Players |-> IF p \in lobbies[l].players THEN 0 ELSE playerLobby[p]]
      /\ lobbies' = [lobbies EXCEPT ![l] = NoLobby]
      /\ nextLobby' = nextLobby
  BY DEF StartLobby
<1>2. /\ lobbies'[l] = NoLobby
      /\ \A m \in LobbyIds \ {l} : lobbies'[m] = lobbies[m]
  BY <1>1 DEF LobbyIInv, LobbyTypeOK
<1>3. Open' = Open \ {l}
  BY <1>2 DEF Open
<1>4. LobbyTypeOK'
  BY <1>1 DEF LobbyIInv, LobbyTypeOK
<1>5. LobbyMembershipAgrees'
  <2>1. ASSUME NEW q \in Players, NEW m \in LobbyIds
        PROVE  playerLobby'[q] = m <=> m \in Open' /\ q \in lobbies'[m].players
    <3> DEFINE starts == q \in lobbies[l].players
    <3>1. /\ playerLobby[q] = m <=> m \in Open /\ q \in lobbies[m].players
          /\ playerLobby[q] = l <=> starts
      BY <1>1 DEF LobbyIInv, LobbyMembershipAgrees
    <3>2. playerLobby'[q] = IF starts THEN 0 ELSE playerLobby[q]
      BY <1>1
    <3> HIDE DEF starts
    <3>3. CASE m = l
      BY <1>3, <3>1, <3>2, <3>3
    <3>4. CASE m # l
      BY <1>2, <1>3, <3>1, <3>2, <3>4
    <3> QED
      BY <3>3, <3>4
  <2>2. \A m \in Open' : lobbies'[m].players # {}
    BY <1>2, <1>3 DEF LobbyIInv, LobbyMembershipAgrees, Open
  <2> QED
    BY <2>1, <2>2 DEF LobbyMembershipAgrees
<1>6. CountdownIffFull'
  BY <1>2, <1>3 DEF LobbyIInv, CountdownIffFull, Open
<1>7. FreshLobbies'
  BY <1>1, <1>2 DEF LobbyIInv, FreshLobbies
<1> QED
  BY <1>4, <1>5, <1>6, <1>7 DEF LobbyIInv

LEMMA NextIInv == LobbyIInv /\ [LobbyNext]_lobbyVars => LobbyIInv'
<1> SUFFICES ASSUME LobbyIInv, [LobbyNext]_lobbyVars
             PROVE  LobbyIInv'
  OBVIOUS
<1>1. ASSUME NEW p \in Players, NEW kind \in Kinds, JoinLobby(p, kind)
      PROVE  LobbyIInv'
  BY <1>1, JoinOpenIInv, JoinNewIInv DEF JoinLobby
<1>2. ASSUME NEW p \in Players, LeaveLobby(p)
      PROVE  LobbyIInv'
  BY <1>2, LeaveLobbyIInv
<1>3. ASSUME NEW l \in LobbyIds, StartLobby(l)
      PROVE  LobbyIInv'
  BY <1>3, StartLobbyIInv
<1>4. CASE UNCHANGED lobbyVars
  BY <1>4 DEF lobbyVars, LobbyIInv, LobbyTypeOK, LobbyMembershipAgrees, CountdownIffFull, FreshLobbies, Open
<1> QED
  BY <1>1, <1>2, <1>3, <1>4 DEF LobbyNext, Tick

LEMMA AlwaysLobbyIInv == LobbySpec => []LobbyIInv
  BY InitIInv, NextIInv, PTL DEF LobbySpec

------------------------------------------------------------------------------
\* Every lobby and every entry of player_to_lobby_ keeps its type.
THEOREM LobbiesTypeCorrect == LobbySpec => []LobbyTypeOK
<1>1. LobbyIInv => LobbyTypeOK
  BY DEF LobbyIInv
<1> QED
  BY <1>1, AlwaysLobbyIInv, PTL

\* player_to_lobby_ and the lobbies' lists agree; no lobby is empty.
THEOREM LobbiesMembership == LobbySpec => []LobbyMembershipAgrees
<1>1. LobbyIInv => LobbyMembershipAgrees
  BY DEF LobbyIInv
<1> QED
  BY <1>1, AlwaysLobbyIInv, PTL

\* A lobby counts down exactly while it is full and is never more than full.
THEOREM LobbiesCountdown == LobbySpec => []CountdownIffFull
<1>1. LobbyIInv => CountdownIffFull
  BY DEF LobbyIInv
<1> QED
  BY <1>1, AlwaysLobbyIInv, PTL

\* A join opens a lobby only when every other lobby of its kind is full.
LEMMA JoinOpensWhenNeeded ==
    ASSUME LobbyIInv, NEW p \in Players, NEW kind \in Kinds, JoinLobby(p, kind),
           nextLobby' # nextLobby, NEW l \in Open,
           lobbies[l].kind = lobbies'[nextLobby].kind
    PROVE  Cardinality(lobbies[l].players) = Capacity[lobbies[l].kind]
<1> DEFINE empty == [players |-> {}, kind |-> kind, countdown |-> FALSE]
<1>1. /\ Available(kind) = {} /\ nextLobby \in LobbyIds
      /\ lobbies' = [lobbies EXCEPT ![nextLobby] = Entered(empty, p)]
  BY DEF JoinLobby
<1>2. Entered(empty, p).kind = kind
  BY DEF Entered
<1>3. lobbies'[nextLobby].kind = kind
  BY <1>1, <1>2 DEF LobbyIInv, LobbyTypeOK
<1>4. /\ l \in LobbyIds /\ lobbies[l] \in Lobby
      /\ ~(Cardinality(lobbies[l].players) < Capacity[kind] /\ ~lobbies[l].countdown)
  BY <1>1, <1>3 DEF Available, Open, LobbyIInv, LobbyTypeOK
<1>5. /\ Cardinality(lobbies[l].players) <= Capacity[lobbies[l].kind]
      /\ lobbies[l].countdown <=> Cardinality(lobbies[l].players) = Capacity[lobbies[l].kind]
  BY DEF LobbyIInv, CountdownIffFull
<1>6. Cardinality(lobbies[l].players) \in Nat /\ Capacity[lobbies[l].kind] \in Nat
  BY <1>4, LobbyFields
<1> QED
  BY <1>3, <1>4, <1>5, <1>6

\* Players are not scattered over half-empty lobbies of one kind.
THEOREM LobbiesOpenWhenNeeded == LobbySpec => OpensOnlyWhenNeeded
<1> DEFINE Needed ==
        nextLobby' # nextLobby =>
            \A l \in Open : lobbies[l].kind = lobbies'[nextLobby].kind =>
                Cardinality(lobbies[l].players) = Capacity[lobbies[l].kind]
<1>1. LobbyIInv /\ [LobbyNext]_lobbyVars => [Needed]_lobbyVars
  <2> SUFFICES ASSUME LobbyIInv, LobbyNext, nextLobby' # nextLobby
               PROVE  Needed
    BY DEF lobbyVars
  <2>1. PICK p \in Players, kind \in Kinds : JoinLobby(p, kind)
    BY DEF LobbyNext, LeaveLobby, StartLobby, Tick, lobbyVars
  <2> QED
    BY <2>1, JoinOpensWhenNeeded
<1> QED
  BY <1>1, AlwaysLobbyIInv, PTL DEF LobbySpec, OpensOnlyWhenNeeded

------------------------------------------------------------------------------
(* The server                                                              *)

\* next_session_id_ has not reached these ids yet
FreshSessions ==
    \A s \in SessionIds : s >= nextSession => sessions[s].life = "none"

\* Who is not connected has no PlayerInfo, who has never been is in no session
OthersForgotten ==
    \A p \in Players :
        /\ conn[p] # "on" => info[p] = NoInfo
        /\ conn[p] = "new" => \A s \in SessionIds : p \notin sessions[s].players

\* lobby_id names a room only while the player is in it
RoomKnown == \A p \in Players : info[p].lobby \in RoomIds => playerRoom[p] = info[p].lobby

ServerIInv ==
    /\ IInv
    /\ ServerTypeOK
    /\ SessionsAgree
    /\ OneSessionEach
    /\ FreshSessions
    /\ OthersForgotten
    /\ RoomKnown

------------------------------------------------------------------------------
(* The managers                                                            *)

\* Every handler changes the rooms as RoomManager allows.
LEMMA RoomsStep == [ServerNext]_serverVars => [Next]_vars
  <1> SUFFICES ASSUME [ServerNext]_serverVars
               PROVE  [Next]_vars
    OBVIOUS
  <1>1. ASSUME NEW p \in Players,
               Connect(p) \/ ClientDisconnect(p) \/ TcpDisconnected(p) \/ OnLeaveLobby(p)
                 \/ \E kind \in Kinds : OnJoinLobby(p, kind)
        PROVE  UNCHANGED vars
    BY <1>1 DEF Connect, ClientDisconnect, TcpDisconnected, OnLeaveLobby, OnJoinLobby
  <1>2. ASSUME NEW p \in Players, OnLeaveRoom(p)
        PROVE  Next
    BY <1>2 DEF OnLeaveRoom, Next
  <1>3. ASSUME NEW p \in Players, NEW size \in Sizes, OnCreateRoom(p, size)
        PROVE  Next
    BY <1>3 DEF OnCreateRoom, Unattached, Next
  <1>4. ASSUME NEW p \in Players, NEW r \in RoomIds, OnJoinRoom(p, r) \/ OnStartGame(p, r)
        PROVE  Next
    BY <1>4 DEF OnJoinRoom, OnStartGame, Unattached, Next
  <1>5. ASSUME NEW l \in LobbyIds, LobbyCountdownOver(l)
        PROVE  UNCHANGED vars
    BY <1>5 DEF LobbyCountdownOver
  <1>6. ASSUME NEW r \in RoomIds, RoomCountdownOver(r)
        PROVE  Next
    BY <1>6 DEF RoomCountdownOver, Next
  <1>7. CASE UpdateRooms
    BY <1>7 DEF UpdateRooms, Next
  <1>8. ASSUME NEW s \in SessionIds, GameOver(s)
        PROVE  UNCHANGED vars
    BY <1>8 DEF GameOver
  <1>9. CASE UNCHANGED serverVars
    BY <1>9 DEF serverVars, vars
  <1> QED
    BY <1>1, <1>2, <1>3, <1>4, <1>5, <1>6, <1>7, <1>8, <1>9 DEF ServerNext

\* Every handler changes the lobbies as LobbyManager allows.
LEMMA LobbiesStep == [ServerNext]_serverVars => [LobbyNext]_lobbyVars
  <1> SUFFICES ASSUME [ServerNext]_serverVars
               PROVE  [LobbyNext]_lobbyVars
    OBVIOUS
  <1>1. ASSUME NEW p \in Players, Connect(p) \/ ClientDisconnect(p) \/ OnLeaveRoom(p)
        PROVE  UNCHANGED lobbyVars
    BY <1>1 DEF Connect, ClientDisconnect, OnLeaveRoom
  <1>2. ASSUME NEW p \in Players, TcpDisconnected(p) \/ OnLeaveLobby(p)
        PROVE  [LobbyNext]_lobbyVars
    BY <1>2 DEF TcpDisconnected, OnLeaveLobby, LobbyNext
  <1>3. ASSUME NEW p \in Players, NEW kind \in Kinds, OnJoinLobby(p, kind)
        PROVE  LobbyNext
    BY <1>3 DEF OnJoinLobby, LobbyNext
  <1>4. ASSUME NEW p \in Players, NEW size \in Sizes, OnCreateRoom(p, size)
        PROVE  UNCHANGED lobbyVars
    BY <1>4 DEF OnCreateRoom
  <1>5. ASSUME NEW p \in Players, NEW r \in RoomIds, OnJoinRoom(p, r) \/ OnStartGame(p, r)
        PROVE  UNCHANGED lobbyVars
    BY <1>5 DEF OnJoinRoom, OnStartGame
  <1>6. ASSUME NEW l \in LobbyIds, LobbyCountdownOver(l)
        PROVE  LobbyNext
    BY <1>6 DEF LobbyCountdownOver, LobbyNext
  <1>7. ASSUME NEW r \in RoomIds, RoomCountdownOver(r)
        PROVE  UNCHANGED lobbyVars
    BY <1>7 DEF RoomCountdownOver
  <1>8. CASE UpdateRooms
    BY <1>8 DEF UpdateRooms
  <1>9. ASSUME NEW s \in SessionIds, GameOver(s)
        PROVE  UNCHANGED lobbyVars
    BY <1>9 DEF GameOver
  <1>10. CASE UNCHANGED serverVars
    BY <1>10 DEF serverVars, lobbyVars
  <1> QED
    BY <1>1, <1>2, <1>3, <1>4, <1>5, <1>6, <1>7, <1>8, <1>9, <1>10 DEF ServerNext

------------------------------------------------------------------------------
(* Types                                                                   *)

\* The operations of the lobbies keep their types.
LEMMA LobbiesTypeStep == LobbyTypeOK /\ [LobbyNext]_lobbyVars => LobbyTypeOK'
  <1> SUFFICES ASSUME LobbyTypeOK, [LobbyNext]_lobbyVars
               PROVE  LobbyTypeOK'
    OBVIOUS
  <1> USE DEF LobbyTypeOK
  <1>1. ASSUME NEW lobby \in Lobby, NEW p \in Players
        PROVE  Entered(lobby, p) \in Lobby
    <2> DEFINE full == Cardinality(lobby.players) + 1 >= Capacity[lobby.kind]
    <2>1. Entered(lobby, p) = [lobby EXCEPT !.players = @ \cup {p}, !.countdown = full]
      BY DEF Entered
    <2>2. full \in BOOLEAN
      OBVIOUS
    <2> HIDE DEF full
    <2> QED
      BY <2>1, <2>2 DEF Lobby
  <1>2. ASSUME NEW p \in Players, NEW kind \in Kinds, JoinLobby(p, kind)
        PROVE  LobbyTypeOK'
    <2>1. ASSUME NEW l \in Available(kind),
                 lobbies' = [lobbies EXCEPT ![l] = Entered(@, p)],
                 playerLobby' = [playerLobby EXCEPT ![p] = l], UNCHANGED nextLobby
          PROVE  LobbyTypeOK'
      <3>1. l \in LobbyIds /\ lobbies[l] \in Lobby
        BY DEF Available, Open
      <3> QED
        BY <1>1, <2>1, <3>1
    <2>2. ASSUME nextLobby \in LobbyIds, nextLobby' = nextLobby + 1,
                 lobbies' = [lobbies EXCEPT ![nextLobby] =
                     Entered([players |-> {}, kind |-> kind, countdown |-> FALSE], p)],
                 playerLobby' = [playerLobby EXCEPT ![p] = nextLobby]
          PROVE  LobbyTypeOK'
      <3>1. [players |-> {}, kind |-> kind, countdown |-> FALSE] \in Lobby
        BY DEF Lobby
      <3> QED
        BY <1>1, <2>2, <3>1
    <2> QED
      BY <1>2, <2>1, <2>2 DEF JoinLobby
  <1>3. ASSUME NEW p \in Players, LeaveLobby(p)
        PROVE  LobbyTypeOK'
    <2> DEFINE l == playerLobby[p]
               rest == lobbies[l].players \ {p}
               left == IF rest = {} THEN NoLobby
                       ELSE [lobbies[l] EXCEPT !.players = rest, !.countdown = FALSE]
    <2>1. /\ l \in LobbyIds /\ lobbies[l] \in Lobby
          /\ lobbies' = [lobbies EXCEPT ![l] = left]
          /\ playerLobby' = [playerLobby EXCEPT ![p] = 0] /\ nextLobby' = nextLobby
      BY <1>3 DEF LeaveLobby, Open
    <2>2. left \in Lobby \cup {NoLobby}
      BY <2>1 DEF Lobby
    <2> HIDE DEF left
    <2> QED
      BY <2>1, <2>2
  <1>4. ASSUME NEW l \in LobbyIds, StartLobby(l)
        PROVE  LobbyTypeOK'
    BY <1>4 DEF StartLobby
  <1>5. CASE UNCHANGED lobbyVars
    BY <1>5 DEF lobbyVars
  <1> QED
    BY <1>2, <1>3, <1>4, <1>5 DEF LobbyNext, Tick, lobbyVars, lobbyVars

\* A lobby a player has just joined is one of LobbyIds.
LEMMA JoinedLobby ==
    ASSUME LobbyTypeOK, NEW p \in Players, NEW kind \in Kinds, JoinLobby(p, kind)
    PROVE  playerLobby'[p] \in LobbyIds
  BY DEF LobbyTypeOK, JoinLobby, Available, Open

\* What the server itself keeps has its types.
OwnTypes ==
    /\ conn \in [Players -> {"new", "on", "gone"}]
    /\ info \in [Players -> PlayerInfo]
    /\ sessions \in [SessionIds -> GameSession]
    /\ nextSession \in Nat

------------------------------------------------------------------------------
(* Clients and sessions                                                    *)

USE SessionIdsAssumption, IdsApart

\* What the sessions and session_id have to do with each other.
SessionsInv ==
    /\ OwnTypes /\ SessionsAgree /\ OneSessionEach /\ FreshSessions /\ OthersForgotten

\* A step that starts and ends no game and moves nobody: session_id stays what
\* it was, but for somebody who comes or goes.
LEMMA QuietStep ==
    ASSUME SessionsInv, UNCHANGED sessionVars,
           conn' \in [Players -> {"new", "on", "gone"}],
           info' \in [Players -> PlayerInfo],
           \A p \in Players :
              \/ conn'[p] = conn[p] /\ conn[p] = "on" /\ info'[p].session = info[p].session
              \/ conn'[p] = conn[p] /\ info'[p] = info[p]
              \/ conn[p] = "new" /\ conn'[p] = "on" /\ info'[p] = info[p]
              \/ conn'[p] = "gone" /\ info'[p] = NoInfo
    PROVE  SessionsInv'
  <1> USE DEF SessionsInv, OwnTypes
  <1>1. OwnTypes'
    BY DEF sessionVars
  <1>2. SessionsAgree'
    <2> SUFFICES ASSUME NEW p \in Players, conn'[p] = "on", NEW s \in SessionIds
                 PROVE  info'[p].session = s <=> sessions[s].life = "active" /\ p \in sessions[s].players
      BY DEF SessionsAgree, Connected, Active, sessionVars
    <2>1. CASE conn[p] = "on"
      BY <2>1 DEF SessionsAgree, Connected, Active
    <2>2. CASE conn[p] = "new"
      BY <2>2 DEF OthersForgotten, NoInfo
    <2> QED
      BY <2>1, <2>2
  <1>3. OneSessionEach' /\ FreshSessions'
    BY DEF OneSessionEach, FreshSessions, Active, sessionVars
  <1>4. OthersForgotten'
    BY DEF OthersForgotten, sessionVars
  <1> QED
    BY <1>1, <1>2, <1>3, <1>4

\* What MoveTo makes of a session and of what is known of a player.
SessionMoved(s, new, movers, ended) ==
    /\ sessions'[s].life = IF s = new THEN "active" ELSE IF s \in ended THEN "over" ELSE sessions[s].life
    /\ sessions'[s].players = IF s = new THEN movers ELSE sessions[s].players \ movers
    /\ sessions'[s] \in GameSession

PlayerMoved(p, new, movers, ended) ==
    /\ p \in movers => info'[p] = [lobby |-> 0, session |-> new]
    /\ p \notin movers /\ info[p].session \notin ended => info'[p] = info[p]
    /\ p \notin movers => info'[p].lobby = info[p].lobby
    /\ info'[p].session = IF p \in movers THEN new
                          ELSE IF info[p].session \in ended THEN 0 ELSE info[p].session
    /\ info'[p] \in PlayerInfo

LEMMA MovedSession ==
    ASSUME OwnTypes, NEW new \in SessionIds, NEW movers \in SUBSET Players, NEW ended,
           MoveTo(new, movers, ended), NEW s \in SessionIds
    PROVE  SessionMoved(s, new, movers, ended)
  <1>1. sessions[s] \in GameSession
    BY DEF OwnTypes
  <1>2. CASE s = new
    <2>1. sessions'[s] = [life |-> "active", players |-> movers]
      BY <1>2 DEF MoveTo
    <2> QED
      BY <1>1, <1>2, <2>1 DEF GameSession, SessionMoved
  <1>3. CASE s # new
    <2> DEFINE life == IF s \in ended THEN "over" ELSE sessions[s].life
    <2>1. sessions'[s] = [life |-> life, players |-> sessions[s].players \ movers]
      BY <1>3 DEF MoveTo
    <2>2. life \in {"none", "active", "over"} /\ sessions[s].players \subseteq Players
      BY <1>1 DEF GameSession
    <2> QED
      BY <1>3, <2>1, <2>2 DEF GameSession, SessionMoved
  <1> QED
    BY <1>2, <1>3

LEMMA MovedPlayer ==
    ASSUME OwnTypes, NEW new \in SessionIds, NEW movers \in SUBSET Players, NEW ended,
           MoveTo(new, movers, ended), NEW p \in Players
    PROVE  PlayerMoved(p, new, movers, ended)
  <1>1. info[p] \in PlayerInfo
    BY DEF OwnTypes
  <1>2. info'[p] = IF p \in movers THEN [lobby |-> 0, session |-> new]
                   ELSE IF info[p].session \in ended THEN [info[p] EXCEPT !.session = 0] ELSE info[p]
    BY DEF MoveTo
  <1>3. CASE p \in movers
    BY <1>1, <1>2, <1>3 DEF PlayerInfo, PlayerMoved
  <1>4. CASE p \notin movers /\ info[p].session \in ended
    BY <1>1, <1>2, <1>4 DEF PlayerInfo, PlayerMoved
  <1>5. CASE p \notin movers /\ info[p].session \notin ended
    BY <1>1, <1>2, <1>5 DEF PlayerInfo, PlayerMoved
  <1> QED
    BY <1>3, <1>4, <1>5

\* on_game_start
LEMMA GameStartStep ==
    ASSUME SessionsInv, NEW players, OnGameStart(players), UNCHANGED conn
    PROVE  SessionsInv'
  <1> USE DEF SessionsInv, OwnTypes
  <1> DEFINE new == nextSession
             movers == players \cap Connected
             old == {info[p].session : p \in movers} \ {0}
  <1>1. /\ new \in SessionIds /\ nextSession' = new + 1 /\ movers \subseteq Players
        /\ \E ended \in SUBSET old : MoveTo(new, movers, ended)
    BY DEF OnGameStart, Connected
  <1>2. PICK ended \in SUBSET old : MoveTo(new, movers, ended)
    BY <1>1
  <1> HIDE DEF movers, old
  <1>3. \A s \in SessionIds : SessionMoved(s, new, movers, ended)
    BY <1>1, <1>2, MovedSession
  <1>4. \A p \in Players : PlayerMoved(p, new, movers, ended)
    BY <1>1, <1>2, MovedPlayer
  <1> USE DEF SessionMoved, PlayerMoved
  <1>5. \A p \in movers : conn[p] = "on"
    BY DEF Connected, movers
  <1>6. sessions[new].life = "none" /\ new # 0
    BY <1>1 DEF FreshSessions
  <1>7. DOMAIN info' = Players /\ DOMAIN sessions' = SessionIds
        /\ info' = [p \in Players |-> info'[p]] /\ sessions' = [s \in SessionIds |-> sessions'[s]]
    BY <1>2 DEF MoveTo
  <1>8. 0 \notin ended /\ new \notin ended
    <2>1. ASSUME NEW p \in movers PROVE info[p].session # new
      BY <1>1, <1>5, <1>6 DEF SessionsAgree, Connected, Active
    <2> QED
      BY <1>2, <2>1 DEF old
  <1> HIDE DEF new
  <1>11. OwnTypes'
    <2>1. info' \in [Players -> PlayerInfo] /\ sessions' \in [SessionIds -> GameSession]
      BY <1>3, <1>4, <1>7
    <2> QED
      BY <1>1, <2>1 DEF new
  <1>12. SessionsAgree'
    <2> SUFFICES ASSUME NEW p \in Players, conn[p] = "on", NEW s \in SessionIds
                 PROVE  info'[p].session = s <=> sessions'[s].life = "active" /\ p \in sessions'[s].players
      BY DEF SessionsAgree, Connected, Active
    <2>1. info[p].session = s <=> sessions[s].life = "active" /\ p \in sessions[s].players
      BY DEF SessionsAgree, Connected, Active
    <2>2. sessions'[s].life = (IF s = new THEN "active" ELSE IF s \in ended THEN "over" ELSE sessions[s].life)
          /\ sessions'[s].players = (IF s = new THEN movers ELSE sessions[s].players \ movers)
      BY <1>3
    <2>3. s # 0
      OBVIOUS
    <2>4. CASE p \in movers
      <3>1. info'[p].session = new
        BY <1>4, <2>4
      <3> QED
        BY <2>2, <2>4, <3>1
    <2>5. CASE p \notin movers
      <3>1. info'[p].session = IF info[p].session \in ended THEN 0 ELSE info[p].session
        BY <1>4, <2>5
      <3>2. CASE s = new
        <4>1. info[p].session # new
          BY <1>6, <2>1, <3>2
        <4> QED
          BY <2>2, <2>3, <2>5, <3>1, <3>2, <4>1
      <3>3. CASE s # new
        BY <2>1, <2>2, <2>3, <2>5, <3>1, <3>3
      <3> QED
        BY <3>2, <3>3
    <2> QED
      BY <2>4, <2>5
  <1>13. OneSessionEach'
    <2> SUFFICES ASSUME NEW s \in SessionIds, NEW t \in SessionIds, s # t,
                        sessions'[s].life = "active", sessions'[t].life = "active"
                 PROVE  sessions'[s].players \cap sessions'[t].players = {}
      BY DEF OneSessionEach, Active
    <2>1. ASSUME NEW u \in SessionIds, u # new, sessions'[u].life = "active"
          PROVE  sessions[u].life = "active" /\ sessions'[u].players = sessions[u].players \ movers
      BY <1>3, <2>1
    <2>2. sessions'[new].players = movers
      BY <1>1, <1>3
    <2> QED
      BY <2>1, <2>2 DEF OneSessionEach, Active
  <1>14. FreshSessions'
    <2> SUFFICES ASSUME NEW s \in SessionIds, s >= nextSession'
                 PROVE  sessions'[s].life = "none"
      BY DEF FreshSessions
    <2>1. s # new /\ s >= nextSession
      BY <1>1 DEF new
    <2>2. sessions[s].life = "none"
      BY <2>1 DEF FreshSessions
    <2>3. \A p \in Players : conn[p] = "on" => info[p].session # s
      BY <2>2 DEF SessionsAgree, Connected, Active
    <2>4. s \notin ended
      BY <1>1, <1>2, <1>5, <2>3 DEF old
    <2> QED
      BY <1>3, <2>1, <2>2, <2>4
  <1>15. OthersForgotten'
    <2> SUFFICES ASSUME NEW p \in Players, conn[p] # "on"
                 PROVE  /\ info'[p] = NoInfo
                        /\ conn[p] = "new" => \A s \in SessionIds : p \notin sessions'[s].players
      BY DEF OthersForgotten
    <2>1. p \notin movers /\ info[p] = NoInfo
      BY <1>5 DEF OthersForgotten
    <2>2. info[p].session \notin ended
      BY <1>8, <2>1 DEF NoInfo
    <2>3. info'[p] = NoInfo
      BY <1>4, <2>1, <2>2
    <2>4. conn[p] = "new" => \A s \in SessionIds : p \notin sessions[s].players
      BY DEF OthersForgotten
    <2> QED
      BY <1>3, <2>1, <2>3, <2>4
  <1> QED
    BY <1>11, <1>12, <1>13, <1>14, <1>15

\* on_game_over
LEMMA GameOverStep ==
    ASSUME SessionsInv, NEW s \in SessionIds, GameOver(s)
    PROVE  SessionsInv'
  <1> USE DEF SessionsInv, OwnTypes
  <1>1. /\ s \in Active /\ UNCHANGED <<conn, nextSession>>
        /\ sessions' = [sessions EXCEPT ![s].life = "over"]
        /\ info' = [p \in Players |->
              IF info[p].session = s \/ (p \in sessions[s].players /\ p \in Connected)
              THEN [info[p] EXCEPT !.session = 0] ELSE info[p]]
    BY DEF GameOver
  <1>2. \A t \in SessionIds : /\ sessions'[t].players = sessions[t].players
                              /\ sessions'[t].life = IF t = s THEN "over" ELSE sessions[t].life
    BY <1>1 DEF GameSession
  <1>3. ASSUME NEW p \in Players
        PROVE  info'[p].session = (IF info[p].session = s THEN 0 ELSE info[p].session)
    BY <1>1 DEF SessionsAgree, PlayerInfo
  <1>4. OwnTypes'
    <2>1. sessions' \in [SessionIds -> GameSession]
      BY <1>1 DEF GameSession
    <2>2. info' \in [Players -> PlayerInfo]
      BY <1>1 DEF PlayerInfo
    <2> QED
      BY <1>1, <2>1, <2>2
  <1>5. SessionsAgree'
    <2> SUFFICES ASSUME NEW p \in Players, conn[p] = "on", NEW t \in SessionIds
                 PROVE  info'[p].session = t <=> sessions'[t].life = "active" /\ p \in sessions'[t].players
      BY <1>1 DEF SessionsAgree, Connected, Active
    <2>1. info[p].session = t <=> sessions[t].life = "active" /\ p \in sessions[t].players
      BY DEF SessionsAgree, Connected, Active
    <2>2. t # 0
      OBVIOUS
    <2> QED
      BY <1>2, <1>3, <2>1, <2>2
  <1>6. OneSessionEach' /\ FreshSessions'
    BY <1>1, <1>2 DEF OneSessionEach, FreshSessions, Active
  <1>7. OthersForgotten'
    <2> SUFFICES ASSUME NEW p \in Players, conn[p] # "on"
                 PROVE  info'[p] = NoInfo
      BY <1>1, <1>2 DEF OthersForgotten
    <2>1. info[p] = NoInfo /\ info[p].session # s
      BY DEF OthersForgotten, NoInfo
    <2> QED
      BY <1>1, <2>1 DEF Connected
  <1> QED
    BY <1>4, <1>5, <1>6, <1>7

------------------------------------------------------------------------------
(* The inductive invariant                                                 *)

\* Handlers that leave the sessions alone.
LEMMA HandlersKeepSessions ==
    ASSUME SessionsInv, LobbyTypeOK, NEW p \in Players,
           \/ Connect(p) \/ ClientDisconnect(p) \/ TcpDisconnected(p)
           \/ OnLeaveLobby(p) \/ OnLeaveRoom(p)
           \/ \E kind \in Kinds : OnJoinLobby(p, kind)
           \/ \E size \in Sizes : OnCreateRoom(p, size)
           \/ \E r \in RoomIds : OnJoinRoom(p, r) \/ OnStartGame(p, r)
    PROVE  SessionsInv'
  <1> DEFINE KeepsSessions ==
        /\ UNCHANGED sessionVars
        /\ conn' \in [Players -> {"new", "on", "gone"}]
        /\ info' \in [Players -> PlayerInfo]
        /\ \A q \in Players :
              \/ conn'[q] = conn[q] /\ conn[q] = "on" /\ info'[q].session = info[q].session
              \/ conn'[q] = conn[q] /\ info'[q] = info[q]
              \/ conn[q] = "new" /\ conn'[q] = "on" /\ info'[q] = info[q]
              \/ conn'[q] = "gone" /\ info'[q] = NoInfo
  <1> SUFFICES KeepsSessions
    BY QuietStep
  <1> USE DEF SessionsInv, OwnTypes
  <1>1. CASE Connect(p)
    BY <1>1 DEF Connect
  <1>2. CASE ClientDisconnect(p) \/ TcpDisconnected(p)
    <2>1. UNCHANGED sessionVars /\ Forget(p)
      BY <1>2 DEF ClientDisconnect, TcpDisconnected
    <2>2. NoInfo \in PlayerInfo
      BY DEF NoInfo, PlayerInfo
    <2> QED
      BY <2>1, <2>2 DEF Forget
  <1>3. ASSUME NEW l \in {0} \cup LobbyIds \cup RoomIds, p \in Connected,
               info' = [info EXCEPT ![p].lobby = l], UNCHANGED <<conn, sessionVars>>
        PROVE  KeepsSessions
    <2>1. /\ info'[p].session = info[p].session
          /\ info' \in [Players -> PlayerInfo]
          /\ \A q \in Players : q # p => info'[q] = info[q]
      BY <1>3 DEF PlayerInfo
    <2> QED
      BY <1>3, <2>1 DEF Connected
  <1>4. CASE OnLeaveLobby(p) \/ OnLeaveRoom(p)
    BY <1>3, <1>4 DEF OnLeaveLobby, OnLeaveRoom
  <1>5. ASSUME NEW kind \in Kinds, OnJoinLobby(p, kind)
        PROVE  KeepsSessions
    BY <1>3, <1>5, JoinedLobby DEF OnJoinLobby
  <1>6. ASSUME NEW size \in Sizes, OnCreateRoom(p, size)
        PROVE  KeepsSessions
    BY <1>3, <1>6 DEF OnCreateRoom, Unattached, CreateRoom
  <1>7. ASSUME NEW r \in RoomIds, OnJoinRoom(p, r)
        PROVE  KeepsSessions
    BY <1>3, <1>7 DEF OnJoinRoom, Unattached
  <1>8. ASSUME NEW r \in RoomIds, OnStartGame(p, r)
        PROVE  KeepsSessions
    BY <1>8 DEF OnStartGame
  <1> QED
    BY <1>1, <1>2, <1>4, <1>5, <1>6, <1>7, <1>8

LEMMA SessionsInvStep == SessionsInv /\ LobbyTypeOK /\ [ServerNext]_serverVars => SessionsInv'
  <1> SUFFICES ASSUME SessionsInv, LobbyTypeOK, [ServerNext]_serverVars
               PROVE  SessionsInv'
    OBVIOUS
  <1>1. ASSUME NEW l \in LobbyIds, LobbyCountdownOver(l)
        PROVE  SessionsInv'
    BY <1>1, GameStartStep DEF LobbyCountdownOver
  <1>2. ASSUME NEW r \in RoomIds, RoomCountdownOver(r)
        PROVE  SessionsInv'
    BY <1>2, GameStartStep DEF RoomCountdownOver
  <1>3. CASE UpdateRooms \/ UNCHANGED serverVars
    <2>1. UNCHANGED <<conn, info, sessionVars>>
      BY <1>3 DEF UpdateRooms, serverVars, sessionVars
    <2> QED
      BY <2>1, QuietStep DEF SessionsInv, OwnTypes
  <1>4. ASSUME NEW s \in SessionIds, GameOver(s)
        PROVE  SessionsInv'
    BY <1>4, GameOverStep
  <1> QED
    BY <1>1, <1>2, <1>3, <1>4, HandlersKeepSessions DEF ServerNext

\* A game starts: whoever moves has no lobby_id any more, and nobody gets one.
LEMMA StartForgetsLobby ==
    ASSUME OwnTypes, NEW players, OnGameStart(players), NEW p \in Players
    PROVE  info'[p].lobby = IF p \in players \cap Connected THEN 0 ELSE info[p].lobby
  <1> DEFINE movers == players \cap Connected
             old == {info[q].session : q \in movers} \ {0}
  <1>1. movers \subseteq Players /\ nextSession \in SessionIds
    BY DEF OnGameStart, Connected
  <1>2. PICK ended \in SUBSET old : MoveTo(nextSession, movers, ended)
    BY DEF OnGameStart
  <1> HIDE DEF movers, old
  <1>3. PlayerMoved(p, nextSession, movers, ended)
    BY <1>1, <1>2, MovedPlayer
  <1> QED
    BY <1>3 DEF PlayerMoved, movers

LEMMA RoomKnownStep ==
    ASSUME IInv, SessionsInv, RoomKnown, LobbyTypeOK, [ServerNext]_serverVars
    PROVE  RoomKnown'
  <1> USE DEF SessionsInv, OwnTypes, IInv, TypeOK
  <1>0. 0 \notin RoomIds /\ \A l \in LobbyIds : l \notin RoomIds
    BY RoomIdsAssumption, IdsApart
  <1>1. ASSUME NEW p \in Players, NEW l \in {0} \cup LobbyIds,
               info' = [info EXCEPT ![p].lobby = l],
               \A q \in Players \ {p} : playerRoom'[q] = playerRoom[q]
        PROVE  RoomKnown'
    BY <1>0, <1>1 DEF RoomKnown, PlayerInfo
  <1>2. ASSUME NEW p \in Players, Connect(p) \/ \E r \in RoomIds : OnStartGame(p, r)
        PROVE  RoomKnown'
    BY <1>2 DEF Connect, OnStartGame, StartGame, vars, RoomKnown
  <1>3. ASSUME NEW p \in Players, ClientDisconnect(p) \/ TcpDisconnected(p)
        PROVE  RoomKnown'
    <2>1. info' = [info EXCEPT ![p] = NoInfo] /\ UNCHANGED playerRoom
      BY <1>3 DEF ClientDisconnect, TcpDisconnected, Forget, vars
    <2> QED
      BY <1>0, <2>1 DEF RoomKnown, NoInfo
  <1>4. ASSUME NEW p \in Players, OnLeaveLobby(p) \/ OnLeaveRoom(p)
        PROVE  RoomKnown'
    BY <1>1, <1>4 DEF OnLeaveLobby, OnLeaveRoom, LeaveRoom, vars
  <1>5. ASSUME NEW p \in Players, NEW kind \in Kinds, OnJoinLobby(p, kind)
        PROVE  RoomKnown'
    BY <1>1, <1>5, JoinedLobby DEF OnJoinLobby, vars
  <1>6. ASSUME NEW p \in Players, NEW r \in RoomIds,
               info' = [info EXCEPT ![p].lobby = r],
               playerRoom' = [playerRoom EXCEPT ![p] = r]
        PROVE  RoomKnown'
    BY <1>6 DEF RoomKnown, PlayerInfo
  <1>7. ASSUME NEW p \in Players, NEW size \in Sizes, OnCreateRoom(p, size)
        PROVE  RoomKnown'
    BY <1>6, <1>7 DEF OnCreateRoom, CreateRoom
  <1>8. ASSUME NEW p \in Players, NEW r \in RoomIds, OnJoinRoom(p, r)
        PROVE  RoomKnown'
    BY <1>6, <1>8 DEF OnJoinRoom, JoinRoom
  <1>9. ASSUME NEW l \in LobbyIds, LobbyCountdownOver(l)
        PROVE  RoomKnown'
    <2>1. \A p \in Players : info'[p].lobby \in {0, info[p].lobby}
      BY <1>9, StartForgetsLobby DEF LobbyCountdownOver
    <2>2. UNCHANGED playerRoom
      BY <1>9 DEF LobbyCountdownOver, vars
    <2> QED
      BY <1>0, <2>1, <2>2 DEF RoomKnown
  <1>10. ASSUME NEW r \in RoomIds, RoomCountdownOver(r)
         PROVE  RoomKnown'
    <2> DEFINE first == rooms[r].players[1]
    <2>1. /\ r \in Live /\ rooms[r] \in Room /\ rooms[r].players # <<>>
          /\ playerRoom' = [playerRoom EXCEPT ![first] = 0]
      BY <1>10 DEF RoomCountdownOver, StartRoom, CountdownHasPlayers, Live
    <2>2. first \in Range(rooms[r].players) /\ first \in Players
      BY <2>1 DEF Room, Range
    <2>3. \A p \in Players : info'[p].lobby =
              IF p \in Range(rooms[r].players) \cap Connected THEN 0 ELSE info[p].lobby
      BY <1>10, StartForgetsLobby DEF RoomCountdownOver
    <2> HIDE DEF first
    <2>4. info'[first].lobby = 0
      BY <2>2, <2>3 DEF Connected, OthersForgotten, NoInfo
    <2> QED
      BY <1>0, <2>1, <2>2, <2>3, <2>4 DEF RoomKnown
  <1>11. CASE UpdateRooms \/ UNCHANGED serverVars
    BY <1>11 DEF UpdateRooms, CleanupEmptyRooms, serverVars, RoomKnown
  <1>12. ASSUME NEW s \in SessionIds, GameOver(s)
         PROVE  RoomKnown'
    <2>1. \A p \in Players : info'[p].lobby = info[p].lobby
      BY <1>12 DEF GameOver, PlayerInfo
    <2>2. UNCHANGED playerRoom
      BY <1>12 DEF GameOver, vars
    <2> QED
      BY <2>1, <2>2 DEF RoomKnown
  <1> QED
    BY <1>2, <1>3, <1>4, <1>5, <1>7, <1>8, <1>9, <1>10, <1>11, <1>12 DEF ServerNext

LEMMA ServerIInvInit == ServerInit => ServerIInv
  <1> SUFFICES ASSUME ServerInit
               PROVE  ServerIInv
    OBVIOUS
  <1>1. IInv
    BY InitInv DEF ServerInit
  <1>2. LobbyTypeOK
    BY DEF ServerInit, LobbyInit, LobbyTypeOK
  <1>3. NoInfo \in PlayerInfo /\ [life |-> "none", players |-> {}] \in GameSession
    BY DEF NoInfo, PlayerInfo, GameSession
  <1>4. /\ \A p \in Players : conn[p] = "new" /\ info[p] = NoInfo
        /\ \A s \in SessionIds : sessions[s].life = "none" /\ sessions[s].players = {}
    BY DEF ServerInit
  <1>5. OwnTypes
    BY <1>3 DEF ServerInit, OwnTypes
  <1>6. SessionsAgree /\ OneSessionEach /\ FreshSessions /\ OthersForgotten
    BY <1>4 DEF SessionsAgree, OneSessionEach, FreshSessions, OthersForgotten, Connected, Active
  <1>7. RoomKnown
    BY <1>4, RoomIdsAssumption DEF RoomKnown, NoInfo
  <1> QED
    BY <1>1, <1>2, <1>5, <1>6, <1>7 DEF ServerIInv, ServerTypeOK, OwnTypes, IInv

LEMMA ServerIInvStep == ServerIInv /\ [ServerNext]_serverVars => ServerIInv'
  <1> SUFFICES ASSUME ServerIInv, [ServerNext]_serverVars
               PROVE  ServerIInv'
    OBVIOUS
  <1>1. SessionsInv /\ LobbyTypeOK
    BY DEF ServerIInv, ServerTypeOK, SessionsInv, OwnTypes
  <1>2. IInv'
    BY RoomsStep, NextInv DEF ServerIInv
  <1>3. LobbyTypeOK'
    BY <1>1, LobbiesStep, LobbiesTypeStep
  <1>4. SessionsInv'
    BY <1>1, SessionsInvStep
  <1>5. RoomKnown'
    BY <1>1, RoomKnownStep DEF ServerIInv
  <1> QED
    BY <1>2, <1>3, <1>4, <1>5 DEF ServerIInv, ServerTypeOK, SessionsInv, OwnTypes, IInv

LEMMA AlwaysServerIInv == ServerSpec => []ServerIInv
  BY ServerIInvInit, ServerIInvStep, PTL DEF ServerSpec

------------------------------------------------------------------------------
(* The theorems                                                            *)

\* Connections, PlayerInfo, sessions, rooms and lobbies keep their types.
THEOREM ServerTypeCorrect == ServerSpec => []ServerTypeOK
  <1>1. ServerIInv => ServerTypeOK
    BY DEF ServerIInv
  <1> QED
    BY <1>1, AlwaysServerIInv, PTL

\* session_id names the one running session that lists the player.
THEOREM ServerSessionsAgree == ServerSpec => []SessionsAgree
  <1>1. ServerIInv => SessionsAgree
    BY DEF ServerIInv
  <1> QED
    BY <1>1, AlwaysServerIInv, PTL

\* No two running sessions list the same player, gone or not.
THEOREM ServerOneSessionEach == ServerSpec => []OneSessionEach
  <1>1. ServerIInv => OneSessionEach
    BY DEF ServerIInv
  <1> QED
    BY <1>1, AlwaysServerIInv, PTL

\* Chat is read by players of the writer's running session or room only.
THEOREM ServerChatStaysInside == ServerSpec => []ChatStaysInside
  <1>1. ServerIInv => ChatStaysInside
    <2> SUFFICES ASSUME ServerIInv, NEW p \in Connected, NEW q \in Recipients(p)
                 PROVE  \/ \E s \in Active : {p, q} \subseteq sessions[s].players
                        \/ playerRoom[p] # 0 /\ playerRoom[p] = playerRoom[q]
      BY DEF ChatStaysInside
    <2>1. p \in Players /\ q \in Players /\ info[p] \in PlayerInfo
      BY DEF Connected, Recipients, ServerIInv, ServerTypeOK
    <2>2. CASE info[p].session # 0
      <3> DEFINE s == info[p].session
      <3>1. s \in SessionIds /\ q \in sessions[s].players
        BY <2>1, <2>2 DEF Recipients, PlayerInfo
      <3>2. s \in Active /\ p \in sessions[s].players
        BY <3>1 DEF ServerIInv, SessionsAgree
      <3> QED
        BY <3>1, <3>2
    <2>3. CASE info[p].session = 0
      <3> DEFINE r == info[p].lobby
      <3>1. r \in Live /\ q \in Members(r)
        BY <2>3 DEF Recipients
      <3>2. r \in RoomIds /\ r # 0
        BY <3>1, RoomIdsAssumption DEF Live
      <3>3. playerRoom[p] = r
        BY <2>1, <3>2 DEF ServerIInv, RoomKnown
      <3>4. playerRoom[q] = r
        BY <2>1, <3>1, <3>2 DEF ServerIInv, IInv, MembershipAgrees
      <3> QED
        BY <3>2, <3>3, <3>4
    <2> QED
      BY <2>2, <2>3
  <1> QED
    BY <1>1, AlwaysServerIInv, PTL

\* The rooms of the server keep what is proved of the rooms alone.
THEOREM ServerRespectsRooms == ServerSpec => RoomsRespected
  <1>1. ServerInit => Init
    BY DEF ServerInit
  <1> QED
    BY <1>1, RoomsStep, PTL DEF ServerSpec, RoomsRespected, Spec

\* The lobbies of the server keep what is proved of the lobbies alone.
LEMMA ServerRespectsLobbies == ServerSpec => LobbySpec
  <1>1. ServerInit => LobbyInit
    BY DEF ServerInit
  <1>2. [ServerNext]_serverVars => [LobbyNext]_(lobbyVars)
    BY LobbiesStep DEF lobbyVars, lobbyVars
  <1> QED
    BY <1>1, <1>2, PTL DEF ServerSpec, LobbySpec

\* In the server, whatever else its handlers do, a player is in at most one room
\* and a countdown never ends on an empty one.
THEOREM ServerRoomsSound == ServerSpec => [](MembershipAgrees /\ CountdownHasPlayers)
  <1>1. ServerSpec => Spec
    BY ServerRespectsRooms DEF RoomsRespected
  <1> QED
    BY <1>1, RoomsMembership, RoomsCountdown, PTL

\* In the server, a player is in at most one lobby and exactly the full lobbies
\* count down.
THEOREM ServerLobbiesSound == ServerSpec => [](LobbyMembershipAgrees /\ CountdownIffFull)
  <1>1. ServerSpec => LobbySpec
    BY ServerRespectsLobbies
  <1> QED
    BY <1>1, LobbiesMembership, LobbiesCountdown, PTL
===============================================================================
