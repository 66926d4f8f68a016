----------------------------- MODULE LobbyManager -----------------------------
(***************************************************************************)
(* Matchmaking (LobbyManager): a player asks for a game mode and a         *)
(* difficulty and is put in any lobby of that kind with room and no        *)
(* countdown, or in a new one.  The lobby's countdown starts when it is    *)
(* full and stops when anybody leaves; when it is over the game starts and *)
(* the lobby is gone.  A Kind is a (game_mode, difficulty) pair.           *)
(***************************************************************************)
EXTENDS PlayerIds, Naturals, FiniteSets

CONSTANTS
    LobbyIds,  \* the ids lobbies can take: bounds how many are ever created
    Kinds,     \* the (game_mode, difficulty) pairs clients ask for
    Capacity,  \* get_max_players_for_mode, by kind
    NoLobby    \* lobbies_ has no entry for this id

ASSUME LobbyIdsAssumption == LobbyIds \subseteq Nat \ {0}
ASSUME CapacityAssumption == Capacity \in [Kinds -> Nat \ {0}]
ASSUME PlayersAssumption == IsFiniteSet(Players)

VARIABLES
    lobbies,      \* lobbies_
    playerLobby,  \* player_to_lobby_; 0 is "no entry", as get_player_lobby says it
    nextLobby     \* next_lobby_id_

lobbyVars == <<lobbies, playerLobby, nextLobby>>

\* The order of player_ids matters to nobody (see on_game_start), so it is a set
Lobby == [players : SUBSET Players, kind : Kinds, countdown : BOOLEAN]

ASSUME NoLobbyAssumption == NoLobby \notin Lobby

LobbyTypeOK ==
    /\ lobbies \in [LobbyIds -> Lobby \cup {NoLobby}]
    /\ playerLobby \in [Players -> {0} \cup LobbyIds]
    /\ nextLobby \in Nat

Open == {l \in LobbyIds : lobbies[l] # NoLobby}

LobbyInit ==
    /\ lobbies = [l \in LobbyIds |-> NoLobby]
    /\ playerLobby = [p \in Players |-> 0]
    /\ nextLobby = 1

------------------------------------------------------------------------------
\* find_available_lobby returns the first such lobby of an unordered map: any
Available(kind) ==
    {l \in Open : /\ lobbies[l].kind = kind
                  /\ Cardinality(lobbies[l].players) < Capacity[kind]
                  /\ ~lobbies[l].countdown}

\* mutant of Entered: the countdown of a full lobby is not started
Entered_NoCountdown(lobby, p) == [lobby EXCEPT !.players = @ \cup {p}]

\* push_back, and start_countdown when that fills the lobby
Entered(lobby, p) ==
    [lobby EXCEPT !.players = @ \cup {p},
                  !.countdown = Cardinality(lobby.players) + 1 >= Capacity[lobby.kind]]

\* join_lobby, with create_lobby when there is no lobby to join
JoinLobby(p, kind) ==
    /\ playerLobby[p] = 0
    /\ \/ \E l \in Available(kind) :
              /\ lobbies' = [lobbies EXCEPT ![l] = Entered(@, p)]
              /\ playerLobby' = [playerLobby EXCEPT ![p] = l]
              /\ UNCHANGED nextLobby
       \/ /\ Available(kind) = {}
          /\ nextLobby \in LobbyIds
          /\ lobbies' = [lobbies EXCEPT ![nextLobby] =
                            Entered([players |-> {}, kind |-> kind, countdown |-> FALSE], p)]
          /\ playerLobby' = [playerLobby EXCEPT ![p] = nextLobby]
          /\ nextLobby' = nextLobby + 1

\* mutant of LeaveLobby: an empty lobby is kept
LeaveLobby_Empty(p) ==
    LET l == playerLobby[p] IN
    /\ l \in Open
    /\ lobbies' = [lobbies EXCEPT ![l].players = @ \ {p}, ![l].countdown = FALSE]
    /\ playerLobby' = [playerLobby EXCEPT ![p] = 0]
    /\ UNCHANGED nextLobby

\* leave_lobby: cancel the countdown, forget a lobby left empty
LeaveLobby(p) ==
    LET l == playerLobby[p]
        rest == lobbies[l].players \ {p}
    IN  /\ l \in Open
        /\ lobbies' = [lobbies EXCEPT ![l] = IF rest = {} THEN NoLobby
                                             ELSE [@ EXCEPT !.players = rest, !.countdown = FALSE]]
        /\ playerLobby' = [playerLobby EXCEPT ![p] = 0]
        /\ UNCHANGED nextLobby

\* update() when the countdown of lobby l is over, after on_game_start returned
StartLobby(l) ==
    /\ l \in Open
    /\ lobbies[l].countdown
    /\ playerLobby' = [p \in Players |-> IF p \in lobbies[l].players THEN 0 ELSE playerLobby[p]]
    /\ lobbies' = [lobbies EXCEPT ![l] = NoLobby]
    /\ UNCHANGED nextLobby

\* update() when no countdown is over
Tick == UNCHANGED lobbyVars

LobbyNext ==
    \/ \E p \in Players, kind \in Kinds : JoinLobby(p, kind)
    \/ \E p \in Players : LeaveLobby(p)
    \/ \E l \in LobbyIds : StartLobby(l)
    \/ Tick

LobbySpec == LobbyInit /\ [][LobbyNext]_lobbyVars

------------------------------------------------------------------------------
(* Properties                                                              *)

\* A player is in at most one lobby, the one player_to_lobby_ names, and a
\* lobby that is there has somebody in it.
LobbyMembershipAgrees ==
    /\ \A p \in Players, l \in LobbyIds :
           playerLobby[p] = l <=> l \in Open /\ p \in lobbies[l].players
    /\ \A l \in Open : lobbies[l].players # {}

\* A lobby counts down exactly while as many are in it as its mode is for, so no
\* join, leave or start around a countdown leaves a full lobby waiting, a short one
\* counting down or a lobby overfull.  Who sent CLIENT_DISCONNECT is counted until
\* the start, which passes over it.
CountdownIffFull ==
    \A l \in Open :
        LET size == Cardinality(lobbies[l].players) IN
        /\ size <= Capacity[lobbies[l].kind]
        /\ lobbies[l].countdown <=> size = Capacity[lobbies[l].kind]

\* Players are not scattered: whenever a join opens a lobby, every other lobby
\* of that kind is full.
OpensOnlyWhenNeeded ==
    [][nextLobby' # nextLobby =>
          \A l \in Open : lobbies[l].kind = lobbies'[nextLobby].kind =>
              Cardinality(lobbies[l].players) = Capacity[lobbies[l].kind]]_lobbyVars
==============================================================================
