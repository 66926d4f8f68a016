------------------------------- MODULE LevelFade -------------------------------
(***************************************************************************)
(* A change of level as the player sees it.  The session announces the     *)
(* next level, loads it some seconds later and says so; the client covers  *)
(* its screen with black, changes the map behind it and waits for the      *)
(* server before it shows the game again.  A respawn uses the same fade    *)
(* and does not wait.                                                      *)
(*                                                                         *)
(* Only the start of a game travels by TCP.  Its end and the notices of a  *)
(* running game are UDP datagrams, sent to a client whose handshake has    *)
(* come: they may be lost, doubled, late and out of order, also with the   *)
(* start of a game.  An announcement and a LEVEL_READY are bursts of five  *)
(* equal datagrams: a notice stands for its burst, lost when all five are, *)
(* doubled when one of them comes later than what follows.                 *)
(* The fade goes on whatever the screen is: the black covers menus and     *)
(* results as well.  Level files can be read; the level the campaign skips *)
(* has no number here; transparency and seconds are left out, and so is    *)
(* the lock of the scrolling, which has a timeout.                         *)
(***************************************************************************)
EXTENDS Naturals, Sequences

CONSTANTS
    LastLevel,  \* levels are 1..LastLevel
    MaxNotices  \* bound on messages to the client under way

ASSUME FadeBounds == LastLevel \in Nat \ {0} /\ MaxNotices \in Nat

VARIABLES
    \* the server
    running,    \* is the client in a session that runs?
    level,      \* loaded_level_id_
    next,       \* the level announced and not loaded yet, or 0
    \* between them
    notices,    \* to the client, in the order sent
    link,       \* the client's UDP socket: "closed", its handshake "shaking" or "lost",
                \* or "open" for the server (udp_client_id)
    \* ClientGame
    playing,    \* is PLAYING the screen?
    map,        \* the level whose map is loaded
    fade,       \* fade_state_: 0 none, 1 getting dark, 2 dark, 3 getting clear
    pendingLevel, pendingRespawn,
    ready,      \* level_ready_received_
    \* history
    hurried,    \* has a respawn come since the last announcement?
    cut,        \* did a game end between the announcement of a level and its loading?
    disturbed   \* was a datagram lost, doubled, overtaken or not sent for want of the
                \* handshake, or did a game start with a level of another one pending?

sessionSide == <<running, level, next, cut>>
between == <<notices, link>>
curtainVars == <<fade, pendingLevel, pendingRespawn, ready>>
clientSide == <<playing, map, curtainVars, hurried>>
fadeVars == <<sessionSide, between, clientSide, disturbed>>

Levels == 1..LastLevel
Notice(t, n) == [type |-> t, level |-> n]
Notices == [type : {"transition", "ready"}, level : Levels]
           \cup [type : {"respawn", "start", "over"}, level : {0}]

FadeTypeOK ==
    /\ running \in BOOLEAN /\ cut \in BOOLEAN /\ playing \in BOOLEAN
    /\ pendingRespawn \in BOOLEAN /\ ready \in BOOLEAN /\ hurried \in BOOLEAN
    /\ disturbed \in BOOLEAN
    /\ level \in Levels /\ map \in Levels
    /\ next \in {0} \cup Levels /\ pendingLevel \in {0} \cup Levels
    /\ notices \in Seq(Notices)
    /\ link \in {"closed", "shaking", "lost", "open"}
    /\ fade \in 0..3

FadeInit ==
    /\ running = FALSE /\ level = 1 /\ next = 0 /\ cut = FALSE
    /\ notices = <<>> /\ link = "closed"
    /\ playing = FALSE /\ map = 1
    /\ fade = 0 /\ pendingLevel = 0 /\ pendingRespawn = FALSE /\ ready = TRUE
    /\ hurried = FALSE /\ disturbed = FALSE

------------------------------------------------------------------------------
(* The server                                                              *)

\* on_game_start: the first game, the next one, or one that takes the client out
\* of the game it plays
BeginGame ==
    /\ Len(notices) < MaxNotices
    /\ running' = TRUE /\ level' = 1 /\ next' = 0
    /\ cut' = (cut \/ next # 0)
    /\ notices' = Append(notices, Notice("start", 0))
    /\ UNCHANGED <<link, clientSide, disturbed>>

\* broadcast_udp_to_session: who has no UDP connection is passed over
Broadcast(notice) ==
    /\ running /\ Len(notices) < MaxNotices
    /\ notices' = IF link = "open" THEN Append(notices, notice) ELSE notices
    /\ disturbed' = (disturbed \/ link # "open")
    /\ UNCHANGED <<link, clientSide>>

\* on_game_over: one datagram
EndGame ==
    /\ Broadcast(Notice("over", 0))
    /\ running' = FALSE
    /\ cut' = (cut \/ next # 0)
    /\ UNCHANGED <<level, next>>

\* A second after LEVEL_COMPLETE
AnnounceLevel ==
    /\ next = 0 /\ level < LastLevel
    /\ next' = level + 1 /\ cut' = FALSE
    /\ Broadcast(Notice("transition", level + 1))
    /\ UNCHANGED <<running, level>>

LoadLevel ==
    /\ next # 0
    /\ level' = next /\ next' = 0
    /\ Broadcast(Notice("ready", next))
    /\ UNCHANGED <<running, cut>>

\* respawn_player_at, also between the announcement and the loading
Respawn == Broadcast(Notice("respawn", 0)) /\ UNCHANGED sessionSide

\* on_udp_handshake: whatever the session
Handshake ==
    /\ link = "shaking" /\ link' = "open"
    /\ UNCHANGED <<sessionSide, notices, clientSide, disturbed>>

SessionStep == BeginGame \/ EndGame \/ AnnounceLevel \/ LoadLevel \/ Respawn \/ Handshake

------------------------------------------------------------------------------
(* The network                                                             *)

\* The oldest datagram is lost, or one copy of it comes after all that is under
\* way; a datagram and what was sent before it change places, by TCP or not.
Fault ==
    /\ disturbed' = TRUE
    /\ \/ /\ notices # <<>> /\ Head(notices).type # "start"
          /\ \/ notices' = Tail(notices)
             \/ Len(notices) < MaxNotices /\ notices' = Append(notices, Head(notices))
          /\ UNCHANGED link
       \/ \E i \in 1..(Len(notices) - 1) :
             notices' = [notices EXCEPT ![i] = notices[i + 1], ![i + 1] = notices[i]]
          /\ UNCHANGED link
       \/ link = "shaking" /\ link' = "lost" /\ UNCHANGED notices
    /\ UNCHANGED <<sessionSide, clientSide>>

------------------------------------------------------------------------------
(* The client                                                              *)

Noticed(t) ==
    /\ notices # <<>> /\ Head(notices).type = t
    /\ notices' = Tail(notices)
    /\ UNCHANGED sessionSide

\* handle_game_start, which opens the socket and sends the handshake once for all
\* games, and its callback, which leaves the fade and what is pending as they are
HandleGameStart ==
    /\ Noticed("start")
    /\ link' = IF link = "closed" THEN "shaking" ELSE link
    /\ playing' = TRUE /\ map' = 1
    /\ disturbed' = (disturbed \/ pendingLevel # 0)
    /\ UNCHANGED <<curtainVars, hurried>>

\* show_result, whatever is on the screen
HandleGameOver ==
    /\ Noticed("over")
    /\ playing' = FALSE
    /\ UNCHANGED <<link, map, curtainVars, hurried, disturbed>>

\* The level transition callback, with the fade_trigger_ it sets
OnTransition ==
    /\ Noticed("transition")
    /\ pendingLevel' = Head(notices).level
    /\ fade' = 1 /\ ready' = FALSE /\ hurried' = FALSE
    /\ UNCHANGED <<link, playing, map, pendingRespawn, disturbed>>

\* mutant of OnReady: it is noticed only by a screen that waits for it
OnReady_OnlyWhenDark ==
    /\ Noticed("ready")
    /\ ready' = (fade = 2)
    /\ UNCHANGED <<link, playing, map, fade, pendingLevel, pendingRespawn, hurried, disturbed>>

\* The level ready callback does not ask which level
OnReady ==
    /\ Noticed("ready")
    /\ ready' = TRUE
    /\ UNCHANGED <<link, playing, map, fade, pendingLevel, pendingRespawn, hurried, disturbed>>

\* The respawn callback for the client's own player
OnRespawn ==
    /\ Noticed("respawn")
    /\ pendingRespawn' = TRUE /\ fade' = 1 /\ hurried' = TRUE
    /\ UNCHANGED <<link, playing, map, pendingLevel, ready, disturbed>>

\* mutant of Blackout: a respawn makes it forget the level
Blackout_OneOfTwo ==
    /\ fade = 1
    /\ map' = IF pendingLevel # 0 /\ ~pendingRespawn THEN pendingLevel ELSE map
    /\ fade' = IF pendingLevel # 0 THEN 2 ELSE 3
    /\ pendingLevel' = 0 /\ pendingRespawn' = FALSE
    /\ UNCHANGED <<sessionSide, between, playing, ready, hurried, disturbed>>

\* The screen is black: apply_pending_level_transition, apply_pending_respawn
Blackout ==
    /\ fade = 1
    /\ map' = IF pendingLevel # 0 THEN pendingLevel ELSE map
    /\ fade' = IF pendingLevel # 0 THEN 2 ELSE 3
    /\ pendingLevel' = 0 /\ pendingRespawn' = FALSE
    /\ UNCHANGED <<sessionSide, between, playing, ready, hurried, disturbed>>

\* The server has loaded the level, and the screen is clear in the end
Reveal ==
    /\ \/ fade = 2 /\ ready /\ fade' = 3
       \/ fade = 3 /\ fade' = 0
    /\ UNCHANGED <<sessionSide, between, playing, map, pendingLevel, pendingRespawn, ready,
                   hurried, disturbed>>

Receive == HandleGameStart \/ HandleGameOver \/ OnTransition \/ OnReady \/ OnRespawn
Frame == Blackout \/ Reveal

FadeNext == SessionStep \/ Fault \/ Receive \/ Frame

\* The client's loop goes on, packets arrive, an announced level is loaded
FadeSpec ==
    /\ FadeInit /\ [][FadeNext]_fadeVars
    /\ WF_fadeVars(Receive) /\ WF_fadeVars(Frame) /\ WF_fadeVars(LoadLevel)

------------------------------------------------------------------------------
(* Properties                                                              *)

\* Is a game about to start for the client?
Beginning == \E i \in DOMAIN notices : notices[i].type = "start"

\* With no datagram lost, doubled or overtaken the client plays on the map of the
\* level the server announced last, and does not show it before the server has
\* loaded it, unless a respawn has hurried the fade.
ShownLevelRight ==
    ~disturbed /\ running /\ playing /\ ~Beginning =>
        /\ fade = 0 /\ notices = <<>> => map = IF next # 0 THEN next ELSE level
        /\ fade = 3 => map <= level \/ hurried

\* "Release ... when server signals level is ready": the screen does not stay
\* black, unless a datagram was disturbed or the game is over.
DarkEnds == (fade = 2) ~> (fade # 2 \/ ~running \/ disturbed \/ cut)
==============================================================================
