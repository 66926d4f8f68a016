------------------------------ MODULE GameSession ------------------------------
(***************************************************************************)
(* One running game: the lives of its players, the flow of its levels and  *)
(* its end (GameSession with LevelSystem and CheckpointSystem).  A tick    *)
(* runs on one worker while the main thread waits (see SessionThreadPool), *)
(* in the order of the code: stage says how far it has come, and the main  *)
(* thread acts on the session only between two ticks.                      *)
(*                                                                         *)
(* Positions, waves and enemies are left out: that a wave part, an intro   *)
(* or a victory screen is over is a choice of the tick.                    *)
(***************************************************************************)
EXTENDS Naturals, FiniteSets

CONSTANTS
    Players,      \* those the session is created with
    Lives,        \* get_lives_for_difficulty
    RespawnTicks, \* the respawn delay
    FirstLevels,  \* levels a game may start with
    TotalLevels,  \* LevelController::total_levels
    Stalls        \* may a tick last longer than the victory screen?

ASSUME PlayersAssumption == Players # {}
ASSUME LivesAssumption == Lives \in Nat \ {0}
ASSUME RespawnTicksAssumption == RespawnTicks \in Nat \ {0}
ASSUME StallsAssumption == Stalls \in BOOLEAN
ASSUME LevelsAssumption == FirstLevels \subseteq Nat /\ TotalLevels \in Nat \ {0}

VARIABLES
    stage,        \* how far the tick has come
    players,      \* players_: who is in the session
    ship,         \* is_alive: who has a ship
    lives,        \* PlayerLives::lives_remaining, kept when a player leaves
    pending,      \* PlayerLives::respawn_pending
    timer,        \* PlayerLives::respawn_timer
    phase,        \* LevelController::state
    level,        \* LevelController::current_level
    loaded,       \* loaded_level_id_
    bossConfig,   \* does the level's configuration hold a boss?
    bossSpawned,  \* LevelController::boss_spawned
    boss,         \* is the boss there and alive?
    lastPhase,    \* last_level_state_
    announcing,   \* level_transition_pending_
    nextLevel,    \* pending_next_level_id_
    announced,    \* the levels whose transition was sent to the clients
    paused,       \* is_paused_
    active,       \* is_active_
    reports,      \* the calls of on_game_over: "defeat" or "victory"
    fought        \* the level for which the last boss was spawned

playerVars == <<players, ship, lives, pending, timer>>
levelVars == <<phase, level, loaded, bossConfig, bossSpawned, boss, fought>>
signalVars == <<lastPhase, announcing, nextLevel, announced>>
endVars == <<active, reports>>
vars == <<stage, playerVars, levelVars, signalVars, endVars, paused>>

Phases ==
    {"LEVEL_START", "WAVES", "BOSS_TRANSITION", "BOSS_FIGHT", "LEVEL_COMPLETE", "GAME_OVER"}

Stages == {"idle", "systems", "checkpoint", "boss", "complete", "load", "over"}

TypeOK ==
    /\ stage \in Stages
    /\ players \subseteq Players /\ ship \subseteq players
    /\ lives \in [Players -> 0..Lives]
    /\ pending \subseteq Players
    /\ timer \in [Players -> 0..RespawnTicks]
    /\ phase \in Phases /\ lastPhase \in Phases
    /\ level \in Nat /\ loaded \in Nat /\ fought \in Nat
    /\ nextLevel \in Nat /\ announced \subseteq Nat
    /\ bossConfig \in BOOLEAN /\ bossSpawned \in BOOLEAN /\ boss \in BOOLEAN
    /\ announcing \in BOOLEAN /\ paused \in BOOLEAN /\ active \in BOOLEAN
    /\ reports \in [{"defeat", "victory"} -> Nat]

\* The session is created and add_player called for each player before the
\* first tick; the configuration of the first level may fail to load.
Init ==
    /\ stage = "idle"
    /\ players = Players /\ ship = Players
    /\ lives = [p \in Players |-> Lives]
    /\ pending = {} /\ timer = [p \in Players |-> 0]
    /\ phase = "LEVEL_START" /\ lastPhase = "LEVEL_START"
    /\ level \in FirstLevels /\ loaded = level
    /\ bossConfig \in BOOLEAN /\ bossSpawned = FALSE /\ boss = FALSE
    /\ announcing = FALSE /\ nextLevel = 0 /\ announced = {} /\ fought = 0
    /\ paused = FALSE /\ active = TRUE
    /\ reports = [r \in {"defeat", "victory"} |-> 0]

------------------------------------------------------------------------------
(* Operations on the parts                                                 *)

\* What check_game_over tests: nobody has a life, nobody waits for a ship.  The
\* lives of players who left count as well.
OutOfLives == pending = {} /\ \A p \in Players : lives[p] = 0

\* is_active_ is cleared and on_game_over called
EndWith(r) ==
    /\ active' = FALSE
    /\ reports' = [reports EXCEPT ![r] = @ + 1]

\* The level after this one: the second is not part of the campaign.  The
\* session and the level system compute it each on their own.
NextLevel(l) == IF l + 1 = 2 THEN 3 ELSE l + 1

\* mutant of AnnouncedLevel: only the level system skips
AnnouncedLevel_NoSkip(l) == l + 1

AnnouncedLevel(l) == IF l + 1 = 2 THEN 3 ELSE l + 1

------------------------------------------------------------------------------
(* The main thread, between two ticks                                      *)

\* A player starts another game: the ship goes, the lives stay.  (An ended
\* session is erased before the next packet.)
RemovePlayer(p) ==
    /\ stage = "idle" /\ active /\ p \in players
    /\ players' = players \ {p}
    /\ ship' = ship \ {p}
    /\ IF OutOfLives THEN EndWith("defeat") ELSE UNCHANGED endVars
    /\ UNCHANGED <<stage, lives, pending, timer, levelVars, signalVars, paused>>

\* pause and resume of the administrator
SetPaused ==
    /\ stage = "idle" /\ active
    /\ paused' = ~paused
    /\ UNCHANGED <<stage, playerVars, levelVars, signalVars, endVars>>

\* update() is called for active sessions; a paused one only sends
BeginTick ==
    /\ stage = "idle" /\ active /\ ~paused
    /\ stage' = "systems"
    /\ UNCHANGED <<playerVars, levelVars, signalVars, endVars, paused>>

------------------------------------------------------------------------------
(* The tick: run_systems                                                   *)

\* EntityDeathEvent of a player with a ship, and on_player_death: one life less,
\* then a new ship after the delay or, if that was the last life of all, game over
PlayerDies(p) ==
    /\ stage = "systems" /\ p \in ship
    /\ ship' = ship \ {p}
    /\ lives' = [lives EXCEPT ![p] = @ - 1]
    /\ IF lives[p] > 1
       THEN /\ pending' = pending \cup {p}
            /\ timer' = [timer EXCEPT ![p] = RespawnTicks]
            /\ UNCHANGED phase
       ELSE /\ phase' = IF \A q \in Players \ {p} : lives[q] = 0 THEN "GAME_OVER" ELSE phase
            /\ UNCHANGED <<pending, timer>>
    /\ UNCHANGED <<stage, players, level, loaded, bossConfig, bossSpawned, boss, fought,
                   signalVars, endVars, paused>>

\* The boss entity runs out of health and is destroyed
BossDies ==
    /\ stage = "systems" /\ boss
    /\ boss' = FALSE
    /\ UNCHANGED <<stage, playerVars, phase, level, loaded, bossConfig, bossSpawned, fought,
                   signalVars, endVars, paused>>

\* LevelSystem::update.  Unless a tick stalls, the victory screen outlasts the
\* announcement of the next level (5 s against 1 s, counted from the same tick).
LevelStep ==
    /\ stage = "systems" /\ stage' = "checkpoint"
    /\ \/ UNCHANGED <<phase, level>>
          /\ ~(phase = "BOSS_FIGHT" /\ bossSpawned /\ ~boss)
       \/ /\ phase = "LEVEL_START" /\ phase' = "WAVES"
          /\ UNCHANGED level
       \/ /\ phase = "WAVES" /\ phase' = "BOSS_TRANSITION"
          /\ UNCHANGED level
       \/ /\ phase = "BOSS_TRANSITION" /\ phase' = "BOSS_FIGHT"
          /\ UNCHANGED level
       \/ /\ phase = "BOSS_FIGHT" /\ bossSpawned /\ ~boss
          /\ phase' = "LEVEL_COMPLETE"
          /\ UNCHANGED level
       \/ /\ phase = "LEVEL_COMPLETE" /\ level < TotalLevels
          /\ Stalls \/ (lastPhase = "LEVEL_COMPLETE" /\ ~announcing)
          /\ phase' = "LEVEL_START" /\ level' = NextLevel(level)
    /\ UNCHANGED <<playerVars, loaded, bossConfig, bossSpawned, boss, fought,
                   signalVars, endVars, paused>>

\* mutant of CheckpointStep: respawn_pending is not cleared
CheckpointStep_StillPending ==
    LET due == {p \in pending : timer[p] <= 1}
    IN  /\ stage = "checkpoint" /\ stage' = "boss"
        /\ timer' = [p \in Players |-> IF p \in pending \ due THEN timer[p] - 1 ELSE timer[p]]
        /\ ship' = ship \cup (due \cap players)
        /\ UNCHANGED <<players, lives, pending, levelVars, signalVars, endVars, paused>>

\* mutant of CheckpointStep: the timers stand still
CheckpointStep_NoTime ==
    LET due == {p \in pending : timer[p] <= 1}
    IN  /\ stage = "checkpoint" /\ stage' = "boss"
        /\ pending' = pending \ due
        /\ ship' = ship \cup (due \cap players)
        /\ UNCHANGED <<players, lives, timer, levelVars, signalVars, endVars, paused>>

\* process_respawn_timers: who has waited long enough gets a ship, unless gone.
\* (It runs twice in a tick, with nothing in between that concerns it.)
CheckpointStep ==
    LET due == {p \in pending : timer[p] <= 1}
    IN  /\ stage = "checkpoint" /\ stage' = "boss"
        /\ timer' = [p \in Players |-> IF p \in pending THEN timer[p] - 1 ELSE timer[p]]
        /\ pending' = pending \ due
        /\ ship' = ship \cup (due \cap players)
        /\ UNCHANGED <<players, lives, levelVars, signalVars, endVars, paused>>

------------------------------------------------------------------------------
(* The tick: GameSession::update after the systems                         *)

\* A configuration without boss ends the tick at once, with the boss taken for
\* spawned and gone
BossStep ==
    /\ stage = "boss"
    /\ IF phase = "BOSS_FIGHT" /\ ~bossSpawned
       THEN /\ bossSpawned' = TRUE /\ boss' = bossConfig
            /\ fought' = IF bossConfig THEN level ELSE fought
            /\ stage' = IF bossConfig THEN "complete" ELSE "idle"
       ELSE stage' = "complete" /\ UNCHANGED <<bossSpawned, boss, fought>>
    /\ UNCHANGED <<playerVars, phase, level, loaded, bossConfig, signalVars, endVars, paused>>

\* mutant of FinalVictory: the session stays active
FinalVictory_StaysActive ==
    /\ stage = "complete" /\ phase = "LEVEL_COMPLETE" /\ level >= TotalLevels
    /\ reports["victory"] = 0
    /\ reports' = [reports EXCEPT !["victory"] = @ + 1]
    /\ stage' = "idle"
    /\ UNCHANGED <<playerVars, levelVars, signalVars, paused, active>>

\* The last level is complete
FinalVictory ==
    /\ stage = "complete" /\ phase = "LEVEL_COMPLETE" /\ level >= TotalLevels
    /\ EndWith("victory")
    /\ stage' = "idle"
    /\ UNCHANGED <<playerVars, levelVars, signalVars, paused>>

\* Entering LEVEL_COMPLETE starts the delay of the announcement, which is sent
\* when the delay is over
AnnounceStep ==
    LET entered == lastPhase # "LEVEL_COMPLETE" /\ ~announcing
    IN  /\ stage = "complete" /\ stage' = "load"
        /\ IF phase = "LEVEL_COMPLETE"
           THEN /\ level < TotalLevels
                /\ nextLevel' = IF entered THEN AnnouncedLevel(level) ELSE nextLevel
                /\ \/ announcing' = (announcing \/ entered) /\ UNCHANGED announced
                   \/ /\ announcing \/ entered
                      /\ announcing' = FALSE
                      /\ announced' = announced \cup {nextLevel'}
           ELSE UNCHANGED <<announcing, nextLevel, announced>>
        /\ UNCHANGED <<playerVars, levelVars, lastPhase, endVars, paused>>

\* mutant of LoadLevel: boss_spawned is not reset
LoadLevel_BossKept ==
    /\ stage = "load" /\ level # loaded
    /\ stage' = "over"
    /\ loaded' = level /\ phase' = "LEVEL_START"
    /\ bossConfig' = TRUE /\ boss' = FALSE
    /\ lives' = [p \in Players |-> Lives]
    /\ pending' = {} /\ timer' = [p \in Players |-> 0]
    /\ UNCHANGED <<players, ship, level, bossSpawned, fought, signalVars, endVars, paused>>

\* The level system has moved on: the next level is loaded and everybody has all
\* lives again.  Those who waited for a ship no longer do.
LoadLevel ==
    /\ stage = "load" /\ level # loaded
    /\ stage' = "over"
    /\ loaded' = level /\ phase' = "LEVEL_START"
    /\ bossConfig' = TRUE /\ bossSpawned' = FALSE /\ boss' = FALSE
    /\ lives' = [p \in Players |-> Lives]
    /\ pending' = {} /\ timer' = [p \in Players |-> 0]
    /\ UNCHANGED <<players, ship, level, fought, signalVars, endVars, paused>>

\* The file cannot be read: the old configuration is gone, the old level goes on
LoadFails ==
    /\ stage = "load" /\ level # loaded
    /\ stage' = "over"
    /\ bossConfig' = FALSE
    /\ UNCHANGED <<playerVars, phase, level, loaded, bossSpawned, boss, fought,
                   signalVars, endVars, paused>>

NothingToLoad ==
    /\ stage = "load" /\ level = loaded
    /\ stage' = "over"
    /\ UNCHANGED <<playerVars, levelVars, signalVars, endVars, paused>>

\* Defeat in GAME_OVER, or found by check_game_over
EndTick ==
    /\ stage = "over" /\ stage' = "idle"
    /\ lastPhase' = phase
    /\ IF phase = "GAME_OVER" \/ OutOfLives THEN EndWith("defeat") ELSE UNCHANGED endVars
    /\ UNCHANGED <<playerVars, levelVars, announcing, nextLevel, announced, paused>>

\* An inactive session is erased by cleanup_inactive_sessions
Erased ==
    /\ stage = "idle" /\ ~active
    /\ UNCHANGED vars

TickStep ==
    \/ BeginTick \/ BossDies \/ LevelStep \/ CheckpointStep \/ BossStep
    \/ FinalVictory \/ AnnounceStep \/ LoadLevel \/ LoadFails \/ NothingToLoad \/ EndTick
    \/ \E p \in Players : PlayerDies(p)

Next ==
    \/ TickStep
    \/ SetPaused
    \/ \E p \in Players : RemovePlayer(p)
    \/ Erased

Spec == Init /\ [][Next]_vars

\* The server calls update() again and again, and a tick comes to its end
FairSpec == Spec /\ WF_vars(TickStep)

------------------------------------------------------------------------------
(* Properties                                                              *)

\* Who has a ship has a life to lose, so lives_remaining, a uint8_t, never goes
\* below 0, and is not waiting for another ship; who waits for one has a life.
LivesSound ==
    /\ \A p \in ship : lives[p] > 0
    /\ \A p \in pending : lives[p] > 0 /\ p \notin ship

\* The end is reported once, when the session stops being active, though three
\* places of update() and remove_player can do it.
ReportedOnce ==
    reports["defeat"] + reports["victory"] = IF active THEN 0 ELSE 1

\* A defeat leaves nobody with a ship, a life or the prospect of one; a victory
\* comes with the last level's boss beaten or missing from its configuration.
EndsRight ==
    /\ reports["defeat"] > 0 => ship = {} /\ OutOfLives
    /\ reports["victory"] > 0 => level >= TotalLevels /\ bossSpawned /\ ~boss

\* A session that goes on has somebody with a life: the test of check_game_over
\* never finds what the death handler has not.
ActiveHasLives == stage = "idle" /\ active => ~OutOfLives

\* A level whose configuration is the loaded one is completed against its own
\* boss, not thanks to the one of the level before.
OwnBossFought ==
    phase = "LEVEL_COMPLETE" /\ level = loaded /\ bossConfig => fought = level

\* A level that becomes ready was announced to the clients before, although the
\* session announces the one it expects and the level system picks another time.
ReadyWasAnnounced ==
    [][loaded' # loaded => loaded' \in announced]_vars

\* Within a level, who waits for a ship gets it, unless the player leaves, the
\* game ends or the administrator pauses it.
ShipComesBack ==
    \A p \in Players : \A l \in FirstLevels \cup 1..TotalLevels :
        (p \in pending /\ loaded = l) ~>
            (p \in ship \/ p \notin players \/ ~active \/ paused \/ loaded # l)
================================================================================
