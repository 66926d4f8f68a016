--------------------------- MODULE GameSessionProofs ---------------------------
(***************************************************************************)
(* GameSession for any players, lives, delays and levels.                  *)
(***************************************************************************)
EXTENDS GameSession, TLAPS

\* Who waits for a ship still has to wait
TimersRun == \A p \in pending : timer[p] > 0

PlayersInv == TypeOK /\ LivesSound /\ TimersRun

\* Out of lives and game over are the same thing, found and reported within the
\* tick; a session ends only where its tick ends
EndInv ==
    /\ ReportedOnce /\ EndsRight
    /\ active \/ stage = "idle"
    /\ phase = "GAME_OVER" => OutOfLives
    /\ active /\ OutOfLives => phase = "GAME_OVER" /\ stage # "idle"

\* A completed level has had its boss; a boss spawned from the loaded
\* configuration is the current level's; the level loaded is not ahead
LevelInv ==
    /\ phase = "LEVEL_COMPLETE" => bossSpawned /\ ~boss
    /\ bossSpawned /\ level = loaded /\ bossConfig => fought = level
    /\ loaded <= level

IInv == PlayersInv /\ EndInv /\ LevelInv

USE PlayersAssumption, LivesAssumption, RespawnTicksAssumption, LevelsAssumption

LEMMA InitPlayers == Init => PlayersInv
<1> SUFFICES ASSUME Init
             PROVE  PlayersInv
  OBVIOUS
<1>1. /\ lives \in [Players -> 0..Lives] /\ \A p \in Players : lives[p] > 0
      /\ timer \in [Players -> 0..RespawnTicks]
  BY DEF Init
<1>2. reports \in [{"defeat", "victory"} -> Nat]
  BY DEF Init
<1>3. level \in Nat /\ loaded \in Nat
  BY DEF Init
<1>. QED
  BY <1>1, <1>2, <1>3 DEF Init, PlayersInv, TypeOK, LivesSound, TimersRun, Phases, Stages

LEMMA InitIInv == Init => IInv
<1> SUFFICES ASSUME Init
             PROVE  IInv
  OBVIOUS
<1>1. PlayersInv
  BY InitPlayers
<1>2. ~OutOfLives
  BY DEF Init, OutOfLives
<1>3. EndInv
  BY <1>2 DEF Init, EndInv, ReportedOnce, EndsRight
<1>4. LevelInv
  BY DEF Init, LevelInv
<1>. QED
  BY <1>1, <1>3, <1>4 DEF IInv

------------------------------------------------------------------------------
(* The main thread                                                         *)

\* The test of check_game_over never succeeds when a player is removed
LEMMA RemovePlayerIInv ==
    ASSUME IInv, NEW p \in Players, RemovePlayer(p)
    PROVE  IInv'
<1>1. ~OutOfLives
  BY DEF IInv, EndInv, RemovePlayer
<1>2. UNCHANGED endVars
  BY <1>1 DEF RemovePlayer
<1>3. PlayersInv'
  BY <1>2 DEF RemovePlayer, IInv, PlayersInv, TypeOK, LivesSound, TimersRun,
              levelVars, signalVars, endVars
<1>4. EndInv'
  BY <1>1, <1>2 DEF RemovePlayer, IInv, EndInv, ReportedOnce, EndsRight, OutOfLives,
              PlayersInv, TypeOK, levelVars, signalVars, endVars
<1>5. LevelInv'
  BY DEF RemovePlayer, IInv, LevelInv, levelVars
<1>. QED
  BY <1>3, <1>4, <1>5 DEF IInv

LEMMA SetPausedIInv == ASSUME IInv, SetPaused PROVE IInv'
  BY DEF SetPaused, IInv, PlayersInv, TypeOK, LivesSound, TimersRun, EndInv, ReportedOnce,
         EndsRight, OutOfLives, LevelInv, playerVars, levelVars, signalVars, endVars

LEMMA BeginTickIInv == ASSUME IInv, BeginTick PROVE IInv'
  BY DEF BeginTick, IInv, PlayersInv, TypeOK, Stages, LivesSound, TimersRun, EndInv,
         ReportedOnce, EndsRight, OutOfLives, LevelInv,
         playerVars, levelVars, signalVars, endVars

------------------------------------------------------------------------------
(* The systems                                                             *)

\* A death that takes the last life of all is the one that ends the game
LEMMA PlayerDiesIInv ==
    ASSUME IInv, NEW p \in Players, PlayerDies(p)
    PROVE  IInv'
<1>1. /\ lives[p] \in Nat /\ lives[p] > 0 /\ p \notin pending
      /\ stage = "systems" /\ active /\ phase # "GAME_OVER"
  BY DEF PlayerDies, IInv, PlayersInv, TypeOK, LivesSound, EndInv, OutOfLives
<1>2. lives' \in [Players -> 0..Lives] /\ lives'[p] = lives[p] - 1
      /\ \A q \in Players \ {p} : lives'[q] = lives[q]
  BY <1>1 DEF PlayerDies, IInv, PlayersInv, TypeOK
<1>3. CASE lives[p] > 1
  <2>1. /\ pending' = pending \cup {p} /\ timer' = [timer EXCEPT ![p] = RespawnTicks]
        /\ phase' = phase
    BY <1>3 DEF PlayerDies
  <2>2. PlayersInv'
    BY <1>1, <1>2, <1>3, <2>1 DEF PlayerDies, IInv, PlayersInv, TypeOK, LivesSound, TimersRun,
          signalVars, endVars
  <2>3. ~OutOfLives'
    BY <2>1 DEF OutOfLives
  <2>. QED
    BY <1>1, <2>1, <2>2, <2>3 DEF PlayerDies, IInv, EndInv, ReportedOnce, EndsRight, LevelInv,
          signalVars, endVars, PlayersInv, TypeOK
<1>4. CASE ~(lives[p] > 1)
  <2>1. /\ pending' = pending /\ timer' = timer /\ lives'[p] = 0
        /\ phase' = IF \A q \in Players \ {p} : lives[q] = 0 THEN "GAME_OVER" ELSE phase
    BY <1>1, <1>2, <1>4 DEF PlayerDies
  <2>2. PlayersInv'
    BY <1>1, <1>2, <2>1 DEF PlayerDies, IInv, PlayersInv, TypeOK, Phases, LivesSound, TimersRun,
          signalVars, endVars
  <2>3. OutOfLives' <=> \A q \in Players \ {p} : lives[q] = 0
    BY <1>1, <1>2, <2>1 DEF OutOfLives, IInv, PlayersInv, LivesSound, TypeOK
  <2>4. EndInv'
    BY <1>1, <2>1, <2>3 DEF PlayerDies, IInv, EndInv, ReportedOnce, EndsRight,
          signalVars, endVars, PlayersInv, TypeOK
  <2>5. LevelInv'
    BY <1>1, <2>1 DEF PlayerDies, IInv, LevelInv
  <2>. QED
    BY <2>2, <2>4, <2>5 DEF IInv
<1>. QED
  BY <1>3, <1>4

LEMMA BossDiesIInv == ASSUME IInv, BossDies PROVE IInv'
  BY DEF BossDies, IInv, PlayersInv, TypeOK, LivesSound, TimersRun, EndInv, ReportedOnce,
         EndsRight, OutOfLives, LevelInv, playerVars, signalVars, endVars

\* The flow of levels goes on, and up
LEMMA LevelStepIInv ==
    ASSUME IInv, LevelStep
    PROVE  IInv'
<1>1. /\ stage = "systems" /\ stage' = "checkpoint" /\ active
      /\ level \in Nat /\ loaded \in Nat /\ loaded <= level
  BY DEF LevelStep, IInv, PlayersInv, TypeOK, EndInv, LevelInv
<1>2. /\ level' \in Nat /\ phase' \in Phases
      /\ (phase' = "GAME_OVER") <=> (phase = "GAME_OVER")
      /\ phase' = "LEVEL_COMPLETE" => bossSpawned /\ ~boss
      /\ level' = level \/ loaded < level'
  BY <1>1 DEF LevelStep, NextLevel, Phases, IInv, PlayersInv, TypeOK, LevelInv
<1>3. PlayersInv'
  BY <1>1, <1>2 DEF LevelStep, IInv, PlayersInv, TypeOK, Stages, LivesSound, TimersRun,
        playerVars, signalVars, endVars
<1>4. EndInv'
  BY <1>1, <1>2 DEF LevelStep, IInv, EndInv, ReportedOnce, EndsRight, OutOfLives,
        playerVars, signalVars, endVars, PlayersInv, TypeOK
<1>5. LevelInv'
  BY <1>1, <1>2 DEF LevelStep, IInv, LevelInv
<1>. QED
  BY <1>3, <1>4, <1>5 DEF IInv

\* A ship comes only to somebody with a life
LEMMA CheckpointStepIInv ==
    ASSUME IInv, CheckpointStep
    PROVE  IInv'
<1> DEFINE due == {p \in pending : timer[p] <= 1}
<1>1. /\ stage = "checkpoint" /\ stage' = "boss" /\ active
      /\ timer' = [p \in Players |-> IF p \in pending THEN timer[p] - 1 ELSE timer[p]]
      /\ pending' = pending \ due
      /\ ship' = ship \cup (due \cap players)
      /\ UNCHANGED <<players, lives, levelVars, signalVars, endVars, paused>>
  BY DEF CheckpointStep, IInv, EndInv
<1>2. \A p \in pending : timer[p] \in 1..RespawnTicks /\ lives[p] > 0 /\ p \in Players
  BY DEF IInv, PlayersInv, TypeOK, LivesSound, TimersRun
<1>3. timer' \in [Players -> 0..RespawnTicks] /\ \A p \in pending' : timer'[p] > 0
  BY <1>1, <1>2 DEF IInv, PlayersInv, TypeOK
<1>4. PlayersInv'
  BY <1>1, <1>2, <1>3 DEF IInv, PlayersInv, TypeOK, Stages, LivesSound, TimersRun,
        levelVars, signalVars, endVars
<1>5. OutOfLives' <=> OutOfLives
  BY <1>1, <1>2 DEF OutOfLives
<1>6. EndInv'
  BY <1>1, <1>5 DEF IInv, EndInv, ReportedOnce, EndsRight, levelVars, endVars, PlayersInv, TypeOK
<1>7. LevelInv'
  BY <1>1 DEF IInv, LevelInv, levelVars
<1>. QED
  BY <1>4, <1>6, <1>7 DEF IInv

------------------------------------------------------------------------------
(* The rest of the tick                                                    *)

LEMMA BossStepIInv ==
    ASSUME IInv, BossStep
    PROVE  IInv'
<1>1. stage = "boss" /\ active /\ stage' \in {"idle", "complete"}
  BY DEF BossStep, IInv, EndInv
<1>2. /\ bossSpawned' \in BOOLEAN /\ boss' \in BOOLEAN /\ fought' \in Nat
      /\ stage' = "idle" => phase = "BOSS_FIGHT"
      /\ phase = "LEVEL_COMPLETE" => bossSpawned' = bossSpawned /\ boss' = boss
      /\ bossSpawned' /\ level = loaded /\ bossConfig => fought' = level
  BY DEF BossStep, IInv, PlayersInv, TypeOK, LevelInv
<1>3. UNCHANGED <<playerVars, phase, level, loaded, bossConfig, signalVars, endVars, paused>>
  BY DEF BossStep
<1>4. PlayersInv'
  BY <1>1, <1>2, <1>3 DEF IInv, PlayersInv, TypeOK, Stages, LivesSound, TimersRun,
        playerVars, signalVars, endVars
<1>5. EndInv'
  BY <1>1, <1>2, <1>3 DEF IInv, EndInv, ReportedOnce, EndsRight, OutOfLives,
        playerVars, endVars, PlayersInv, TypeOK
<1>6. LevelInv'
  BY <1>2, <1>3 DEF IInv, LevelInv
<1>. QED
  BY <1>4, <1>5, <1>6 DEF IInv

LEMMA FinalVictoryIInv ==
    ASSUME IInv, FinalVictory
    PROVE  IInv'
<1>1. /\ active /\ ~active' /\ stage' = "idle" /\ phase = "LEVEL_COMPLETE" /\ level >= TotalLevels
      /\ reports["defeat"] = 0 /\ reports["victory"] = 0
      /\ reports' = [reports EXCEPT !["victory"] = @ + 1]
  BY DEF FinalVictory, EndWith, IInv, EndInv, ReportedOnce, PlayersInv, TypeOK
<1>2. reports'["defeat"] = 0 /\ reports'["victory"] = 1 /\ reports' \in [{"defeat", "victory"} -> Nat]
  BY <1>1 DEF IInv, PlayersInv, TypeOK
<1>3. PlayersInv'
  BY <1>1, <1>2 DEF FinalVictory, EndWith, IInv, PlayersInv, TypeOK, Stages, LivesSound, TimersRun,
        playerVars, levelVars, signalVars
<1>4. EndInv'
  BY <1>1, <1>2 DEF FinalVictory, IInv, EndInv, LevelInv, ReportedOnce, EndsRight, OutOfLives,
        playerVars, levelVars
<1>5. LevelInv'
  BY DEF FinalVictory, IInv, LevelInv, levelVars
<1>. QED
  BY <1>3, <1>4, <1>5 DEF IInv

LEMMA AnnounceStepIInv ==
    ASSUME IInv, AnnounceStep
    PROVE  IInv'
<1>1. /\ stage = "complete" /\ stage' = "load"
      /\ UNCHANGED <<playerVars, levelVars, lastPhase, endVars, paused>>
  BY DEF AnnounceStep
<1>2. /\ level \in Nat /\ nextLevel \in Nat /\ announced \subseteq Nat
      /\ announcing \in BOOLEAN
  BY DEF IInv, PlayersInv, TypeOK
<1>3. AnnouncedLevel(level) \in Nat
  BY <1>2 DEF AnnouncedLevel
<1>4. nextLevel' \in Nat /\ announced' \subseteq Nat
  BY <1>2, <1>3 DEF AnnounceStep
<1>5. announcing' \in BOOLEAN
  BY <1>2 DEF AnnounceStep
<1>6. PlayersInv'
  BY <1>1, <1>4, <1>5 DEF IInv, PlayersInv, TypeOK, Stages, LivesSound, TimersRun,
        playerVars, levelVars, endVars
<1>7. EndInv'
  BY <1>1 DEF IInv, EndInv, ReportedOnce, EndsRight, OutOfLives,
        playerVars, levelVars, endVars, PlayersInv, TypeOK
<1>8. LevelInv'
  BY <1>1 DEF IInv, LevelInv, levelVars
<1>. QED
  BY <1>6, <1>7, <1>8 DEF IInv

\* Loading a level gives everybody all lives, so nothing of a defeat is left
LEMMA LoadLevelIInv ==
    ASSUME IInv, LoadLevel
    PROVE  IInv'
<1>0. /\ lives' \in [Players -> 0..Lives] /\ \A p \in Players : lives'[p] > 0
      /\ timer' \in [Players -> 0..RespawnTicks]
  BY DEF LoadLevel
<1>1. PlayersInv'
  BY <1>0 DEF LoadLevel, IInv, PlayersInv, TypeOK, Stages, Phases, LivesSound, TimersRun,
        signalVars, endVars
<1>2. ~OutOfLives'
  BY DEF LoadLevel, OutOfLives
<1>3. EndInv'
  BY <1>2 DEF LoadLevel, IInv, EndInv, ReportedOnce, EndsRight, endVars, PlayersInv, TypeOK
<1>4. LevelInv'
  BY DEF LoadLevel, IInv, LevelInv, PlayersInv, TypeOK
<1>. QED
  BY <1>1, <1>3, <1>4 DEF IInv

LEMMA LoadFailsIInv == ASSUME IInv, LoadFails PROVE IInv'
  BY DEF LoadFails, IInv, PlayersInv, TypeOK, Stages, LivesSound, TimersRun, EndInv,
         ReportedOnce, EndsRight, OutOfLives, LevelInv, playerVars, signalVars, endVars

LEMMA NothingToLoadIInv == ASSUME IInv, NothingToLoad PROVE IInv'
  BY DEF NothingToLoad, IInv, PlayersInv, TypeOK, Stages, LivesSound, TimersRun, EndInv,
         ReportedOnce, EndsRight, OutOfLives, LevelInv,
         playerVars, levelVars, signalVars, endVars

\* Out of lives in this tick is a defeat in this tick
LEMMA EndTickIInv ==
    ASSUME IInv, EndTick
    PROVE  IInv'
<1>1. stage = "over" /\ stage' = "idle" /\ active /\ lastPhase' = phase
  BY DEF EndTick, IInv, EndInv
<1>2. UNCHANGED <<playerVars, levelVars, announcing, nextLevel, announced, paused>>
  BY DEF EndTick
<1>3. OutOfLives <=> phase = "GAME_OVER"
  BY <1>1 DEF IInv, EndInv
<1>4. OutOfLives' <=> OutOfLives
  BY <1>2 DEF OutOfLives, playerVars
<1>5. LevelInv'
  BY <1>2 DEF IInv, LevelInv, levelVars
<1>6. CASE OutOfLives
  <2>1. active' = FALSE /\ reports' = [reports EXCEPT !["defeat"] = @ + 1]
    BY <1>6 DEF EndTick, EndWith
  <2>2. reports["defeat"] \in Nat /\ reports["victory"] \in Nat
    BY DEF IInv, PlayersInv, TypeOK
  <2>3. reports["defeat"] + reports["victory"] = 0
    BY <1>1 DEF IInv, EndInv, ReportedOnce
  <2>4. reports["defeat"] = 0 /\ reports["victory"] = 0
    BY <2>2, <2>3
  <2>5. /\ ~active' /\ active' \in BOOLEAN
        /\ reports' = [reports EXCEPT !["defeat"] = @ + 1]
        /\ reports["defeat"] = 0 /\ reports["victory"] = 0
    BY <2>1, <2>4
  <2>6. /\ reports'["defeat"] = 1 /\ reports'["victory"] = 0
        /\ reports' \in [{"defeat", "victory"} -> Nat]
    BY <2>5 DEF IInv, PlayersInv, TypeOK
  <2>7. ship = {}
    BY <1>6 DEF OutOfLives, IInv, PlayersInv, LivesSound, TypeOK
  <2>8. PlayersInv'
    BY <1>1, <1>2, <2>5, <2>6 DEF IInv, PlayersInv, TypeOK, Stages, LivesSound, TimersRun,
          playerVars, levelVars
  <2>9. EndInv'
    BY <1>1, <1>2, <1>3, <1>4, <1>6, <2>5, <2>6, <2>7 DEF EndInv, ReportedOnce, EndsRight,
          playerVars, levelVars
  <2>. QED
    BY <1>5, <2>8, <2>9 DEF IInv
<1>7. CASE ~OutOfLives
  <2>1. UNCHANGED endVars
    BY <1>3, <1>7 DEF EndTick
  <2>2. PlayersInv'
    BY <1>1, <1>2, <2>1 DEF IInv, PlayersInv, TypeOK, Stages, LivesSound, TimersRun,
          playerVars, levelVars, endVars
  <2>3. EndInv'
    BY <1>1, <1>2, <1>3, <1>4, <1>7, <2>1 DEF IInv, EndInv, ReportedOnce, EndsRight,
          playerVars, levelVars, endVars, PlayersInv, TypeOK
  <2>. QED
    BY <1>5, <2>2, <2>3 DEF IInv
<1>. QED
  BY <1>6, <1>7

------------------------------------------------------------------------------
(* Theorems                                                                *)

LEMMA NextIInv == IInv /\ [Next]_vars => IInv'
<1> SUFFICES ASSUME IInv, [Next]_vars
             PROVE  IInv'
  OBVIOUS
<1>1. ASSUME NEW p \in Players, RemovePlayer(p)
      PROVE  IInv'
  BY <1>1, RemovePlayerIInv
<1>2. ASSUME NEW p \in Players, PlayerDies(p)
      PROVE  IInv'
  BY <1>2, PlayerDiesIInv
<1>3. CASE UNCHANGED vars
  BY <1>3 DEF vars, IInv, PlayersInv, TypeOK, LivesSound, TimersRun, EndInv, ReportedOnce,
        EndsRight, OutOfLives, LevelInv, playerVars, levelVars, signalVars, endVars
<1>4. CASE Erased
  BY <1>3, <1>4 DEF Erased
<1>. QED
  BY <1>1, <1>2, <1>3, <1>4, SetPausedIInv, BeginTickIInv, BossDiesIInv, LevelStepIInv,
     CheckpointStepIInv, BossStepIInv, FinalVictoryIInv, AnnounceStepIInv, LoadLevelIInv,
     LoadFailsIInv, NothingToLoadIInv, EndTickIInv DEF Next, TickStep

LEMMA AlwaysIInv == Spec => []IInv
  BY InitIInv, NextIInv, PTL DEF Spec

\* The state is well typed; lives_remaining stays within what it started with
THEOREM SessionTypeCorrect == Spec => []TypeOK
<1>1. IInv => TypeOK
  BY DEF IInv, PlayersInv
<1>. QED
  BY AlwaysIInv, <1>1, PTL

\* A ship and the wait for one exclude each other, and both need a life
THEOREM SessionLivesSound == Spec => []LivesSound
<1>1. IInv => LivesSound
  BY DEF IInv, PlayersInv
<1>. QED
  BY AlwaysIInv, <1>1, PTL

\* on_game_over is called once, when the session stops being active
THEOREM SessionReportedOnce == Spec => []ReportedOnce
<1>1. IInv => ReportedOnce
  BY DEF IInv, EndInv
<1>. QED
  BY AlwaysIInv, <1>1, PTL

\* A defeat means nobody can play on, a victory that the last boss is beaten
THEOREM SessionEndsRight == Spec => []EndsRight
<1>1. IInv => EndsRight
  BY DEF IInv, EndInv
<1>. QED
  BY AlwaysIInv, <1>1, PTL

\* Between two ticks, an active session has somebody with a life
THEOREM SessionHasLives == Spec => []ActiveHasLives
<1>1. IInv => ActiveHasLives
  BY DEF IInv, EndInv, ActiveHasLives
<1>. QED
  BY AlwaysIInv, <1>1, PTL

\* A level is completed against its own boss, not the boss of the one before
THEOREM SessionOwnBoss == Spec => []OwnBossFought
<1>1. IInv => OwnBossFought
  BY DEF IInv, LevelInv, OwnBossFought
<1>. QED
  BY AlwaysIInv, <1>1, PTL

------------------------------------------------------------------------------
(* Announcements, when no tick stalls                                      *)

Underway == {"WAVES", "BOSS_TRANSITION", "BOSS_FIGHT"}

\* The level on its way to be loaded was announced, a pending announcement is of
\* the level that comes next, and a victory screen whose delay is over has sent it
AnnounceInv ==
    /\ level # loaded => level \in announced
    /\ announcing => nextLevel = NextLevel(level)
    /\ /\ phase = "LEVEL_COMPLETE" /\ ~announcing /\ level < TotalLevels
       /\ lastPhase = "LEVEL_COMPLETE" \/ stage \in {"load", "over"}
       => NextLevel(level) \in announced
    /\ phase \in Underway => lastPhase # "LEVEL_COMPLETE"
    /\ lastPhase = "LEVEL_COMPLETE" /\ stage \in {"idle", "systems"}
       => phase \in {"LEVEL_COMPLETE", "GAME_OVER"}

LEMMA SameLevel == \A l : AnnouncedLevel(l) = NextLevel(l)
  BY DEF AnnouncedLevel, NextLevel

LEMMA LevelStepAnnounce ==
    ASSUME ~Stalls, AnnounceInv, LevelStep
    PROVE  AnnounceInv'
<1>1. /\ stage = "systems" /\ stage' = "checkpoint"
      /\ UNCHANGED <<loaded, lastPhase, announcing, nextLevel, announced>>
  BY DEF LevelStep, signalVars
<1>2. CASE UNCHANGED <<phase, level>>
  BY <1>1, <1>2 DEF AnnounceInv, NextLevel
<1>3. CASE level' = level /\ phase' \in Underway /\ phase \in Underway \cup {"LEVEL_START"}
  BY <1>1, <1>3 DEF AnnounceInv, Underway, NextLevel
<1>4. CASE level' = level /\ phase' = "LEVEL_COMPLETE" /\ phase = "BOSS_FIGHT"
  BY <1>1, <1>4 DEF AnnounceInv, Underway, NextLevel
<1>5. CASE /\ phase = "LEVEL_COMPLETE" /\ level < TotalLevels
           /\ lastPhase = "LEVEL_COMPLETE" /\ ~announcing
           /\ phase' = "LEVEL_START" /\ level' = NextLevel(level)
  BY <1>1, <1>5 DEF AnnounceInv, Underway
<1>. QED
  BY <1>2, <1>3, <1>4, <1>5 DEF LevelStep, Underway

LEMMA AnnounceStepAnnounce ==
    ASSUME AnnounceInv, AnnounceStep
    PROVE  AnnounceInv'
<1> DEFINE entered == lastPhase # "LEVEL_COMPLETE" /\ ~announcing
<1>1. /\ stage = "complete" /\ stage' = "load"
      /\ UNCHANGED <<phase, level, loaded, lastPhase>>
  BY DEF AnnounceStep, levelVars
<1>2. CASE phase # "LEVEL_COMPLETE"
  <2>1. UNCHANGED <<announcing, nextLevel, announced>>
    BY <1>2 DEF AnnounceStep
  <2>. QED
    BY <1>1, <1>2, <2>1 DEF AnnounceInv, Underway, NextLevel
<1>3. CASE phase = "LEVEL_COMPLETE"
  <2>1. /\ nextLevel' = IF entered THEN AnnouncedLevel(level) ELSE nextLevel
        /\ \/ announcing' = (announcing \/ entered) /\ UNCHANGED announced
           \/ /\ announcing \/ entered
              /\ announcing' = FALSE
              /\ announced' = announced \cup {nextLevel'}
    BY <1>3 DEF AnnounceStep
  <2>2. announcing \/ entered => nextLevel' = NextLevel(level)
    BY <2>1, SameLevel DEF AnnounceInv
  <2>3. ~(announcing \/ entered) /\ level < TotalLevels => NextLevel(level) \in announced
    BY <1>1, <1>3 DEF AnnounceInv
  <2>4. announced \subseteq announced'
    BY <2>1
  <2>5. announcing' => nextLevel' = NextLevel(level)
    BY <2>1, <2>2
  <2>6. ~announcing' /\ level < TotalLevels => NextLevel(level) \in announced'
    BY <2>1, <2>2, <2>3
  <2>. QED
    BY <1>1, <1>3, <2>4, <2>5, <2>6 DEF AnnounceInv, Underway, NextLevel
<1>. QED
  BY <1>2, <1>3

\* An early end of the tick by a missing boss leaves the phase of the tick before
LEMMA NextAnnounce ==
    ASSUME ~Stalls
    PROVE  AnnounceInv /\ [Next]_vars => AnnounceInv'
<1> SUFFICES ASSUME AnnounceInv, [Next]_vars
             PROVE  AnnounceInv'
  OBVIOUS
<1>1. ASSUME NEW p \in Players, RemovePlayer(p)
      PROVE  AnnounceInv'
  BY <1>1 DEF RemovePlayer, AnnounceInv, NextLevel, levelVars, signalVars
<1>2. ASSUME NEW p \in Players, PlayerDies(p)
      PROVE  AnnounceInv'
  <2>1. /\ stage = "systems" /\ stage' = stage /\ phase' \in {phase, "GAME_OVER"}
        /\ UNCHANGED <<level, loaded, lastPhase, announcing, nextLevel, announced>>
    BY <1>2 DEF PlayerDies, signalVars
  <2>. QED
    BY <2>1 DEF AnnounceInv, Underway, NextLevel
<1>3. CASE SetPaused
  BY <1>3 DEF SetPaused, AnnounceInv, NextLevel, levelVars, signalVars
<1>4. CASE BeginTick
  BY <1>4 DEF BeginTick, AnnounceInv, NextLevel, levelVars, signalVars
<1>5. CASE BossDies
  BY <1>5 DEF BossDies, AnnounceInv, NextLevel, signalVars
<1>6. CASE LevelStep
  BY <1>6, LevelStepAnnounce
<1>7. CASE CheckpointStep
  BY <1>7 DEF CheckpointStep, AnnounceInv, NextLevel, levelVars, signalVars
<1>8. CASE BossStep
  <2>1. /\ stage = "boss" /\ stage' \in {"idle", "complete"}
        /\ stage' = "idle" => phase = "BOSS_FIGHT"
        /\ UNCHANGED <<phase, level, loaded, lastPhase, announcing, nextLevel, announced>>
    BY <1>8 DEF BossStep, signalVars
  <2>. QED
    BY <2>1 DEF AnnounceInv, Underway, NextLevel
<1>9. CASE FinalVictory
  BY <1>9 DEF FinalVictory, AnnounceInv, Underway, NextLevel, levelVars, signalVars
<1>10. CASE AnnounceStep
  BY <1>10, AnnounceStepAnnounce
<1>11. CASE LoadLevel
  BY <1>11 DEF LoadLevel, AnnounceInv, Underway, NextLevel, signalVars
<1>12. CASE LoadFails
  BY <1>12 DEF LoadFails, AnnounceInv, NextLevel, signalVars
<1>13. CASE NothingToLoad
  BY <1>13 DEF NothingToLoad, AnnounceInv, NextLevel, levelVars, signalVars
<1>14. CASE EndTick
  BY <1>14 DEF EndTick, AnnounceInv, Underway, NextLevel, levelVars
<1>15. CASE UNCHANGED vars
  BY <1>15 DEF vars, AnnounceInv, NextLevel, levelVars, signalVars
<1>16. CASE Erased
  BY <1>15, <1>16 DEF Erased
<1>. QED
  BY <1>1, <1>2, <1>3, <1>4, <1>5, <1>6, <1>7, <1>8, <1>9, <1>10, <1>11, <1>12, <1>13,
     <1>14, <1>15, <1>16 DEF Next, TickStep

\* A level that becomes ready was announced to the clients before
\* (GameSession.cpp:707-764 and 858-862)
THEOREM SessionAnnounces ==
    ASSUME ~Stalls
    PROVE  Spec => ReadyWasAnnounced
<1>1. Init => AnnounceInv
  BY DEF Init, AnnounceInv, Underway
<1>2. AnnounceInv /\ [Next]_vars => AnnounceInv'
  BY NextAnnounce
<1>3. AnnounceInv /\ [Next]_vars => [loaded' # loaded => loaded' \in announced]_vars
  BY DEF AnnounceInv, Next, TickStep, RemovePlayer, PlayerDies, SetPaused, BeginTick, BossDies,
         LevelStep, CheckpointStep, BossStep, FinalVictory, AnnounceStep, LoadLevel, LoadFails,
         NothingToLoad, EndTick, Erased, vars, levelVars
<1>. QED
  BY <1>1, <1>2, <1>3, PTL DEF Spec, ReadyWasAnnounced
================================================================================
