--------------------------------- MODULE Combat ---------------------------------
(***************************************************************************)
(* One tick of a session's fight: ships, enemies, their bullets, bonuses   *)
(* and turrets, and the handlers that damage, death and kill events call.  *)
(* A tick runs the systems in the order of GameSession::update; step says  *)
(* which one.  In a step every pair that touches is handled once, in any   *)
(* order (the order of a sparse set), and positions are left out: which    *)
(* pairs touch is a choice.  The lives and levels of the session are in    *)
(* GameSession, packets in Replication.                                    *)
(*                                                                         *)
(* Events are handled inside publish, so a hit with all it causes is one   *)
(* step.  HealthSystem and ScoreSystem are initialised twice and each of   *)
(* their handlers runs twice.  An entity marked twice leaves a copy in     *)
(* ToDestroy that names nobody; killing nobody changes nothing, so marked  *)
(* is a set.  Scores count in hundreds.                                    *)
(***************************************************************************)
EXTENDS Integers, Sequences, FiniteSets, FiniteSetsExt

CONSTANTS
    Players,
    Ships, Enemies, Bullets, Bonuses, Turrets,  \* entity ids, each used once
    Kamikazes,   \* the enemies that die on contact
    Nobody,      \* no entity
    MaxHealth,   \* of a ship and of an enemy
    Thresholds,  \* LEVEL_THRESHOLDS
    Lives        \* get_lives_for_difficulty

\* The first level is free, and only the first
ASSUME ThresholdsAssumption ==
    /\ Thresholds \in Seq(Nat) /\ Thresholds # <<>>
    /\ \A l \in DOMAIN Thresholds : Thresholds[l] = 0 <=> l = 1
ASSUME HealthAssumption == MaxHealth \in Nat \ {0} /\ Lives \in Nat \ {0}
ASSUME EntitiesAssumption ==
    /\ Kamikazes \subseteq Enemies /\ Enemies \cap Ships = {}
    /\ (Bullets \cup Bonuses \cup Turrets) \cap (Ships \cup Enemies) = {}

VARIABLES
    step,     \* the system that runs
    met,      \* the pairs this step has handled
    life,     \* "none", "on" (in the registry) or "gone", by entity
    marked,   \* ToDestroy
    health,   \* Health of ships and enemies
    score, rank,     \* Score, PlayerLevel::current_level of ships
    shield, safe,    \* ships with Shield, with Invulnerability left
    turret,          \* BonusWeapon::weaponEntity of ships
    owner,           \* ProjectileOwner of bullets, which tells their faction
    content,         \* Bonus::type of bonuses
    inSession,       \* players_
    ship,            \* GamePlayer::entity
    alive,           \* GamePlayer::is_alive
    saved,           \* GamePlayer::score
    lives, pending,  \* PlayerLives
    sorties          \* history: the ships each player was given

bodyVars == <<life, marked, health, owner, content>>
shipVars == <<score, rank, shield, safe, turret>>
playerVars == <<inSession, ship, alive, saved, lives, pending, sorties>>
vars == <<step, met, bodyVars, shipVars, playerVars>>

Entities == Ships \cup Enemies \cup Bullets \cup Bonuses \cup Turrets
On == {e \in Entities : life[e] = "on"}
Levels == 1..Len(Thresholds)
Types == {"HEALTH", "SHIELD", "BONUS_WEAPON"}

TypeOK ==
    /\ life \in [Entities -> {"none", "on", "gone"}] /\ marked \subseteq Entities
    /\ health \in [Ships \cup Enemies -> Int]
    /\ score \in [Ships -> Nat] /\ rank \in [Ships -> Levels]
    /\ shield \subseteq Ships /\ safe \subseteq Ships
    /\ turret \in [Ships -> Turrets \cup {Nobody}]
    /\ owner \in [Bullets -> Ships \cup Enemies \cup {Nobody}]
    /\ content \in [Bonuses -> Types \cup {"none"}]
    /\ inSession \subseteq Players /\ ship \in [Players -> Ships]
    /\ alive \subseteq Players /\ pending \subseteq Players
    /\ saved \in [Players -> Nat] /\ lives \in [Players -> 0..Lives]

\* spawn_player_entity for each player; enemies and bullets come later
Init ==
    /\ step = "idle" /\ met = {}
    /\ ship \in {s \in [Players -> Ships] : \A p, q \in Players : p # q => s[p] # s[q]}
    /\ life = [e \in Entities |-> IF \E p \in Players : ship[p] = e THEN "on" ELSE "none"]
    /\ marked = {}
    /\ health = [b \in Ships \cup Enemies |-> MaxHealth]
    /\ score = [s \in Ships |-> 0] /\ rank = [s \in Ships |-> 1]
    /\ shield = {} /\ safe = {ship[p] : p \in Players}
    /\ turret = [s \in Ships |-> Nobody] /\ owner = [b \in Bullets |-> Nobody]
    /\ content = [g \in Bonuses |-> "none"]
    /\ inSession = Players /\ alive = Players /\ pending = {}
    /\ saved = [p \in Players |-> 0] /\ lives = [p \in Players |-> Lives]
    /\ sorties = [p \in Players |-> 1]

------------------------------------------------------------------------------
(* Handlers                                                                *)

\* get_level_for_score
LevelFor(points) == Max({l \in Levels : points >= Thresholds[l]})

\* How often HealthSystem's and ScoreSystem's handlers are subscribed
Subscriptions == 2

HealthAfter(h, damage) == Max({0, h - Subscriptions * damage})

\* mutant of Ranked: levels are checked before the score is added
Ranked_BeforeScore(points) ==
    [s \in Ships |-> IF s \in On THEN Max({rank[s], LevelFor(score[s])}) ELSE rank[s]]

\* check_all_players_level_up, subscribed after ScoreSystem
Ranked(points) ==
    [s \in Ships |-> IF s \in On THEN Max({rank[s], LevelFor(points[s])}) ELSE rank[s]]

\* EnemyKilledEvent, so many times: a hundred points for the killer
Credit(killer, kills) ==
    /\ score' = IF killer \in Ships \cap On
                THEN [score EXCEPT ![killer] = @ + Subscriptions * kills] ELSE score
    /\ rank' = IF kills > 0 THEN Ranked(score') ELSE rank

\* BonusSpawnEvent: a kill drops a bonus one time in five
Drop(kills) ==
    \E G \in SUBSET {g \in Bonuses : life[g] = "none"} :
        /\ Cardinality(G) <= kills
        /\ life' = [x \in Entities |-> IF x \in G THEN "on" ELSE life[x]]
        /\ content' \in {c \in [Bonuses -> Types \cup {"none"}] :
                            \A g \in Bonuses : g \notin G => c[g] = content[g]}
        /\ \A g \in G : content'[g] # "none"

\* mutant of PlayersDie: every death event of the ship costs a life
PlayersDie_EachEvent(pilots, events) ==
    /\ alive' = alive \ pilots
    /\ saved' = [p \in Players |-> IF p \in pilots THEN score[ship[p]] ELSE saved[p]]
    /\ lives' = [p \in Players |-> IF p \in pilots THEN Max({0, lives[p] - events}) ELSE lives[p]]
    /\ pending' = pending \cup {p \in pilots : lives'[p] > 0}

\* The EntityDeathEvent handler of GameSession and on_player_death: the second
\* event finds is_alive cleared
PlayersDie(pilots, events) ==
    /\ alive' = alive \ pilots
    /\ saved' = [p \in Players |-> IF p \in pilots THEN score[ship[p]] ELSE saved[p]]
    /\ lives' = [p \in Players |-> IF p \in pilots THEN lives[p] - 1 ELSE lives[p]]
    /\ pending' = pending \cup {p \in pilots : lives[p] > 1}

\* mutant of DeathEvents: an entity dies once its health is below zero
DeathEvents_BelowZero(damage) ==
    {d \in (DOMAIN damage) \X (1..Subscriptions) : health[d[1]] - d[2] * damage[d[1]] < 0}

\* Each of HealthSystem's handlers that finds no health left publishes a death
DeathEvents(damage) ==
    {d \in (DOMAIN damage) \X (1..Subscriptions) : health[d[1]] - d[2] * damage[d[1]] <= 0}

\* DamageEvents, the damage by entity, and all their handlers do.  The turret of
\* a ship is marked with it, and so is what the caller marks.
Damage(damage, killer, struck) ==
    LET fallen == {d[1] : d \in DeathEvents(damage)}
        kills == Cardinality({d \in DeathEvents(damage) : d[1] \in Enemies})
        pilots == {p \in inSession \cap alive : ship[p] \in fallen}
    IN  /\ health' = [b \in DOMAIN health |->
                        IF b \in DOMAIN damage THEN HealthAfter(health[b], damage[b]) ELSE health[b]]
        /\ marked' = marked \cup struck \cup fallen
                        \cup ({turret[ship[p]] : p \in pilots} \ {Nobody})
        /\ Credit(killer, kills)
        /\ Drop(kills)
        /\ PlayersDie(pilots, Subscriptions)

------------------------------------------------------------------------------
(* Shooting, bonuses and turrets                                           *)

\* ShootingSystem, BonusWeaponSystem, and the inputs and enemy shooting of
\* ServerNetworkSystem: whatever is in the registry may fire, marked or not.  Of
\* steps nobody could tell apart, "shoot again" and "network", one stands for both.
Fire ==
    /\ step \in {"shoot", "network"}
    /\ \E s \in (Ships \cup Enemies) \cap On, b \in Bullets :
          /\ life[b] = "none"
          /\ life' = [life EXCEPT ![b] = "on"]
          /\ owner' = [owner EXCEPT ![b] = s]
    /\ UNCHANGED <<step, met, marked, health, content, shipVars, playerVars>>

\* updateLaserBeam, the weapon of the last level: one damage a tick, without
\* an event, to any enemy it crosses
Laser ==
    /\ step \in {"shoot", "shoot again"}
    /\ \E s \in Ships \cap On, e \in Enemies \cap On :
          /\ rank[s] = Len(Thresholds)
          /\ <<s, "laser">> \notin met /\ met' = met \cup {<<s, "laser">>}
          /\ health' = [health EXCEPT ![e] = @ - 1]
          /\ IF health'[e] <= 0
             THEN marked' = marked \cup {e} /\ Credit(s, 1)
             ELSE UNCHANGED <<marked, score, rank>>
    /\ UNCHANGED <<step, life, owner, content, shield, safe, turret, playerVars>>

\* A bullet at the end of its lifetime or in a wall.  It hits until it is
\* destroyed, so it does not matter which system marks it.
Spent ==
    /\ step = "network"
    /\ \E b \in Bullets \cap On : marked' = marked \cup {b}
    /\ UNCHANGED <<step, met, life, health, owner, content, shipVars, playerVars>>

\* handleBonusCollection and CompanionSpawnEvent: a bonus is marked by the first
\* ship that touches it and stays in the registry to the end of the tick
Collect ==
    /\ step \in {"collect", "collect again"}
    /\ \E g \in Bonuses \cap On, s \in Ships \cap On :
          /\ g \notin met /\ met' = met \cup {g}
          /\ marked' = marked \cup {g}
          /\ \/ /\ content[g] = "HEALTH"
                /\ health' = [health EXCEPT ![s] = IF @ = MaxHealth THEN @ ELSE @ + 1]
                /\ UNCHANGED <<life, shield, turret>>
             \/ /\ content[g] = "SHIELD"
                /\ shield' = shield \cup {s}
                /\ UNCHANGED <<life, health, turret>>
             \/ /\ content[g] = "BONUS_WEAPON"
                /\ \/ /\ turret[s] = Nobody
                      /\ \E t \in Turrets :
                            /\ life[t] = "none"
                            /\ life' = [life EXCEPT ![t] = "on"]
                            /\ turret' = [turret EXCEPT ![s] = t]
                   \/ turret[s] # Nobody /\ UNCHANGED <<life, turret>>
                /\ UNCHANGED <<health, shield>>
    /\ UNCHANGED <<step, owner, content, score, rank, safe, playerVars>>

\* updateBonusLifetimes
Expire ==
    /\ step = "collect again"
    /\ \E g \in Bonuses \cap On : marked' = marked \cup {g}
    /\ UNCHANGED <<step, met, life, health, owner, content, shipVars, playerVars>>

------------------------------------------------------------------------------
(* CollisionSystem::update                                                 *)

Meet(a, b) == <<a, b>> \notin met /\ met' = met \cup {<<a, b>>}

\* A player's bullet and an enemy
BulletHitsEnemy ==
    /\ step = "bullets"
    /\ \E b \in Bullets \cap On, e \in Enemies \cap On :
          /\ owner[b] \in Ships /\ Meet(b, e)
          /\ Damage([x \in {e} |-> 1], owner[b], {b})
    /\ UNCHANGED <<step, owner, shield, safe, turret, inSession, ship, sorties>>

\* A shield takes the hit of a ship; the others may be hurt all the same
Shielded(s, others, struck) ==
    /\ s \in shield /\ shield' = shield \ {s}
    /\ Damage(others, Nobody, struck)

Unshielded(s, others, struck) ==
    /\ s \notin shield /\ UNCHANGED shield
    /\ Damage([x \in DOMAIN others \cup {s} |-> IF x = s THEN 1 ELSE others[x]], Nobody, struck)

\* An enemy's bullet and a ship; the time after a respawn protects from neither
BulletHitsShip ==
    /\ step = "wounds"
    /\ \E b \in Bullets \cap On, s \in Ships \cap On :
          /\ owner[b] \in Enemies /\ Meet(b, s)
          /\ Shielded(s, <<>>, {b}) \/ Unshielded(s, <<>>, {b})
    /\ UNCHANGED <<step, owner, safe, turret, inSession, ship, sorties>>

\* A kamikaze always dies, for nobody's points, and ignores invulnerability
KamikazeHitsShip ==
    /\ step = "contacts"
    /\ \E s \in Ships \cap On, e \in Kamikazes \cap On :
          /\ Meet(s, e)
          /\ LET lethal == [x \in {e} |-> MaxHealth]
             IN  Shielded(s, lethal, {}) \/ Unshielded(s, lethal, {})
    /\ UNCHANGED <<step, owner, safe, turret, inSession, ship, sorties>>

\* Any other enemy hurts a ship that is not invulnerable, which then is
EnemyTouchesShip ==
    /\ step = "contacts"
    /\ \E s \in (Ships \cap On) \ safe, e \in (Enemies \cap On) \ Kamikazes :
          /\ Meet(s, e)
          /\ safe' = safe \cup {s}
          /\ Shielded(s, <<>>, {}) \/ Unshielded(s, <<>>, {})
    /\ UNCHANGED <<step, owner, turret, inSession, ship, sorties>>

------------------------------------------------------------------------------
(* The rest of the tick, and what happens between two                      *)

Steps == <<"idle", "shoot", "collect", "bullets", "wounds", "contacts",
           "shoot again", "collect again", "network", "destroy", "world">>

\* The next system; CollisionSystem begins with the invulnerability timers
Advance ==
    /\ step # "destroy"
    /\ \E i \in DOMAIN Steps :
          Steps[i] = step /\ step' = Steps[IF i = Len(Steps) THEN 1 ELSE i + 1]
    /\ met' = {}
    /\ IF step = "collect" THEN safe' \in SUBSET safe ELSE UNCHANGED safe
    /\ UNCHANGED <<bodyVars, score, rank, shield, turret, playerVars>>

\* kill_entity: every component goes
Killed(S) ==
    /\ life' = [e \in Entities |-> IF e \in S THEN "gone" ELSE life[e]]
    /\ marked' = marked \ S
    /\ health' = [b \in DOMAIN health |-> IF b \in S THEN 0 ELSE health[b]]
    /\ content' = [g \in Bonuses |-> IF g \in S THEN "none" ELSE content[g]]
    /\ owner' = [b \in Bullets |-> IF b \in S THEN Nobody ELSE owner[b]]
    /\ score' = [s \in Ships |-> IF s \in S THEN 0 ELSE score[s]]
    /\ rank' = [s \in Ships |-> IF s \in S THEN 1 ELSE rank[s]]
    /\ shield' = shield \ S /\ safe' = safe \ S
    /\ turret' = [s \in Ships |-> IF s \in S THEN Nobody ELSE turret[s]]

\* DestroySystem::update
Destroy ==
    /\ step = "destroy" /\ step' = "world"
    /\ Killed(marked)
    /\ UNCHANGED <<met, playerVars>>

\* on_spawn_enemy and the boss
SpawnEnemy ==
    /\ step = "world"
    /\ \E e \in Enemies : life[e] = "none" /\ life' = [life EXCEPT ![e] = "on"]
    /\ UNCHANGED <<step, met, marked, health, owner, content, shipVars, playerVars>>

\* check_offscreen_enemies; no ship is among them
Offscreen ==
    /\ step = "world"
    /\ \E e \in On \ Ships : Killed({e})
    /\ UNCHANGED <<step, met, playerVars>>

\* clear_enemies, when a level is loaded
ClearEnemies ==
    /\ step = "world"
    /\ Enemies \cap On # {}
    /\ marked' = marked \cup (Enemies \cap On)
    /\ UNCHANGED <<step, met, life, health, owner, content, shipVars, playerVars>>

\* mutant of Respawn: the new ship starts from nothing
Respawn_NoScore ==
    /\ step = "world"
    /\ \E p \in pending \cap inSession, s \in Ships :
          /\ life[s] = "none" /\ life' = [life EXCEPT ![s] = "on"]
          /\ ship' = [ship EXCEPT ![p] = s]
          /\ alive' = alive \cup {p} /\ pending' = pending \ {p}
          /\ safe' = safe \cup {s}
          /\ sorties' = [sorties EXCEPT ![p] = @ + 1]
    /\ UNCHANGED <<step, met, marked, health, owner, content, score, rank, shield, turret, inSession, saved,
                   lives>>

\* respawn_player_at, after the delay: level one, with the score of the last ship
Respawn ==
    /\ step = "world"
    /\ \E p \in pending \cap inSession, s \in Ships :
          /\ life[s] = "none" /\ life' = [life EXCEPT ![s] = "on"]
          /\ ship' = [ship EXCEPT ![p] = s]
          /\ alive' = alive \cup {p} /\ pending' = pending \ {p}
          /\ score' = [score EXCEPT ![s] = saved[p]]
          /\ safe' = safe \cup {s}
          /\ sorties' = [sorties EXCEPT ![p] = @ + 1]
    /\ UNCHANGED <<step, met, marked, health, owner, content, rank, shield, turret, inSession, saved, lives>>

\* remove_player, on the main thread
RemovePlayer ==
    /\ step = "idle"
    /\ \E p \in inSession :
          /\ inSession' = inSession \ {p}
          /\ Killed({ship[p]} \cap On)
    /\ UNCHANGED <<step, met, ship, alive, saved, lives, pending, sorties>>

Next ==
    \/ Advance \/ Fire \/ Laser \/ Spent \/ Collect \/ Expire
    \/ BulletHitsEnemy \/ BulletHitsShip \/ KamikazeHitsShip \/ EnemyTouchesShip
    \/ Destroy \/ SpawnEnemy \/ Offscreen \/ ClearEnemies \/ Respawn \/ RemovePlayer

Spec == Init /\ [][Next]_vars

------------------------------------------------------------------------------
(* Properties                                                              *)

\* Between two ticks nothing without health flies, and a player is alive exactly
\* if its ship is there.
NoCorpses ==
    step = "idle" =>
        /\ \A b \in (Ships \cup Enemies) \cap On : health[b] > 0
        /\ \A p \in inSession : p \in alive <=> ship[p] \in On

\* A ship costs one life however often it is hit, and whatever hits its wreck.
OneLifePerShip ==
    \A p \in inSession :
        lives[p] = Lives - (IF p \in alive THEN sorties[p] - 1 ELSE sorties[p])

\* No ship has a level its score has not earned, and the first ship of a player
\* has the level its score earns, after whatever kills in whatever order.
RankEarned ==
    \A p \in inSession \cap alive :
        /\ rank[ship[p]] <= LevelFor(score[ship[p]])
        /\ sorties[p] = 1 => rank[ship[p]] = LevelFor(score[ship[p]])

Points(p) == IF p \in alive THEN score[ship[p]] ELSE saved[p]

\* "Preserve the player's score across respawns": a player of the session never
\* loses points.
ScoreKept == [][\A p \in inSession' : Points(p)' >= Points(p)]_vars

\* "This should be kept up-to-date by the score update callbacks": the score
\* get_player_scores returns for the global leaderboard.
ScoresCurrent == \A p \in inSession : saved[p] = Points(p)
==============================================================================
