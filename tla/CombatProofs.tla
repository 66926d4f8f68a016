----------------------------- MODULE CombatProofs -----------------------------
(***************************************************************************)
(* Proofs about a tick of the fight, for any players, entities, levels and *)
(* lives.  What makes them work: a body without health has been marked,    *)
(* and only the end of the tick lies between its mark and its destruction; *)
(* the ship of a living player never has a mark; levels never overtake the *)
(* scores they are computed from.                                          *)
(***************************************************************************)
EXTENDS Combat, FiniteSetTheorems, WellFoundedInduction, TLAPS

\* A death takes the life a sortie was made with; who waits for a ship has a
\* life for it
Accounts ==
    /\ alive \cap pending = {}
    /\ sorties \in [Players -> Nat \ {0}]
    /\ \A p \in alive \cup pending : lives[p] > 0

\* No two players ever share a ship, and a body that is still to come is whole
Hangar ==
    /\ \A p, q \in Players : p # q => ship[p] # ship[q]
    /\ \A p \in Players : life[ship[p]] # "none"
    /\ \A b \in Ships \cup Enemies : life[b] = "none" => health[b] > 0
    /\ \A s \in Ships : life[s] = "none" => s \notin marked /\ rank[s] = 1

\* From DestroySystem to the next tick there are no wrecks
Swept == step \in {"idle", "world"}

\* What has no health left and the ships of the dead are marked, the ships of
\* the living are not
Wrecks ==
    /\ \A b \in (Ships \cup Enemies) \cap On : health[b] > 0 \/ (b \in marked /\ ~Swept)
    /\ \A p \in inSession \cap alive : ship[p] \in On /\ ship[p] \notin marked
    /\ \A p \in inSession \ alive : ship[p] \in On => ship[p] \in marked /\ ~Swept

IInv ==
    /\ TypeOK
    /\ Accounts
    /\ Hangar
    /\ Wrecks
    /\ OneLifePerShip
    /\ RankEarned

------------------------------------------------------------------------------
(* Operators                                                               *)

\* Every nonempty set of naturals has a least element.
LEMMA LeastNat ==
    ASSUME NEW T \in SUBSET Nat, T # {}
    PROVE  \E x \in T : \A y \in T : x <= y
  <1> DEFINE R == OpToRel(<, Nat)
  <1>1. IsWellFoundedOn(R, Nat)
    BY NatLessThanWellFounded
  <1>2. \A x, y \in Nat : y < x => <<y, x>> \in R
    BY DEF OpToRel
  <1> HIDE DEF R
  <1>3. PICK x \in T : \A y \in T : ~(<<y, x>> \in R)
    BY <1>1, WFMin
  <1>4. ASSUME NEW y \in T PROVE x <= y
    <2>1. x \in Nat /\ y \in Nat
      OBVIOUS
    <2>2. ~(y < x)
      BY <1>2, <1>3, <2>1
    <2> QED
      BY <2>1, <2>2
  <1> QED
    BY <1>4

\* Every nonempty set of numbers up to n has a maximum.
LEMMA MaxOfInterval ==
    ASSUME NEW n \in Nat, NEW T \in SUBSET (1..n), T # {}
    PROVE  Max(T) \in T /\ \A y \in T : y <= Max(T)
  <1> DEFINE U == {n - x : x \in T}
  <1>1. U \in SUBSET Nat /\ U # {}
    <2> SUFFICES ASSUME NEW x \in T PROVE n - x \in Nat
      OBVIOUS
    <2>1. x \in 1..n
      OBVIOUS
    <2> QED
      BY <2>1
  <1> HIDE DEF U
  <1>2. PICK u \in U : \A v \in U : u <= v
    BY <1>1, LeastNat
  <1> USE DEF U
  <1>3. PICK x \in T : u = n - x
    OBVIOUS
  <1>4. ASSUME NEW y \in T PROVE x >= y
    <2>1. n - x <= n - y
      BY <1>2, <1>3
    <2>2. x \in 1..n /\ y \in 1..n
      OBVIOUS
    <2> QED
      BY <2>1, <2>2
  <1>5. \A y \in T : y \in Int
    OBVIOUS
  <1> QED
    BY <1>4, <1>5 DEF Max

LEMMA MaxOfTwo ==
    ASSUME NEW a \in Int, NEW b \in Int
    PROVE  Max({a, b}) = IF a >= b THEN a ELSE b
  <1>1. PICK x \in {a, b} : \A y \in {a, b} : x >= y
    OBVIOUS
  <1>2. Max({a, b}) \in {a, b} /\ \A y \in {a, b} : Max({a, b}) >= y
    BY <1>1 DEF Max
  <1> QED
    BY <1>2

\* The level of a score is a level, more points never give a lower one, and no
\* points give the first.
LEMMA LevelForType == \A n \in Nat : LevelFor(n) \in Levels
  <1> SUFFICES ASSUME NEW n \in Nat PROVE LevelFor(n) \in Levels
    OBVIOUS
  <1> DEFINE T == {l \in Levels : n >= Thresholds[l]}
  <1>1. 1 \in T /\ Len(Thresholds) \in Nat /\ T \in SUBSET (1..Len(Thresholds))
    BY ThresholdsAssumption DEF Levels
  <1> HIDE DEF T
  <1>2. Max(T) \in T
    BY <1>1, MaxOfInterval
  <1> QED
    BY <1>2 DEF T, LevelFor

LEMMA LevelForGrows ==
    ASSUME NEW m \in Nat, NEW n \in Nat, m <= n
    PROVE  LevelFor(m) <= LevelFor(n)
  <1> DEFINE T(k) == {l \in Levels : k >= Thresholds[l]}
  <1>1. \A k \in Nat : /\ Max(T(k)) \in T(k)
                       /\ \A l \in T(k) : l <= Max(T(k))
    <2> SUFFICES ASSUME NEW k \in Nat
                 PROVE  Max(T(k)) \in T(k) /\ \A l \in T(k) : l <= Max(T(k))
      OBVIOUS
    <2>1. 1 \in T(k) /\ Len(Thresholds) \in Nat /\ T(k) \in SUBSET (1..Len(Thresholds))
      BY ThresholdsAssumption DEF Levels
    <2> HIDE DEF T
    <2> QED
      BY <2>1, MaxOfInterval
  <1>2. \A l \in Levels : Thresholds[l] \in Nat
    BY ThresholdsAssumption DEF Levels
  <1>3. \A l \in T(m) : l \in T(n)
    BY <1>2
  <1>4. Max(T(m)) <= Max(T(n))
    BY <1>1, <1>3
  <1> QED
    BY <1>4 DEF LevelFor

LEMMA LevelForNothing == LevelFor(0) = 1
  <1> DEFINE T == {l \in Levels : 0 >= Thresholds[l]}
  <1>1. T = {1}
    BY ThresholdsAssumption DEF Levels
  <1>2. Max({1}) = 1
    BY DEF Max
  <1> QED
    BY <1>1, <1>2 DEF LevelFor

------------------------------------------------------------------------------
(* Handlers                                                                *)

\* What a caller of Damage hands over: living bodies and how much each takes.
Blows(damage) ==
    /\ DOMAIN damage \subseteq (Ships \cup Enemies) \cap On
    /\ IsFiniteSet(DOMAIN damage)
    /\ \A b \in DOMAIN damage : damage[b] \in Nat \ {0}

\* Both handlers together take twice the damage and leave no less than nothing.
LEMMA HealthAfterBoth ==
    ASSUME NEW h \in Int, NEW d \in Nat
    PROVE  /\ HealthAfter(h, d) \in Int
           /\ h - 2 * d <= 0 => HealthAfter(h, d) = 0
           /\ h - 2 * d > 0 => HealthAfter(h, d) = h - 2 * d
  <1>1. HealthAfter(h, d) = Max({0, h - 2 * d})
    BY DEF HealthAfter, Subscriptions
  <1> QED
    BY <1>1, MaxOfTwo

\* A body dies exactly if the two handlers leave nothing, and the deaths of one
\* blow can be counted.
LEMMA DeathsCounted ==
    ASSUME NEW damage, Blows(damage), TypeOK
    PROVE  /\ \A b : b \in {d[1] : d \in DeathEvents(damage)}
                     <=> b \in DOMAIN damage /\ health[b] - 2 * damage[b] <= 0
           /\ Cardinality({d \in DeathEvents(damage) : d[1] \in Enemies}) \in Nat
  <1>1. \A b \in DOMAIN damage : health[b] \in Int /\ damage[b] \in Nat
    BY DEF Blows, TypeOK
  <1>2. ASSUME NEW d \in DeathEvents(damage)
        PROVE  d[1] \in DOMAIN damage /\ health[d[1]] - 2 * damage[d[1]] <= 0
    <2>1. /\ d[1] \in DOMAIN damage /\ d[2] \in 1..2
          /\ health[d[1]] - d[2] * damage[d[1]] <= 0
      BY DEF DeathEvents, Subscriptions
    <2>2. d[2] = 1 \/ d[2] = 2
      BY <2>1
    <2> QED
      BY <2>1, <2>2, <1>1
  <1>3. ASSUME NEW b \in DOMAIN damage, health[b] - 2 * damage[b] <= 0
        PROVE  <<b, 2>> \in DeathEvents(damage)
    BY <1>3 DEF DeathEvents, Subscriptions
  <1>4. \A b : b \in {d[1] : d \in DeathEvents(damage)}
               <=> b \in DOMAIN damage /\ health[b] - 2 * damage[b] <= 0
    <2> SUFFICES ASSUME NEW b
                 PROVE  b \in {d[1] : d \in DeathEvents(damage)}
                        <=> b \in DOMAIN damage /\ health[b] - 2 * damage[b] <= 0
      OBVIOUS
    <2>1. ASSUME b \in {d[1] : d \in DeathEvents(damage)}
          PROVE  b \in DOMAIN damage /\ health[b] - 2 * damage[b] <= 0
      BY <1>2, <2>1
    <2>2. ASSUME b \in DOMAIN damage /\ health[b] - 2 * damage[b] <= 0
          PROVE  b \in {d[1] : d \in DeathEvents(damage)}
      <3>1. <<b, 2>> \in DeathEvents(damage) /\ <<b, 2>>[1] = b
        BY <1>3, <2>2
      <3> QED
        BY <3>1
    <2> QED
      BY <2>1, <2>2
  <1>5. IsFiniteSet((DOMAIN damage) \X (1..Subscriptions))
    <2>1. IsFiniteSet(DOMAIN damage)
      BY DEF Blows
    <2>2. IsFiniteSet(1..Subscriptions)
      <3>1. \A a, b \in Int : IsFiniteSet(a..b)
        BY FS_Interval
      <3>2. 1 \in Int /\ Subscriptions \in Int
        BY DEF Subscriptions
      <3> QED
        BY <3>1, <3>2
    <2> QED
      BY ONLY <2>1, <2>2, FS_Product
  <1>6. {d \in DeathEvents(damage) : d[1] \in Enemies} \subseteq (DOMAIN damage) \X (1..Subscriptions)
    BY DEF DeathEvents
  <1>7. Cardinality({d \in DeathEvents(damage) : d[1] \in Enemies}) \in Nat
    BY <1>5, <1>6, FS_Subset, FS_CardinalityType
  <1> QED
    BY <1>4, <1>7

\* Credit takes no points away, moves only levels of ships that are there, and
\* leaves no level that the score does not earn.
LEMMA Credited ==
    ASSUME TypeOK, NEW killer, NEW kills \in Nat, Credit(killer, kills)
    PROVE  /\ score' \in [Ships -> Nat] /\ rank' \in [Ships -> Levels]
           /\ \A s \in Ships : score'[s] >= score[s]
           /\ \A s \in Ships \ On : rank'[s] = rank[s]
           /\ \A s \in Ships :
                 /\ rank[s] <= LevelFor(score[s]) => rank'[s] <= LevelFor(score'[s])
                 /\ s \in On /\ rank[s] = LevelFor(score[s]) => rank'[s] = LevelFor(score'[s])
  <1> USE DEF TypeOK
  <1>1. score' \in [Ships -> Nat] /\ \A s \in Ships : score'[s] >= score[s]
    BY DEF Credit, Subscriptions
  <1>2. ASSUME NEW s \in Ships
        PROVE  /\ LevelFor(score[s]) \in Levels /\ LevelFor(score'[s]) \in Levels
               /\ LevelFor(score[s]) <= LevelFor(score'[s])
    BY <1>1, LevelForType, LevelForGrows
  <1>3. Levels \subseteq Int
    BY DEF Levels
  <1>4. CASE kills = 0
    <2>1. score' = score
      BY <1>1, <1>4 DEF Credit, Subscriptions
    <2>2. rank' = rank
      BY <1>4 DEF Credit
    <2> QED
      BY <1>1, <2>1, <2>2
  <1>5. CASE kills > 0
    <2>1. rank' = [s \in Ships |-> IF s \in On THEN Max({rank[s], LevelFor(score'[s])}) ELSE rank[s]]
      BY <1>5 DEF Credit, Ranked
    <2>2. ASSUME NEW s \in Ships \cap On
          PROVE  rank'[s] = IF rank[s] >= LevelFor(score'[s]) THEN rank[s] ELSE LevelFor(score'[s])
      <3>1. rank[s] \in Int /\ LevelFor(score'[s]) \in Int
        BY <1>2, <1>3
      <3>2. Max({rank[s], LevelFor(score'[s])})
            = IF rank[s] >= LevelFor(score'[s]) THEN rank[s] ELSE LevelFor(score'[s])
        BY <3>1, MaxOfTwo
      <3> QED
        BY <2>1, <3>2
    <2>3. \A s \in Ships \ On : rank'[s] = rank[s]
      BY <2>1
    <2>4. \A s \in Ships : rank'[s] \in Levels
      BY <1>2, <2>2, <2>3
    <2>5. rank' \in [Ships -> Levels]
      BY <2>1, <2>4
    <2>6. ASSUME NEW s \in Ships
          PROVE  /\ rank[s] <= LevelFor(score[s]) => rank'[s] <= LevelFor(score'[s])
                 /\ s \in On /\ rank[s] = LevelFor(score[s]) => rank'[s] = LevelFor(score'[s])
      <3>1. /\ LevelFor(score[s]) \in Int /\ LevelFor(score'[s]) \in Int /\ rank[s] \in Int
            /\ LevelFor(score[s]) <= LevelFor(score'[s])
        BY <1>2, <1>3
      <3> QED
        BY <2>2, <2>3, <3>1
    <2> QED
      BY <1>1, <2>3, <2>5, <2>6
  <1> QED
    BY <1>4, <1>5

------------------------------------------------------------------------------
(* The inductive invariant                                                 *)

LEMMA IInvInit == Init => IInv
  <1> SUFFICES ASSUME Init
               PROVE  IInv
    OBVIOUS
  <1> USE DEF Init
  <1>1. ship \in [Players -> Ships] /\ \A p, q \in Players : p # q => ship[p] # ship[q]
    OBVIOUS
  <1>2. 1 \in Levels
    BY ThresholdsAssumption DEF Levels
  <1>3. TypeOK
    BY <1>1, <1>2, HealthAssumption DEF TypeOK, Types, Entities
  <1>4. Accounts
    BY HealthAssumption DEF Accounts
  <1>5. \A p \in Players : ship[p] \in On
    BY <1>1 DEF On, Entities
  <1>6. Hangar
    BY <1>1, <1>5, HealthAssumption DEF Hangar, On
  <1>7. Wrecks
    BY <1>5, HealthAssumption DEF Wrecks
  <1>8. OneLifePerShip
    BY HealthAssumption DEF OneLifePerShip
  <1>9. RankEarned
    <2> SUFFICES ASSUME NEW p \in Players
                 PROVE  rank[ship[p]] = 1 /\ score[ship[p]] = 0
      BY LevelForNothing DEF RankEarned
    <2> QED
      BY <1>1
  <1> QED
    BY <1>3, <1>4, <1>6, <1>7, <1>8, <1>9 DEF IInv

\* What a player's last and next ship have to do with each other is disturbed
\* only by deaths, respawns and departures.
LEMMA AccountsKept ==
    ASSUME Accounts, OneLifePerShip, UNCHANGED <<alive, pending, lives, sorties>>,
           inSession' \subseteq inSession
    PROVE  Accounts' /\ OneLifePerShip'
  BY DEF Accounts, OneLifePerShip

\* A step that neither hurts nor kills anybody, credits nobody and moves no
\* player: new enemies, bullets and turrets, marks on what is no ship, time.
LEMMA CalmStep ==
    ASSUME IInv, TypeOK', UNCHANGED <<score, rank, playerVars>>,
           \A s \in Ships : life'[s] = life[s] /\ (s \in marked' <=> s \in marked),
           \A e \in Enemies : life'[e] = life[e] \/ life[e] = "none",
           \A b \in Ships \cup Enemies : health'[b] >= health[b],
           marked \subseteq marked',
           Swept' => Swept
    PROVE  IInv'
  <1> USE DEF IInv, playerVars
  <1>1. Accounts' /\ OneLifePerShip'
    BY AccountsKept
  <1>2. \A s \in Ships : s \in On' <=> s \in On
    BY DEF On, Entities
  <1>3. \A p \in Players : ship[p] \in Ships
    BY DEF TypeOK
  <1>4. \A b \in Ships \cup Enemies : health[b] \in Int /\ health'[b] \in Int
    BY DEF TypeOK
  <1>5. Hangar'
    <2>1. \A b \in Ships \cup Enemies : life'[b] = "none" => life[b] = "none"
      BY DEF TypeOK
    <2> QED
      BY <1>3, <1>4, <2>1 DEF Hangar
  <1>6. Wrecks'
    <2>1. ASSUME NEW b \in Ships \cup Enemies, b \in On'
          PROVE  health'[b] > 0 \/ (b \in marked' /\ ~Swept')
      <3>1. life[b] = "none" \/ b \in On
        BY <2>1, <1>2 DEF On, Entities
      <3>2. CASE life[b] = "none"
        BY <3>2, <1>4 DEF Hangar
      <3>3. CASE b \in On
        BY <3>3, <1>4 DEF Wrecks
      <3> QED
        BY <3>1, <3>2, <3>3
    <2>2. \A p \in inSession \cap alive : ship[p] \in On' /\ ship[p] \notin marked'
      BY <1>2, <1>3 DEF Wrecks, TypeOK
    <2>3. \A p \in inSession \ alive : ship[p] \in On' => ship[p] \in marked' /\ ~Swept'
      BY <1>2, <1>3 DEF Wrecks, TypeOK
    <2> QED
      BY <2>1, <2>2, <2>3 DEF Wrecks
  <1>7. RankEarned'
    BY DEF RankEarned
  <1> QED
    BY <1>1, <1>5, <1>6, <1>7

\* Entities of S are destroyed, no ship of a living player among them, and all
\* that is marked if the tick ends with it.
LEMMA KillStep ==
    ASSUME IInv, NEW S \in SUBSET Entities, Killed(S),
           UNCHANGED <<ship, alive, saved, lives, pending, sorties>>,
           inSession' \subseteq inSession,
           \A p \in inSession' \cap alive : ship[p] \notin S,
           Swept' => Swept \/ marked \subseteq S
    PROVE  IInv'
  <1> USE DEF IInv
  <1>1. Accounts' /\ OneLifePerShip'
    BY AccountsKept
  <1>2. TypeOK'
    <2>1. 1 \in Levels
      BY ThresholdsAssumption DEF Levels
    <2> QED
      BY <2>1 DEF TypeOK, Killed
  <1>3. \A e \in Entities : life'[e] = IF e \in S THEN "gone" ELSE life[e]
    BY DEF Killed
  <1>4. \A b \in (Ships \cup Enemies) \ S : health'[b] = health[b]
    BY DEF Killed, TypeOK
  <1>5. \A s \in Ships \ S : rank'[s] = rank[s] /\ score'[s] = score[s]
    BY DEF Killed
  <1>6. marked' = marked \ S
    BY DEF Killed
  <1>7. \A e \in Entities : e \in On' <=> e \in On /\ e \notin S
    BY <1>3 DEF On
  <1>8. \A p \in Players : ship[p] \in Ships
    BY DEF TypeOK
  <1>9. Ships \cup Enemies \subseteq Entities
    BY DEF Entities
  <1>10. Hangar'
    <2>1. \A e \in Entities : life'[e] = "none" => life[e] = "none" /\ e \notin S
      BY <1>3
    <2>2. \A p \in Players : life'[ship[p]] # "none"
      BY <2>1, <1>8, <1>9 DEF Hangar
    <2> QED
      BY <2>1, <2>2, <1>4, <1>5, <1>6, <1>9 DEF Hangar
  <1>11. Wrecks'
    <2>1. \A b \in (Ships \cup Enemies) : b \in On' =>
             health'[b] > 0 \/ (b \in marked' /\ ~Swept')
      BY <1>4, <1>6, <1>7, <1>9 DEF Wrecks
    <2>2. \A p \in inSession' \cap alive : ship[p] \in On' /\ ship[p] \notin marked'
      BY <1>6, <1>7, <1>8, <1>9 DEF Wrecks, TypeOK
    <2>3. \A p \in inSession' \ alive : ship[p] \in On' => ship[p] \in marked' /\ ~Swept'
      BY <1>6, <1>7, <1>8, <1>9 DEF Wrecks, TypeOK
    <2> QED
      BY <2>1, <2>2, <2>3 DEF Wrecks
  <1>12. RankEarned'
    BY <1>5, <1>8 DEF RankEarned, TypeOK
  <1> QED
    BY <1>1, <1>2, <1>10, <1>11, <1>12

\* A blow: the dead are marked and lose a life, once; the killer is credited.
LEMMA WoundStep ==
    ASSUME IInv, ~Swept, NEW damage, Blows(damage), NEW killer, NEW struck \in SUBSET Bullets,
           Damage(damage, killer, struck),
           UNCHANGED <<step, owner, turret, inSession, ship, sorties>>,
           shield' \subseteq Ships, safe' \subseteq Ships
    PROVE  IInv'
  <1> DEFINE fallen == {d[1] : d \in DeathEvents(damage)}
             pilots == {p \in inSession \cap alive : ship[p] \in fallen}
  <1>0. TypeOK /\ Accounts /\ Hangar /\ Wrecks /\ OneLifePerShip /\ RankEarned
    BY DEF IInv
  <1>1. \A b : b \in fallen <=> b \in DOMAIN damage /\ health[b] - 2 * damage[b] <= 0
    BY <1>0, DeathsCounted
  <1>2. PICK kills \in Nat : Credit(killer, kills) /\ Drop(kills)
    BY <1>0, DeathsCounted DEF Damage
  <1>3. health' = [b \in DOMAIN health |->
                      IF b \in DOMAIN damage THEN HealthAfter(health[b], damage[b]) ELSE health[b]]
    BY DEF Damage
  <1>4. marked' = marked \cup struck \cup fallen \cup ({turret[ship[p]] : p \in pilots} \ {Nobody})
    BY DEF Damage
  <1>5. PlayersDie(pilots, Subscriptions)
    BY DEF Damage
  <1> HIDE DEF fallen, pilots
  <1>6. /\ pilots \subseteq inSession \cap alive
        /\ \A p \in inSession \cap alive : p \in pilots <=> ship[p] \in fallen
    BY DEF pilots
  <1>7. /\ score' \in [Ships -> Nat] /\ rank' \in [Ships -> Levels]
        /\ \A s \in Ships \ On : rank'[s] = rank[s]
        /\ \A s \in Ships :
              /\ rank[s] <= LevelFor(score[s]) => rank'[s] <= LevelFor(score'[s])
              /\ s \in On /\ rank[s] = LevelFor(score[s]) => rank'[s] = LevelFor(score'[s])
    BY <1>0, <1>2, Credited
  <1>8. /\ life' \in [Entities -> {"none", "on", "gone"}]
        /\ content' \in [Bonuses -> Types \cup {"none"}]
        /\ \A b \in Ships \cup Enemies : life'[b] = life[b]
    BY <1>0, <1>2, EntitiesAssumption DEF Drop, TypeOK, Entities
  <1>9. /\ health' \in [Ships \cup Enemies -> Int]
        /\ \A b \in (Ships \cup Enemies) \ DOMAIN damage : health'[b] = health[b]
        /\ \A b \in (Ships \cup Enemies) \ fallen : health[b] > 0 => health'[b] > 0
    <2>1. \A b \in DOMAIN damage : /\ health[b] \in Int /\ damage[b] \in Nat
                                   /\ b \in Ships \cup Enemies
      BY <1>0 DEF Blows, TypeOK
    <2>2. DOMAIN health = Ships \cup Enemies /\ \A b \in Ships \cup Enemies : health[b] \in Int
      BY <1>0 DEF TypeOK
    <2>3. \A b \in DOMAIN damage : /\ HealthAfter(health[b], damage[b]) \in Int
                                   /\ health[b] - 2 * damage[b] > 0 => HealthAfter(health[b], damage[b]) > 0
      BY <2>1, HealthAfterBoth
    <2>4. health' \in [Ships \cup Enemies -> Int]
      BY <1>3, <2>2, <2>3
    <2>5. \A b \in (Ships \cup Enemies) \ DOMAIN damage : health'[b] = health[b]
      BY <1>3, <2>2
    <2>6. ASSUME NEW b \in (Ships \cup Enemies) \ fallen, health[b] > 0
          PROVE  health'[b] > 0
      <3>1. CASE b \in DOMAIN damage
        <4>1. health'[b] = HealthAfter(health[b], damage[b])
          BY <1>3, <2>2, <3>1
        <4>2. health[b] - 2 * damage[b] > 0
          BY <1>1, <2>1, <3>1
        <4> QED
          BY <2>3, <3>1, <4>1, <4>2
      <3>2. CASE b \notin DOMAIN damage
        BY <2>5, <2>6, <3>2
      <3> QED
        BY <3>1, <3>2
    <2> QED
      BY <2>4, <2>5, <2>6
  <1>10. \A p \in Players : ship[p] \in Ships
    BY <1>0 DEF TypeOK
  <1>11. \A b \in Ships \cup Enemies : b \in On' <=> b \in On
    BY <1>8 DEF On, Entities
  <1>12. fallen \subseteq (Ships \cup Enemies) \cap On
    BY <1>1 DEF Blows
  <1>13. \A s \in Ships : s \in marked' <=> s \in marked \/ s \in fallen
    BY <1>0, <1>4, <1>6, <1>10, EntitiesAssumption DEF TypeOK
  <1>14. \A p \in pilots : p \in Players /\ p \in alive /\ p \in inSession /\ p \notin pending /\ lives[p] \in 1..Lives
    BY <1>0, <1>6, HealthAssumption DEF TypeOK, Accounts
  <1>15. \A p \in Players : lives'[p] = IF p \in pilots THEN lives[p] - 1 ELSE lives[p]
    BY <1>5 DEF PlayersDie
  <1>16. alive' = alive \ pilots /\ pending' = pending \cup {p \in pilots : lives[p] > 1}
    BY <1>5 DEF PlayersDie
  <1>17. TypeOK'
    <2>1. marked' \subseteq Entities
      BY <1>0, <1>4, <1>6, <1>10, <1>12 DEF TypeOK, Entities
    <2>2. saved' \in [Players -> Nat]
      BY <1>0, <1>5, <1>10 DEF PlayersDie, TypeOK
    <2>3. lives' \in [Players -> 0..Lives]
      <3>1. \A p \in Players : lives[p] \in 0..Lives
        BY <1>0 DEF TypeOK
      <3>2. \A p \in Players : lives'[p] \in 0..Lives
        BY <3>1, <1>14, <1>15, HealthAssumption
      <3> QED
        BY <3>2, <1>5 DEF PlayersDie
    <2>4. alive' \subseteq Players /\ pending' \subseteq Players
      BY <1>0, <1>14, <1>16 DEF TypeOK
    <2> QED
      BY <1>0, <1>7, <1>8, <1>9, <2>1, <2>2, <2>3, <2>4 DEF TypeOK
  <1>18. Accounts'
    <2>1. \A p \in Players : lives[p] \in Nat
      BY <1>0, HealthAssumption DEF TypeOK
    <2> QED
      BY <1>0, <1>14, <1>15, <1>16, <2>1 DEF Accounts, TypeOK
  <1>19. OneLifePerShip'
    <2> SUFFICES ASSUME NEW p \in inSession
                 PROVE  lives'[p] = Lives - (IF p \in alive' THEN sorties[p] - 1 ELSE sorties[p])
      BY DEF OneLifePerShip
    <2>1. p \in Players /\ lives[p] \in Int /\ sorties[p] \in Int
      BY <1>0, HealthAssumption DEF TypeOK, Accounts
    <2>2. lives[p] = Lives - (IF p \in alive THEN sorties[p] - 1 ELSE sorties[p])
      BY <1>0 DEF OneLifePerShip
    <2> QED
      BY <1>14, <1>15, <1>16, <2>1, <2>2, HealthAssumption
  <1>20. Hangar'
    <2>1. \A b \in Ships \cup Enemies : life'[b] = "none" => life[b] = "none" /\ b \notin On
      BY <1>8 DEF On
    <2>2. \A p \in Players : life'[ship[p]] # "none"
      BY <1>0, <1>8, <1>10 DEF Hangar
    <2>3. \A b \in Ships \cup Enemies : life'[b] = "none" => health'[b] > 0
      BY <1>0, <1>9, <2>1, <1>12 DEF Hangar
    <2>4. \A s \in Ships : life'[s] = "none" => s \notin marked' /\ rank'[s] = 1
      BY <1>0, <1>7, <2>1, <1>12, <1>13 DEF Hangar
    <2> QED
      BY <1>0, <2>2, <2>3, <2>4 DEF Hangar
  <1>21. Wrecks'
    <2>1. ~Swept'
      BY DEF Swept
    <2>2. \A b \in Ships \cup Enemies : b \in On' => health'[b] > 0 \/ b \in marked'
      BY <1>0, <1>4, <1>9, <1>11 DEF Wrecks
    <2>3. \A p \in inSession \cap alive' : ship[p] \in On' /\ ship[p] \notin marked'
      BY <1>0, <1>6, <1>10, <1>11, <1>13, <1>16 DEF Wrecks, TypeOK
    <2>4. \A p \in inSession \ alive' : ship[p] \in On' => ship[p] \in marked'
      BY <1>0, <1>6, <1>10, <1>11, <1>13, <1>16 DEF Wrecks, TypeOK
    <2> QED
      BY <2>1, <2>2, <2>3, <2>4 DEF Wrecks
  <1>22. RankEarned'
    <2> SUFFICES ASSUME NEW p \in inSession \cap alive'
                 PROVE  /\ rank'[ship[p]] <= LevelFor(score'[ship[p]])
                        /\ sorties[p] = 1 => rank'[ship[p]] = LevelFor(score'[ship[p]])
      BY DEF RankEarned
    <2>1. p \in alive /\ p \in Players
      BY <1>0, <1>16 DEF TypeOK
    <2>2. ship[p] \in Ships /\ ship[p] \in On
      BY <1>0, <1>10, <2>1 DEF Wrecks
    <2> QED
      BY <1>0, <1>7, <2>1, <2>2 DEF RankEarned
  <1> QED
    BY <1>17, <1>18, <1>19, <1>20, <1>21, <1>22 DEF IInv

LEMMA OneBlow ==
    ASSUME NEW b \in (Ships \cup Enemies) \cap On, NEW n \in Nat \ {0}
    PROVE  Blows([x \in {b} |-> n])
  <1>1. DOMAIN [x \in {b} |-> n] = {b} /\ IsFiniteSet({b})
    BY FS_Singleton
  <1> QED
    BY <1>1 DEF Blows

\* The callers of Damage.
LEMMA BulletHitsEnemyStep == IInv /\ BulletHitsEnemy => IInv'
  <1> SUFFICES ASSUME IInv, BulletHitsEnemy
               PROVE  IInv'
    OBVIOUS
  <1>1. PICK b \in Bullets \cap On, e \in Enemies \cap On : Damage([x \in {e} |-> 1], owner[b], {b})
    BY DEF BulletHitsEnemy
  <1>2. Blows([x \in {e} |-> 1])
    <2>1. e \in (Ships \cup Enemies) \cap On /\ 1 \in Nat \ {0}
      OBVIOUS
    <2> QED
      BY <2>1, OneBlow
  <1>3. ~Swept /\ shield' \subseteq Ships /\ safe' \subseteq Ships
    BY DEF BulletHitsEnemy, Swept, IInv, TypeOK
  <1>4. UNCHANGED <<step, owner, turret, inSession, ship, sorties>>
    BY DEF BulletHitsEnemy
  <1> QED
    BY <1>1, <1>2, <1>3, <1>4, WoundStep

\* A contact is a blow, with or without the ship.
LEMMA ContactBlows ==
    ASSUME NEW s \in Ships \cap On, NEW others, Blows(others), NEW struck,
           Shielded(s, others, struck) \/ Unshielded(s, others, struck)
    PROVE  \E damage : Blows(damage) /\ Damage(damage, Nobody, struck)
  <1>1. CASE Shielded(s, others, struck)
    BY <1>1 DEF Shielded
  <1>2. CASE Unshielded(s, others, struck)
    <2> DEFINE damage == [x \in DOMAIN others \cup {s} |-> IF x = s THEN 1 ELSE others[x]]
    <2>1. Blows(damage)
      <3>1. IsFiniteSet(DOMAIN others \cup {s})
        <4>1. IsFiniteSet(DOMAIN others)
          BY DEF Blows
        <4> QED
          BY <4>1, FS_AddElement
      <3>2. \A b \in DOMAIN damage : damage[b] \in Nat \ {0}
        BY DEF Blows
      <3> QED
        BY <3>1, <3>2 DEF Blows
    <2>2. Damage(damage, Nobody, struck)
      BY <1>2 DEF Unshielded
    <2> HIDE DEF damage
    <2> QED
      BY <2>1, <2>2
  <1> QED
    BY <1>1, <1>2

LEMMA ContactStep ==
    ASSUME IInv, ~Swept, NEW s \in Ships \cap On, NEW others, Blows(others),
           NEW struck \in SUBSET Bullets, Shielded(s, others, struck) \/ Unshielded(s, others, struck),
           UNCHANGED <<step, owner, turret, inSession, ship, sorties>>, safe' \subseteq Ships
    PROVE  IInv'
  <1>1. shield' \subseteq Ships
    BY DEF Shielded, Unshielded, IInv, TypeOK
  <1>2. PICK damage : Blows(damage) /\ Damage(damage, Nobody, struck)
    BY ContactBlows
  <1> QED
    BY <1>1, <1>2, WoundStep

LEMMA NoBlows == Blows(<<>>)
  <1>1. DOMAIN <<>> = {}
    OBVIOUS
  <1> QED
    BY <1>1, FS_EmptySet DEF Blows

LEMMA BulletHitsShipStep == IInv /\ BulletHitsShip => IInv'
  <1> SUFFICES ASSUME IInv, BulletHitsShip
               PROVE  IInv'
    OBVIOUS
  <1>1. PICK b \in Bullets \cap On, s \in Ships \cap On :
           Shielded(s, <<>>, {b}) \/ Unshielded(s, <<>>, {b})
    BY DEF BulletHitsShip
  <1>2. ~Swept /\ safe' \subseteq Ships
    BY DEF BulletHitsShip, Swept, IInv, TypeOK
  <1>3. UNCHANGED <<step, owner, turret, inSession, ship, sorties>>
    BY DEF BulletHitsShip
  <1>4. {b} \in SUBSET Bullets
    OBVIOUS
  <1> QED
    BY <1>1, <1>2, <1>3, <1>4, NoBlows, ContactStep

LEMMA KamikazeHitsShipStep == IInv /\ KamikazeHitsShip => IInv'
  <1> SUFFICES ASSUME IInv, KamikazeHitsShip
               PROVE  IInv'
    OBVIOUS
  <1>1. PICK s \in Ships \cap On, e \in Kamikazes \cap On :
           \/ Shielded(s, [x \in {e} |-> MaxHealth], {})
           \/ Unshielded(s, [x \in {e} |-> MaxHealth], {})
    BY DEF KamikazeHitsShip
  <1>2. ~Swept /\ safe' \subseteq Ships
    BY DEF KamikazeHitsShip, Swept, IInv, TypeOK
  <1>3. UNCHANGED <<step, owner, turret, inSession, ship, sorties>>
    BY DEF KamikazeHitsShip
  <1>4. Blows([x \in {e} |-> MaxHealth])
    BY OneBlow, HealthAssumption, EntitiesAssumption
  <1>5. {} \in SUBSET Bullets
    OBVIOUS
  <1> QED
    BY <1>1, <1>2, <1>3, <1>4, <1>5, ContactStep

LEMMA EnemyTouchesShipStep == IInv /\ EnemyTouchesShip => IInv'
  <1> SUFFICES ASSUME IInv, EnemyTouchesShip
               PROVE  IInv'
    OBVIOUS
  <1>1. PICK s \in (Ships \cap On) \ safe :
           /\ safe' = safe \cup {s}
           /\ Shielded(s, <<>>, {}) \/ Unshielded(s, <<>>, {})
    BY DEF EnemyTouchesShip
  <1>2. ~Swept /\ safe' \subseteq Ships
    BY <1>1 DEF EnemyTouchesShip, Swept, IInv, TypeOK
  <1>3. UNCHANGED <<step, owner, turret, inSession, ship, sorties>>
    BY DEF EnemyTouchesShip
  <1>4. {} \in SUBSET Bullets
    OBVIOUS
  <1> QED
    BY <1>1, <1>2, <1>3, <1>4, NoBlows, ContactStep

\* The laser hurts without an event: the enemy is marked once its health is gone.
LEMMA LaserStep == IInv /\ Laser => IInv'
  <1> SUFFICES ASSUME IInv, Laser
               PROVE  IInv'
    OBVIOUS
  <1> USE DEF IInv
  <1>1. PICK s \in Ships \cap On, e \in Enemies \cap On :
           /\ health' = [health EXCEPT ![e] = @ - 1]
           /\ IF health'[e] <= 0
              THEN marked' = marked \cup {e} /\ Credit(s, 1)
              ELSE UNCHANGED <<marked, score, rank>>
    BY DEF Laser
  <1>2. /\ UNCHANGED <<step, life, owner, content, shield, safe, turret, playerVars>>
        /\ ~Swept /\ ~Swept'
    BY DEF Laser, Swept
  <1>3. /\ score' \in [Ships -> Nat] /\ rank' \in [Ships -> Levels]
        /\ \A x \in Ships \ On : rank'[x] = rank[x]
        /\ \A x \in Ships :
              /\ rank[x] <= LevelFor(score[x]) => rank'[x] <= LevelFor(score'[x])
              /\ x \in On /\ rank[x] = LevelFor(score[x]) => rank'[x] = LevelFor(score'[x])
    <2>1. CASE health'[e] <= 0
      <3>1. Credit(s, 1)
        BY <1>1, <2>1
      <3> QED
        BY <3>1, Credited
    <2>2. CASE ~(health'[e] <= 0)
      BY <1>1, <2>2 DEF TypeOK
    <2> QED
      BY <2>1, <2>2
  <1>4. On' = On
    BY <1>2 DEF On
  <1>5. /\ health' \in [Ships \cup Enemies -> Int]
        /\ e \in marked' \/ health'[e] > 0
        /\ \A b \in (Ships \cup Enemies) \ {e} : health'[b] = health[b]
    BY <1>1 DEF TypeOK
  <1>6. marked \subseteq marked' /\ marked' \subseteq marked \cup {e}
    BY <1>1
  <1>7. e \notin Ships /\ e \in Entities /\ e \in On
    BY EntitiesAssumption DEF Entities
  <1>8. \A p \in Players : ship[p] \in Ships
    BY DEF TypeOK
  <1>9. TypeOK'
    BY <1>2, <1>3, <1>5, <1>6, <1>7 DEF TypeOK, playerVars
  <1>10. Accounts' /\ OneLifePerShip'
    BY <1>2, AccountsKept DEF playerVars
  <1>11. Hangar'
    BY <1>2, <1>3, <1>5, <1>6, <1>7, <1>8 DEF Hangar, playerVars, On
  <1>12. Wrecks'
    <2>1. \A b \in (Ships \cup Enemies) \cap On : health'[b] > 0 \/ b \in marked'
      BY <1>5, <1>6 DEF Wrecks
    <2> QED
      BY <1>2, <1>4, <1>6, <1>7, <1>8, <2>1 DEF Wrecks, playerVars, TypeOK
  <1>13. RankEarned'
    <2> SUFFICES ASSUME NEW p \in inSession \cap alive
                 PROVE  /\ rank'[ship[p]] <= LevelFor(score'[ship[p]])
                        /\ sorties[p] = 1 => rank'[ship[p]] = LevelFor(score'[ship[p]])
      BY <1>2 DEF RankEarned, playerVars
    <2>1. ship[p] \in Ships /\ ship[p] \in On
      BY <1>8 DEF Wrecks, TypeOK
    <2> QED
      BY <1>3, <2>1 DEF RankEarned
  <1> QED
    BY <1>9, <1>10, <1>11, <1>12, <1>13

\* A new ship, with the score of the last one.
LEMMA RespawnStep == IInv /\ Respawn => IInv'
  <1> SUFFICES ASSUME IInv, Respawn
               PROVE  IInv'
    OBVIOUS
  <1> USE DEF IInv
  <1>1. PICK p \in pending \cap inSession, s \in Ships :
           /\ life[s] = "none" /\ life' = [life EXCEPT ![s] = "on"]
           /\ ship' = [ship EXCEPT ![p] = s]
           /\ alive' = alive \cup {p} /\ pending' = pending \ {p}
           /\ score' = [score EXCEPT ![s] = saved[p]]
           /\ safe' = safe \cup {s}
           /\ sorties' = [sorties EXCEPT ![p] = @ + 1]
    BY DEF Respawn
  <1>2. /\ UNCHANGED <<step, marked, health, owner, content, rank, shield, turret, inSession, saved, lives>>
        /\ Swept' <=> Swept
    BY DEF Respawn, Swept
  <1>3. p \in Players /\ p \notin alive /\ saved[p] \in Nat /\ s \in Entities
    BY DEF TypeOK, Accounts, Entities
  <1>4. \A q \in Players : ship[q] \in Ships /\ ship[q] # s
    BY <1>1 DEF TypeOK, Hangar
  <1>5. ship'[p] = s /\ \A q \in Players \ {p} : ship'[q] = ship[q]
    BY <1>1, <1>3 DEF TypeOK
  <1>6. life'[s] = "on" /\ \A e \in Entities \ {s} : life'[e] = life[e]
    BY <1>1, <1>3 DEF TypeOK
  <1>7. \A e \in Entities : e \in On' <=> e \in On \/ e = s
    BY <1>3, <1>6 DEF On
  <1>8. Ships \cup Enemies \subseteq Entities
    BY DEF Entities
  <1>9. score'[s] = saved[p] /\ \A x \in Ships \ {s} : score'[x] = score[x]
    BY <1>1 DEF TypeOK
  <1>10. sorties' \in [Players -> Nat \ {0}] /\ sorties'[p] = sorties[p] + 1
         /\ \A q \in Players \ {p} : sorties'[q] = sorties[q]
    BY <1>1, <1>3 DEF Accounts
  <1>11. TypeOK'
    BY <1>1, <1>2, <1>3 DEF TypeOK
  <1>12. Accounts'
    BY <1>1, <1>2, <1>3, <1>10 DEF Accounts
  <1>13. OneLifePerShip'
    <2> SUFFICES ASSUME NEW q \in inSession
                 PROVE  lives[q] = Lives - (IF q \in alive' THEN sorties'[q] - 1 ELSE sorties'[q])
      BY <1>2 DEF OneLifePerShip
    <2>1. q \in Players /\ sorties[q] \in Int
      BY DEF TypeOK, Accounts
    <2>2. lives[q] = Lives - (IF q \in alive THEN sorties[q] - 1 ELSE sorties[q])
      BY DEF OneLifePerShip
    <2>3. CASE q = p
      BY <1>1, <1>3, <1>10, <2>1, <2>2, <2>3
    <2>4. CASE q # p
      BY <1>1, <1>10, <2>1, <2>2, <2>4
    <2> QED
      BY <2>3, <2>4
  <1>14. Hangar'
    <2>1. \A x, y \in Players : x # y => ship'[x] # ship'[y]
      BY <1>4, <1>5 DEF Hangar
    <2>2. \A q \in Players : life'[ship'[q]] # "none"
      BY <1>4, <1>5, <1>6, <1>8 DEF Hangar
    <2> QED
      BY <1>2, <1>6, <1>8, <2>1, <2>2 DEF Hangar
  <1>15. Wrecks'
    <2>1. \A b \in (Ships \cup Enemies) \cap On' : health[b] > 0 \/ (b \in marked /\ ~Swept)
      BY <1>1, <1>7, <1>8 DEF Wrecks, Hangar
    <2>2. \A q \in inSession \cap alive' : ship'[q] \in On' /\ ship'[q] \notin marked
      <3> SUFFICES ASSUME NEW q \in inSession \cap alive'
                   PROVE  ship'[q] \in On' /\ ship'[q] \notin marked
        OBVIOUS
      <3>1. CASE q = p
        BY <1>1, <1>3, <1>5, <1>7, <3>1 DEF Hangar
      <3>2. CASE q # p
        <4>1. q \in Players /\ q \in alive /\ ship'[q] = ship[q] /\ ship[q] \in Entities
          BY <1>1, <1>4, <1>5, <1>8, <3>2 DEF TypeOK
        <4> QED
          BY <1>7, <4>1 DEF Wrecks
      <3> QED
        BY <3>1, <3>2
    <2>3. \A q \in inSession \ alive' : ship'[q] \in On' => ship'[q] \in marked /\ ~Swept
      <3> SUFFICES ASSUME NEW q \in inSession \ alive', ship'[q] \in On'
                   PROVE  ship'[q] \in marked /\ ~Swept
        OBVIOUS
      <3>1. q \in Players /\ q \notin alive /\ q # p /\ ship'[q] = ship[q] /\ ship[q] \in Entities /\ ship[q] # s
        BY <1>1, <1>4, <1>5, <1>8 DEF TypeOK
      <3> QED
        BY <1>7, <3>1 DEF Wrecks
    <2> QED
      BY <1>2, <2>1, <2>2, <2>3 DEF Wrecks
  <1>16. RankEarned'
    <2> SUFFICES ASSUME NEW q \in inSession \cap alive'
                 PROVE  /\ rank[ship'[q]] <= LevelFor(score'[ship'[q]])
                        /\ sorties'[q] = 1 => rank[ship'[q]] = LevelFor(score'[ship'[q]])
      BY <1>2 DEF RankEarned
    <2>1. CASE q = p
      <3>1. rank[s] = 1
        BY <1>1 DEF Hangar
      <3>2. LevelFor(saved[p]) >= 1
        BY <1>3, LevelForType DEF Levels
      <3>3. sorties'[p] # 1
        BY <1>3, <1>10 DEF Accounts
      <3> QED
        BY <1>5, <1>9, <2>1, <3>1, <3>2, <3>3
    <2>2. CASE q # p
      <3>1. q \in Players /\ q \in alive /\ ship'[q] = ship[q] /\ ship[q] \in Ships \ {s}
        BY <1>1, <1>4, <1>5, <2>2 DEF TypeOK
      <3> QED
        BY <1>9, <1>10, <2>2, <3>1 DEF RankEarned
    <2> QED
      BY <2>1, <2>2
  <1> QED
    BY <1>11, <1>12, <1>13, <1>14, <1>15, <1>16

\* The order of the systems: only DestroySystem leads to a swept state.
LEMMA AdvanceStep == IInv /\ Advance => IInv'
  <1> SUFFICES ASSUME IInv, Advance
               PROVE  IInv'
    OBVIOUS
  <1>1. PICK i \in 1..11 : Steps[i] = step /\ step' = Steps[IF i = 11 THEN 1 ELSE i + 1]
    <2>1. DOMAIN Steps = 1..11 /\ Len(Steps) = 11
      BY DEF Steps
    <2> HIDE DEF Steps
    <2> QED
      BY <2>1 DEF Advance
  <1>2. Swept' => Swept
    <2> SUFFICES ASSUME ~Swept, step # "destroy"
                 PROVE  ~Swept'
      BY DEF Advance
    <2>1. /\ Steps[1] = "idle" /\ Steps[2] = "shoot" /\ Steps[3] = "collect" /\ Steps[4] = "bullets"
          /\ Steps[5] = "wounds" /\ Steps[6] = "contacts" /\ Steps[7] = "shoot again"
          /\ Steps[8] = "collect again" /\ Steps[9] = "network" /\ Steps[10] = "destroy"
          /\ Steps[11] = "world"
      BY DEF Steps
    <2> HIDE DEF Steps
    <2>2. \A j \in 3..10 : Steps[j] \notin {"idle", "world"}
      <3> SUFFICES ASSUME NEW j \in 3..10 PROVE Steps[j] \notin {"idle", "world"}
        OBVIOUS
      <3>1. j = 3 \/ j = 4 \/ j = 5 \/ j = 6 \/ j = 7 \/ j = 8 \/ j = 9 \/ j = 10
        OBVIOUS
      <3> QED
        BY <2>1, <3>1
    <2>3. i # 1 /\ i # 10 /\ i # 11
      BY <1>1, <2>1 DEF Swept
    <2>4. i + 1 \in 3..10 /\ step' = Steps[i + 1]
      BY <1>1, <2>3
    <2> QED
      BY <2>2, <2>4 DEF Swept
  <1>3. UNCHANGED <<life, marked, health, owner, content, score, rank, shield, turret, playerVars>>
    BY DEF Advance, bodyVars
  <1>4. safe' \subseteq safe
    BY DEF Advance
  <1>5. TypeOK'
    BY <1>3, <1>4 DEF IInv, TypeOK, playerVars
  <1>6. \A b \in Ships \cup Enemies : health'[b] >= health[b]
    BY <1>3 DEF IInv, TypeOK
  <1> QED
    BY <1>2, <1>3, <1>5, <1>6, CalmStep

LEMMA QuietActions ==
    ASSUME IInv, Fire \/ Spent \/ Expire \/ SpawnEnemy \/ ClearEnemies
    PROVE  IInv'
  <1> USE DEF IInv
  <1>1. UNCHANGED <<step, health, content, shipVars, playerVars>> /\ (Swept' <=> Swept)
    BY DEF Fire, Spent, Expire, SpawnEnemy, ClearEnemies, Swept
  <1>2. /\ life' \in [Entities -> {"none", "on", "gone"}]
        /\ \A e \in Entities : life'[e] = life[e] \/ (life[e] = "none" /\ e \notin Ships)
        /\ owner' \in [Bullets -> Ships \cup Enemies \cup {Nobody}]
        /\ marked \subseteq marked' /\ marked' \subseteq Entities
        /\ \A s \in Ships : s \in marked' => s \in marked
    <2>1. CASE Fire
      BY <2>1, EntitiesAssumption DEF Fire, TypeOK, Entities
    <2>2. CASE Spent
      BY <2>2, EntitiesAssumption DEF Spent, TypeOK, Entities
    <2>3. CASE Expire
      BY <2>3, EntitiesAssumption DEF Expire, TypeOK, Entities
    <2>4. CASE SpawnEnemy
      BY <2>4, EntitiesAssumption DEF SpawnEnemy, TypeOK, Entities
    <2>5. CASE ClearEnemies
      BY <2>5, EntitiesAssumption DEF ClearEnemies, TypeOK, Entities
    <2> QED
      BY <2>1, <2>2, <2>3, <2>4, <2>5
  <1>3. TypeOK'
    BY <1>1, <1>2 DEF TypeOK, shipVars, playerVars
  <1>4. UNCHANGED <<score, rank, playerVars>>
    BY <1>1 DEF shipVars
  <1>5. \A b \in Ships \cup Enemies : health'[b] >= health[b]
    BY <1>1 DEF TypeOK
  <1>6. Ships \subseteq Entities /\ Enemies \subseteq Entities
    BY DEF Entities
  <1> QED
    BY <1>1, <1>2, <1>3, <1>4, <1>5, <1>6, CalmStep

LEMMA CollectStep == IInv /\ Collect => IInv'
  <1> SUFFICES ASSUME IInv, Collect
               PROVE  IInv'
    OBVIOUS
  <1> USE DEF IInv
  <1>1. PICK g \in Bonuses \cap On, s \in Ships \cap On :
           /\ marked' = marked \cup {g}
           /\ \/ /\ health' = [health EXCEPT ![s] = IF @ = MaxHealth THEN @ ELSE @ + 1]
                 /\ UNCHANGED <<life, shield, turret>>
              \/ /\ shield' = shield \cup {s}
                 /\ UNCHANGED <<life, health, turret>>
              \/ /\ \E t \in Turrets : /\ life[t] = "none"
                                       /\ life' = [life EXCEPT ![t] = "on"]
                                       /\ turret' = [turret EXCEPT ![s] = t]
                 /\ UNCHANGED <<health, shield>>
              \/ UNCHANGED <<life, turret, health, shield>>
    BY DEF Collect
  <1>2. UNCHANGED <<step, owner, content, score, rank, safe, playerVars>> /\ (Swept' <=> Swept)
    BY DEF Collect, Swept
  <1>3. g \notin Ships /\ g \in Entities
    BY EntitiesAssumption DEF Entities
  <1>4. /\ life' \in [Entities -> {"none", "on", "gone"}]
        /\ \A b \in Ships \cup Enemies : life'[b] = life[b]
        /\ turret' \in [Ships -> Turrets \cup {Nobody}] /\ shield' \subseteq Ships
    BY <1>1, EntitiesAssumption DEF TypeOK, Entities
  <1>5. health' \in [Ships \cup Enemies -> Int] /\ \A b \in Ships \cup Enemies : health'[b] >= health[b]
    BY <1>1 DEF TypeOK
  <1>6. TypeOK'
    BY <1>1, <1>2, <1>3, <1>4, <1>5 DEF TypeOK, playerVars
  <1> QED
    BY <1>1, <1>2, <1>3, <1>4, <1>5, <1>6, CalmStep

\* What a living player steers is not among what is destroyed.
LEMMA KillingActions ==
    ASSUME IInv, Destroy \/ Offscreen \/ RemovePlayer
    PROVE  IInv'
  <1>0. \A p \in inSession \cap alive : ship[p] \notin marked /\ ship[p] \in Ships
    BY DEF IInv, Wrecks, TypeOK
  <1>1. CASE Destroy
    <2>1. Killed(marked) /\ UNCHANGED <<inSession, ship, alive, saved, lives, pending, sorties>>
      BY <1>1 DEF Destroy, playerVars
    <2>2. marked \in SUBSET Entities
      BY DEF IInv, TypeOK
    <2> QED
      BY <1>0, <2>1, <2>2, KillStep
  <1>2. CASE Offscreen
    <2>1. PICK e \in On \ Ships : Killed({e})
      BY <1>2 DEF Offscreen
    <2>2. UNCHANGED <<inSession, ship, alive, saved, lives, pending, sorties>> /\ (Swept' => Swept)
      BY <1>2 DEF Offscreen, playerVars, Swept
    <2>3. {e} \in SUBSET Entities
      BY DEF On
    <2> QED
      BY <1>0, <2>1, <2>2, <2>3, KillStep
  <1>3. CASE RemovePlayer
    <2>1. PICK p \in inSession : inSession' = inSession \ {p} /\ Killed({ship[p]} \cap On)
      BY <1>3 DEF RemovePlayer
    <2>2. UNCHANGED <<ship, alive, saved, lives, pending, sorties>> /\ (Swept' => Swept)
      BY <1>3 DEF RemovePlayer, Swept
    <2>3. ({ship[p]} \cap On) \in SUBSET Entities
      BY DEF On
    <2>4. \A q \in inSession' \cap alive : ship[q] \notin {ship[p]} \cap On
      BY <2>1 DEF IInv, Hangar, TypeOK
    <2> QED
      BY <2>1, <2>2, <2>3, <2>4, KillStep
  <1> QED
    BY <1>1, <1>2, <1>3

LEMMA IInvStep == IInv /\ [Next]_vars => IInv'
  <1> SUFFICES ASSUME IInv, [Next]_vars
               PROVE  IInv'
    OBVIOUS
  <1>1. CASE UNCHANGED vars
    BY <1>1 DEF vars, bodyVars, shipVars, playerVars, IInv, TypeOK, Accounts, Hangar, Wrecks, Swept,
                OneLifePerShip, RankEarned, On
  <1>2. CASE Next
    BY <1>2, AdvanceStep, QuietActions, CollectStep, KillingActions, BulletHitsEnemyStep, BulletHitsShipStep,
       KamikazeHitsShipStep, EnemyTouchesShipStep, LaserStep, RespawnStep DEF Next
  <1> QED
    BY <1>1, <1>2

\* The points of a player who stays: on the ship while it lives, on the player
\* from then until the next one.
LEMMA PointsKept ==
    ASSUME IInv, [Next]_vars, NEW p \in inSession'
    PROVE  Points(p)' >= Points(p)
  <1> USE DEF IInv
  <1>0. /\ inSession \subseteq Players /\ \A q \in Players : ship[q] \in Ships /\ saved[q] \in Nat
        /\ \A s \in Ships : score[s] \in Nat
    BY DEF TypeOK
  <1>1. ASSUME p \in Players, UNCHANGED <<ship, alive, saved>>, p \in alive => score'[ship[p]] >= score[ship[p]]
        PROVE  Points(p)' >= Points(p)
    BY <1>0, <1>1 DEF Points
  <1>2. ASSUME NEW damage, NEW killer, NEW struck, Blows(damage), Damage(damage, killer, struck),
               UNCHANGED <<inSession, ship>>
        PROVE  Points(p)' >= Points(p)
    <2> DEFINE pilots == {q \in inSession \cap alive : ship[q] \in {d[1] : d \in DeathEvents(damage)}}
    <2>1. PICK kills \in Nat : Credit(killer, kills)
      BY <1>2, DeathsCounted DEF Damage
    <2>2. \A s \in Ships : score'[s] >= score[s]
      BY <2>1, Credited
    <2>3. PlayersDie(pilots, Subscriptions)
      BY <1>2 DEF Damage
    <2>4. pilots \subseteq alive
      OBVIOUS
    <2> HIDE DEF pilots
    <2>5. alive' = alive \ pilots /\ saved'[p] = IF p \in pilots THEN score[ship[p]] ELSE saved[p]
      BY <1>0, <1>2, <2>3 DEF PlayersDie
    <2> QED
      BY <1>0, <1>2, <2>2, <2>4, <2>5 DEF Points
  <1>3. ASSUME NEW S, Killed(S), UNCHANGED <<ship, alive, saved>>, inSession' \subseteq inSession,
               p \in alive => ship[p] \notin S
        PROVE  Points(p)' >= Points(p)
    BY <1>0, <1>1, <1>3 DEF Killed
  <1>4. CASE UNCHANGED <<inSession, ship, alive, saved, score>>
    BY <1>0, <1>1, <1>4
  <1>5. CASE Laser
    <2>1. \A s \in Ships : score'[s] >= score[s]
      <3>1. PICK s : Credit(s, 1) \/ score' = score
        BY <1>5 DEF Laser
      <3>2. CASE Credit(s, 1)
        BY <3>2, Credited
      <3>3. CASE score' = score
        BY <3>3, <1>0
      <3> QED
        BY <3>1, <3>2, <3>3
    <2> QED
      BY <1>0, <1>1, <1>5, <2>1 DEF Laser, playerVars
  <1>6. CASE BulletHitsEnemy
    <2>1. PICK b \in Bullets \cap On, e \in Enemies \cap On : Damage([x \in {e} |-> 1], owner[b], {b})
      BY <1>6 DEF BulletHitsEnemy
    <2>2. Blows([x \in {e} |-> 1])
      <3>1. e \in (Ships \cup Enemies) \cap On /\ 1 \in Nat \ {0}
        OBVIOUS
      <3> QED
        BY <3>1, OneBlow
    <2> QED
      BY <1>2, <1>6, <2>1, <2>2 DEF BulletHitsEnemy
  <1>7. ASSUME NEW s \in Ships \cap On, NEW others, NEW struck, Blows(others), UNCHANGED <<inSession, ship>>,
               Shielded(s, others, struck) \/ Unshielded(s, others, struck)
        PROVE  Points(p)' >= Points(p)
    <2>1. PICK damage : Blows(damage) /\ Damage(damage, Nobody, struck)
      BY <1>7, ContactBlows
    <2> QED
      BY <1>2, <1>7, <2>1
  <1>8. CASE BulletHitsShip
    <2>1. PICK b \in Bullets \cap On, s \in Ships \cap On :
             Shielded(s, <<>>, {b}) \/ Unshielded(s, <<>>, {b})
      BY <1>8 DEF BulletHitsShip
    <2> QED
      BY <1>7, <1>8, <2>1, NoBlows DEF BulletHitsShip
  <1>9. CASE KamikazeHitsShip
    <2>1. PICK s \in Ships \cap On, e \in Kamikazes \cap On :
             \/ Shielded(s, [x \in {e} |-> MaxHealth], {})
             \/ Unshielded(s, [x \in {e} |-> MaxHealth], {})
      BY <1>9 DEF KamikazeHitsShip
    <2>2. Blows([x \in {e} |-> MaxHealth])
      BY OneBlow, HealthAssumption, EntitiesAssumption
    <2> QED
      BY <1>7, <1>9, <2>1, <2>2 DEF KamikazeHitsShip
  <1>10. CASE EnemyTouchesShip
    <2>1. PICK s \in Ships \cap On : Shielded(s, <<>>, {}) \/ Unshielded(s, <<>>, {})
      BY <1>10 DEF EnemyTouchesShip
    <2> QED
      BY <1>7, <1>10, <2>1, NoBlows DEF EnemyTouchesShip
  <1>11. CASE Destroy
    <2>1. Killed(marked) /\ UNCHANGED <<inSession, ship, alive, saved>>
      BY <1>11 DEF Destroy, playerVars
    <2>2. p \in alive => ship[p] \notin marked
      BY <2>1 DEF Wrecks
    <2> QED
      BY <1>3, <2>1, <2>2
  <1>12. CASE Offscreen
    <2>1. PICK e \in On \ Ships : Killed({e})
      BY <1>12 DEF Offscreen
    <2>2. UNCHANGED <<inSession, ship, alive, saved>>
      BY <1>12 DEF Offscreen, playerVars
    <2> QED
      BY <1>0, <1>3, <2>1, <2>2
  <1>13. CASE RemovePlayer
    <2>1. PICK q \in inSession : inSession' = inSession \ {q} /\ Killed({ship[q]} \cap On)
      BY <1>13 DEF RemovePlayer
    <2>2. UNCHANGED <<ship, alive, saved>>
      BY <1>13 DEF RemovePlayer
    <2>3. ship[p] \notin {ship[q]} \cap On
      BY <1>0, <2>1 DEF Hangar
    <2> QED
      BY <1>3, <2>1, <2>2, <2>3
  <1>14. CASE Respawn
    <2>1. PICK q \in pending \cap inSession, s \in Ships :
             /\ life[s] = "none" /\ ship' = [ship EXCEPT ![q] = s]
             /\ alive' = alive \cup {q} /\ score' = [score EXCEPT ![s] = saved[q]]
      BY <1>14 DEF Respawn
    <2>2. UNCHANGED <<inSession, saved>>
      BY <1>14 DEF Respawn
    <2>3. p \in Players /\ q \in Players /\ q \notin alive /\ ship \in [Players -> Ships]
      BY <2>2 DEF TypeOK, Accounts
    <2>4. CASE p = q
      BY <1>0, <2>1, <2>2, <2>3, <2>4 DEF Points, TypeOK
    <2>5. CASE p # q
      <3>1. ship[p] # s
        BY <2>1, <2>3 DEF Hangar
      <3>2. ship'[p] = ship[p] /\ score'[ship[p]] = score[ship[p]] /\ (p \in alive' <=> p \in alive)
        BY <1>0, <2>1, <2>3, <2>5, <3>1 DEF TypeOK
      <3> QED
        BY <1>0, <2>2, <2>3, <3>2 DEF Points
    <2> QED
      BY <2>4, <2>5
  <1>15. CASE Advance \/ Fire \/ Spent \/ Collect \/ Expire \/ SpawnEnemy \/ ClearEnemies \/ UNCHANGED vars
    BY <1>4, <1>15 DEF Advance, Fire, Spent, Collect, Expire, SpawnEnemy, ClearEnemies, vars, shipVars, playerVars
  <1> QED
    BY <1>5, <1>6, <1>8, <1>9, <1>10, <1>11, <1>12, <1>13, <1>14, <1>15 DEF Next

LEMMA AlwaysIInv == Spec => []IInv
  BY IInvInit, IInvStep, PTL DEF Spec

------------------------------------------------------------------------------
(* Theorems                                                                *)

\* Every component keeps its type; lives never go below zero.
THEOREM CombatTypeCorrect == Spec => []TypeOK
  <1>1. IInv => TypeOK
    BY DEF IInv
  <1> QED
    BY <1>1, AlwaysIInv, PTL

\* Between two ticks there is no body without health and no ship of a dead
\* player, however many hits fell in the tick and in whatever order.
THEOREM CombatNoCorpses == Spec => []NoCorpses
  <1>1. IInv => NoCorpses
    <2> SUFFICES ASSUME IInv, step = "idle"
                 PROVE  /\ \A b \in (Ships \cup Enemies) \cap On : health[b] > 0
                        /\ \A p \in inSession : p \in alive <=> ship[p] \in On
      BY DEF NoCorpses
    <2>1. Swept
      BY DEF Swept
    <2> QED
      BY <2>1 DEF IInv, Wrecks
  <1> QED
    BY <1>1, AlwaysIInv, PTL

\* on_player_death takes one life for each ship, although every death is
\* published twice and wrecks are hit again.
THEOREM CombatOneLifePerShip == Spec => []OneLifePerShip
  <1>1. IInv => OneLifePerShip
    BY DEF IInv
  <1> QED
    BY <1>1, AlwaysIInv, PTL

\* check_all_players_level_up never gives a level that the score has not earned,
\* and a player on the first ship has the level that the score earns.
THEOREM CombatRankEarned == Spec => []RankEarned
  <1>1. IInv => RankEarned
    BY DEF IInv
  <1> QED
    BY <1>1, AlwaysIInv, PTL

\* "Preserve the player's score across respawns": whoever stays in the session
\* never loses points, not by a death, a new ship, or anybody else's kill.
THEOREM CombatScoreKept == Spec => ScoreKept
  <1>1. IInv /\ [Next]_vars => [\A p \in inSession' : Points(p)' >= Points(p)]_vars
    BY PointsKept
  <1> QED
    BY <1>1, AlwaysIInv, PTL DEF Spec, ScoreKept
===============================================================================
