-------------------------------- MODULE Bagario --------------------------------
(***************************************************************************)
(* The bagario server: one session in which the cells of players eat,      *)
(* split and merge.  Everything runs in one thread (BagarioServer::run):   *)
(* the packets of a tick, then BagarioSession::update, whose order step    *)
(* follows.  Positions are left out: which cells touch which cells and     *)
(* viruses in a tick is a choice, and so is the order in which the         *)
(* collision system meets them (that of a sparse set whose erasures move   *)
(* its last element).  Masses are whole units, rounded up where the code   *)
(* divides floats; food and ejected mass are a unit found by a cell.  The  *)
(* registry counts its ids up; here a cell is named by its player and its  *)
(* place among that player's cells, and places close up after a kill.      *)
(*                                                                         *)
(* The collision system reports its events through its callback, and the   *)
(* session then handles get_events() once more: every event twice a tick.  *)
(***************************************************************************)
EXTENDS Integers, Sequences, FiniteSets, SequencesExt

CONSTANTS
    Players,      \* connections: each joins at most once (PlayingScreen)
    MaxPlayers,   \* MAX_PLAYERS
    MaxCells,     \* MAX_CELLS_PER_PLAYER
    Pieces,       \* VIRUS_SPLIT_COUNT
    MinSplit, MinEject, EjectCost, VirusSplitMass, DecayThreshold,
    MaxVirus,     \* MAX_VIRUSES
    VirusIds,     \* entity ids of viruses
    MaxMass,      \* bound on the masses: what is heavier counts as this
    MaxHits,      \* bound on the cells that hit a virus in a tick
    MaxScan,      \* bound on the cells that touch one another in a tick
    MaxAlive      \* bound on the cells in the registry after a step

CellIds == Players \X (Nat \ {0})

ASSUME RoomForAll == MaxPlayers \in Nat /\ MaxCells \in Nat \ {0}
ASSUME MassesLast ==
    /\ MaxMass \in Nat \ {0} /\ DecayThreshold \in Nat \ {0}
    /\ MinEject \in Nat /\ EjectCost \in Nat /\ EjectCost < MinEject
ASSUME IdsDiffer == IsFiniteSet(VirusIds) /\ VirusIds \cap CellIds = {}
ASSUME CountsAreNumbers ==
    /\ Pieces \in Nat \ {0} /\ MaxHits \in Nat /\ MaxScan \in Nat /\ MaxAlive \in Nat

VARIABLES
    step,     \* the part of run() that comes next
    players,  \* m_players with m_player_to_client: those who play
    left,     \* connections that are over
    cell,     \* Mass and MergeTimer::can_merge of every entity with PlayerCell
    virus,    \* the entities with Virus
    marked,   \* ToDestroy
    tracked,  \* m_player_cells
    eaten,    \* history: PLAYER_EATEN packets sent, by player
    melted    \* history: players whose last cells merged, every one into another

bagVars == <<step, players, left, cell, virus, marked, tracked, eaten, melted>>

CellData == [mass : 1..MaxMass, ready : BOOLEAN]
Of(C, p) == {c \in C : c[1] = p}
Alive == DOMAIN cell \ marked

BagTypeOK ==
    /\ step \in {"packets", "update"} /\ players \subseteq Players /\ left \subseteq Players
    /\ IsFiniteSet(DOMAIN cell) /\ DOMAIN cell \subseteq CellIds
    /\ cell \in [DOMAIN cell -> CellData]
    /\ virus \subseteq VirusIds /\ marked \subseteq DOMAIN cell
    /\ DOMAIN tracked \subseteq Players /\ tracked \in [DOMAIN tracked -> Seq(DOMAIN cell)]
    /\ eaten \in [Players -> Nat] /\ melted \subseteq Players

Put(f, x, v) == [y \in DOMAIN f \cup {x} |-> IF y = x THEN v ELSE f[y]]
Without(f, x) == [y \in DOMAIN f \ {x} |-> f[y]]
CeilDiv(a, b) == (a + b - 1) \div b
Least(a, b) == IF a < b THEN a ELSE b

-----------------------------------------------------------------------------
(* Cells.  s is a session as the steps of a handler leave it.              *)

Session(c, t, m, e) == [cell |-> c, tracked |-> t, marked |-> m, eaten |-> e]

Now == Session(cell, tracked, marked, eaten)

NewCell(s, p) ==
    <<p, CHOOSE k \in 1..Cardinality(DOMAIN s.cell) + 1 : <<p, k>> \notin DOMAIN s.cell>>

SpawnPlayerCell(s, p, data) ==
    LET new == NewCell(s, p)
        old == IF p \in DOMAIN s.tracked THEN s.tracked[p] ELSE <<>>
    IN  Session(Put(s.cell, new, data),
                Put(s.tracked, p, Append(old, new)), s.marked, s.eaten)

Spawned(s, p, data, n) ==
    LET with[i \in 0..n] ==
            IF i = 0 THEN s ELSE SpawnPlayerCell(with[i - 1], p, data)
    IN  with[n]

(* A cell shares its mass with n new ones; none may merge for a while. *)
Divide(s, c, n) ==
    LET share == [mass |-> CeilDiv(s.cell[c].mass, n + 1), ready |-> FALSE]
    IN  Spawned(Session(Put(s.cell, c, share), s.tracked, s.marked, s.eaten), c[1], share, n)

-----------------------------------------------------------------------------
(* Packets *)

SetTo(s) ==
    /\ cell' = s.cell /\ tracked' = s.tracked
    /\ Cardinality(DOMAIN cell') <= MaxAlive

Join(p) ==
    /\ step = "packets" /\ p \notin players \cup left
    /\ Cardinality(players) < MaxPlayers
    /\ players' = players \cup {p}
    /\ SetTo(SpawnPlayerCell(Now, p, [mass |-> 1, ready |-> TRUE]))
    /\ UNCHANGED <<step, left, virus, marked, eaten, melted>>

RemovePlayer(p) ==
    IF p \notin DOMAIN tracked THEN UNCHANGED <<tracked, marked>>
    ELSE /\ marked' = marked \cup ToSet(tracked[p])
         /\ tracked' = Without(tracked, p)

(* CLIENT_DISCONNECT and the lost connection: the second finds nothing. *)
Leave(p) ==
    /\ step = "packets" /\ p \in players
    /\ RemovePlayer(p)
    /\ players' = players \ {p} /\ left' = left \cup {p}
    /\ UNCHANGED <<step, cell, virus, eaten, melted>>

(* The cells player_split divides: as many as the limit lets it. *)
Choose(p, chosen, c) ==
    IF cell[c].mass >= MinSplit /\ Len(tracked[p]) + Len(chosen) < MaxCells
    THEN Append(chosen, c) ELSE chosen

CellsToSplit(p) ==
    LET chosen[n \in 0..Len(tracked[p])] ==
            IF n = 0 THEN <<>> ELSE Choose(p, chosen[n - 1], tracked[p][n])
    IN  chosen[Len(tracked[p])]

SplitAll(s, cells) ==
    LET after[n \in 0..Len(cells)] ==
            IF n = 0 THEN s ELSE Divide(after[n - 1], cells[n], 1)
    IN  after[Len(cells)]

PlayerSplit(p) ==
    /\ step = "packets" /\ p \in players \cap DOMAIN tracked
    /\ CellsToSplit(p) /= <<>>
    /\ SetTo(SplitAll(Now, CellsToSplit(p)))
    /\ UNCHANGED <<step, players, left, virus, marked, eaten, melted>>

PlayerEjectMass(p) ==
    /\ step = "packets" /\ p \in players \cap DOMAIN tracked
    /\ cell' = [c \in DOMAIN cell |->
           IF c \in ToSet(tracked[p]) /\ cell[c].mass >= MinEject
           THEN [cell[c] EXCEPT !.mass = @ - EjectCost] ELSE cell[c]]
    /\ cell' /= cell
    /\ UNCHANGED <<step, players, left, virus, marked, tracked, eaten, melted>>

-----------------------------------------------------------------------------
(* The tick up to the collisions: in MovementTargetSystem a merge timer    *)
(* runs out, in MassSystem a heavy cell loses mass, in the collision       *)
(* system's first loop a cell eats.                                        *)

Move ==
    /\ step = "packets" /\ step' = "update"
    /\ \/ UNCHANGED cell
       \/ \E c \in DOMAIN cell :
             \/ ~cell[c].ready /\ cell' = [cell EXCEPT ![c].ready = TRUE]
             \/ cell[c].mass > DecayThreshold /\ cell' = [cell EXCEPT ![c].mass = @ - 1]
             \/ cell[c].mass < MaxMass /\ cell' = [cell EXCEPT ![c].mass = @ + 1]
    /\ UNCHANGED <<players, left, virus, marked, tracked, eaten, melted>>

-----------------------------------------------------------------------------
(* BagarioCollisionSystem.  t is a record of cell, marked and events. *)

CanEat(a, b) == 4 * a > 5 * b

(* A cell takes the mass of another, which keeps its own until it is killed. *)
Absorb(t, kind, winner, loser) ==
    [cell |-> Put(t.cell, winner,
                  [mass |-> Least(MaxMass, t.cell[winner].mass + t.cell[loser].mass),
                   ready |-> t.cell[winner].ready]),
     marked |-> t.marked \cup {loser},
     events |-> Append(t.events, [type |-> kind, eater |-> winner, eaten |-> loser])]

Meet(t, a, b) ==
    LET ma == t.cell[a].mass
        mb == t.cell[b].mass
    IN  CASE a[1] = b[1] /\ ~(t.cell[a].ready /\ t.cell[b].ready) -> t   \* pushed apart
          [] a[1] = b[1] /\ t.cell[a].ready /\ t.cell[b].ready /\ ma >= mb ->
                Absorb(t, "CELL_MERGED", a, b)
          [] a[1] = b[1] /\ t.cell[a].ready /\ t.cell[b].ready /\ ma < mb ->
                Absorb(t, "CELL_MERGED", b, a)
          [] a[1] /= b[1] /\ CanEat(ma, mb) -> Absorb(t, "CELL_ATE_CELL", a, b)
          [] a[1] /= b[1] /\ CanEat(mb, ma) -> Absorb(t, "CELL_ATE_CELL", b, a)
          [] OTHER -> t

(* The loops over the pairs of some cells, which are met in the order of   *)
(* the sparse set: the nth pair, if it is among those that overlap.        *)
(* Marked cells take part like others.                                     *)
MeetPair(t, cells, touch, n) ==
    LET i == ((n - 1) \div Len(cells)) + 1
        j == ((n - 1) % Len(cells)) + 1
    IN  IF <<i, j>> \in touch THEN Meet(t, cells[i], cells[j]) ELSE t

Scan(t, cells, touch) ==
    LET met[n \in 0..Len(cells) * Len(cells)] ==
            IF n = 0 THEN t ELSE MeetPair(met[n - 1], cells, touch, n)
    IN  met[Len(cells) * Len(cells)]

(* What the loops may find: pairs among at most MaxScan cells in touch. *)
Scans ==
    LET k == Least(MaxScan, Cardinality(DOMAIN cell))
    IN  {Scan([cell |-> cell, marked |-> marked, events |-> <<>>], cells, touch) :
             cells \in {f \in [1..k -> DOMAIN cell] : IsInjective(f)},
             touch \in SUBSET {ij \in (1..k) \X (1..k) : ij[1] < ij[2]}}

-----------------------------------------------------------------------------
(* BagarioSession::handle_collision_event *)

Keep(kept, d, c) == IF d = c THEN kept ELSE Append(kept, d)

Erase(list, c) ==
    LET kept[n \in 0..Len(list)] ==
            IF n = 0 THEN <<>> ELSE Keep(kept[n - 1], list[n], c)
    IN  kept[Len(list)]

Untrack(s, c) == Erase(s.tracked[c[1]], c)

(* on_player_eliminated tells the client, if there is one still. *)
AteCell(s, e) ==
    LET p == e.eaten[1]
    IN  IF p \notin DOMAIN s.tracked THEN s
        ELSE IF Untrack(s, e.eaten) /= <<>>
        THEN Session(s.cell, Put(s.tracked, p, Untrack(s, e.eaten)), s.marked, s.eaten)
        ELSE Session(s.cell, Without(s.tracked, p), s.marked,
                     IF p \in players THEN Put(s.eaten, p, s.eaten[p] + 1) ELSE s.eaten)

Merged_Kept(s, e) == s

Merged(s, e) ==
    IF e.eaten[1] \notin DOMAIN s.tracked THEN s
    ELSE Session(s.cell, Put(s.tracked, e.eaten[1], Untrack(s, e.eaten)), s.marked, s.eaten)

NewPieces_NoLimit(s, p) == Pieces - 1

(* handle_virus_split: how many new cells the limit leaves room for. *)
NewPieces(s, p) == Least(Pieces - 1, MaxCells - Len(s.tracked[p]))

HitVirus(s, e) ==
    LET p == e.eater[1]
        r == Divide(s, e.eater, NewPieces(s, p))
    IN  IF p \notin DOMAIN s.tracked THEN s
        ELSE IF NewPieces(s, p) <= 0 THEN s
        ELSE Session(r.cell, r.tracked, r.marked \cup {e.eaten}, r.eaten)

HandleEvent(s, e) ==
    CASE e.type = "CELL_ATE_CELL"  -> AteCell(s, e)
      [] e.type = "CELL_MERGED"    -> Merged(s, e)
      [] e.type = "CELL_HIT_VIRUS" -> HitVirus(s, e)

HandleEvents(s, events) ==
    LET after[n \in 0..Len(events)] ==
            IF n = 0 THEN s ELSE HandleEvent(after[n - 1], events[n])
    IN  after[Len(events)]

-----------------------------------------------------------------------------
(* BagarioSession::update from the collisions on.  A heavy cell may be on  *)
(* a virus; a virus that was fed enough shoots another one, even if it is  *)
(* to go, and VirusSystem brings one back from time to time; what is       *)
(* marked is killed.                                                       *)

Hits == {c \in DOMAIN cell : cell[c].mass >= VirusSplitMass} \X virus

HitEvent(h) == [type |-> "CELL_HIT_VIRUS", eater |-> h[1], eaten |-> h[2]]

(* Kills what is marked.  A cell that lives on is named by its rank among  *)
(* its player's, so that names stay few; a name of nobody gets number 0.   *)
Survivors(s) == DOMAIN s.cell \ s.marked

Rank(s, c) == Cardinality({d \in Survivors(s) : d[1] = c[1] /\ d[2] <= c[2]})

NewName(s, c) == <<c[1], IF c \in Survivors(s) THEN Rank(s, c) ELSE 0>>

Killed(s) ==
    [cell |-> [c \in {NewName(s, d) : d \in Survivors(s)} |->
                  s.cell[CHOOSE d \in Survivors(s) : NewName(s, d) = c]],
     tracked |-> [p \in DOMAIN s.tracked |->
                     [i \in DOMAIN s.tracked[p] |-> NewName(s, s.tracked[p][i])]]]

Collided(t, events) == HandleEvents(Session(t.cell, tracked, t.marked, eaten), events)

Reported_Once(t, events) == Collided(t, events)

Reported(t, events) == HandleEvents(Collided(t, events), events)

(* Those who had cells and have none any more, of which no other ate one. *)
Melting(t) ==
    {p \in Players : /\ Of(Alive, p) /= {} /\ Of(DOMAIN cell', p) = {}
                     /\ \A i \in DOMAIN t.events : t.events[i].type = "CELL_ATE_CELL" =>
                                                      t.events[i].eaten[1] /= p}

Update ==
    /\ step = "update" /\ step' = "packets"
    /\ \E t \in Scans :
       \E on \in {h \in SUBSET Hits : Cardinality(h) <= MaxHits} :
       \E order \in SetToSeqs(on) :
          LET hits == [i \in DOMAIN order |-> HitEvent(order[i])]
              end == Reported(t, hits \o t.events)
          IN  /\ SetTo(Killed(end))
              /\ eaten' = end.eaten
              /\ melted' = melted \cup Melting(t)
              /\ \E new \in {{}} \cup {{v} : v \in VirusIds \ virus} :
                    /\ new /= {} => virus /= {} \/ Cardinality(virus) < MaxVirus
                    /\ virus' = (virus \ end.marked) \cup new
    /\ marked' = {}
    /\ UNCHANGED <<players, left>>

-----------------------------------------------------------------------------
BagInit ==
    /\ step = "packets" /\ players = {} /\ left = {}
    /\ cell = <<>> /\ virus = VirusIds /\ marked = {}
    /\ tracked = <<>> /\ eaten = [p \in Players |-> 0] /\ melted = {}

BagNext ==
    \/ \E p \in Players : Join(p) \/ Leave(p) \/ PlayerSplit(p) \/ PlayerEjectMass(p)
    \/ Move \/ Update

BagSpec == BagInit /\ [][BagNext]_bagVars
-----------------------------------------------------------------------------
(* Between the steps, m_player_cells lists for every player in it exactly  *)
(* the cells of the player in the registry that are not marked, and every  *)
(* other cell is marked: what is eaten, merged, split by a player or by a  *)
(* virus, twice a tick, leaves no cell that nobody steers and no id of a   *)
(* cell that is gone.                                                      *)
TrackedAgree ==
    /\ \A p \in DOMAIN tracked : IsInjective(tracked[p]) /\ ToSet(tracked[p]) = Of(Alive, p)
    /\ \A c \in Alive : c[1] \in DOMAIN tracked

(* A client that plays is told once that it was eaten, and exactly when no *)
(* cell is left to it: cells eaten by several others, or merged into eaten *)
(* ones, in one tick, eliminate nobody twice and leave nobody without      *)
(* cells and without the news, but those whose last cells all merged into  *)
(* one another.  Merging does not look whether it took the last cell: it   *)
(* is the second handling of the events that does.                         *)
EatenOnce ==
    \A p \in players :
        eaten[p] = IF Of(Alive, p) /= {} \/ p \in melted THEN 0 ELSE 1

(* No player ever has more than MAX_CELLS_PER_PLAYER cells in the registry *)
(* that live, however its splits and those of viruses, each handled twice, *)
(* fall together.                                                          *)
CellLimit ==
    \A p \in Players : Cardinality(Of(Alive, p)) <= MaxCells
=============================================================================
