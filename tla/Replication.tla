------------------------------ MODULE Replication ------------------------------
(***************************************************************************)
(* How a client comes to show the entities of its session: the event       *)
(* queues and snapshots of ServerNetworkSystem, the one-shot UDP           *)
(* broadcasts, and the tables of the client's EntityManager.               *)
(*                                                                         *)
(* The server goes round one loop: packets and the tick up to the network  *)
(* system (early), the rest of the tick (late), and the broadcast of what  *)
(* is still queued.  Ids are never used twice in a session.  Positions,   *)
(* health and sprites are left out, and so are messages that only draw     *)
(* (explosion, score, wave) and the repeated announcements of an entity    *)
(* that was marked twice.                                                  *)
(***************************************************************************)
EXTENDS Naturals, Sequences, FiniteSets, SequencesExt

CONSTANTS
    Ids,        \* entity ids of the session
    Kind,       \* what each id is: "ship", "enemy", "shot", "bonus" or "wall"
    Pilot,      \* the player id of each ship
    Shooter,    \* who fires each shot
    Me,         \* player id of the client
    Cap,        \* MAX_ENTITIES_PER_SNAPSHOT
    Threshold,  \* ENTITY_STALE_THRESHOLD
    MaxFaults,  \* bound on packets lost or overtaken
    MaxNet,     \* bound on packets under way, but for what is sent at once
    None        \* no entity

ASSUME IdsAssumption == IsFiniteSet(Ids) /\ None \notin Ids
ASSUME KindAssumption ==
    Kind \in [Ids -> {"ship", "enemy", "shot", "bonus", "wall"}]
ASSUME OwnersAssumption ==
    /\ Me \in Nat /\ \A e \in Ids : Kind[e] = "ship" => Pilot[e] \in Nat
    /\ \A e \in Ids : Kind[e] = "shot" => Shooter[e] \in Ids
ASSUME SnapshotsAssumption == Cap \in Nat /\ Threshold \in Nat
ASSUME NetAssumption == MaxFaults \in Nat /\ MaxNet \in Nat

VARIABLES
    phase,      \* where the server's loop is
    life,       \* registry: unborn, alive, marked (ToDestroy) or dead
    spawns,     \* pending_spawns_
    destroys,   \* pending_destroys_
    shots,      \* pending_projectiles_
    udp,        \* udp_client_id: none yet, or from the handshake of this game or an earlier one
    started,    \* has the client handled SERVER_GAME_START?
    net,        \* packets under way to the client
    faults,     \* how many packets were lost or overtaken
    known,      \* keys of server_to_local_
    enemyShot,  \* shots shown as PROJECTILE_ENEMY
    moving,     \* shots and bonuses with a Velocity
    integrated, \* locally_integrated_
    stale,      \* stale_counters_
    own,        \* local_player_entity_id_
    localShips  \* entities with the LocalPlayer component

queues == <<spawns, destroys, shots>>
server == <<phase, life, queues, udp>>
tables == <<known, enemyShot, moving, integrated, stale, own, localShips>>
client == <<started, tables>>
vars == <<server, net, faults, client>>

Of(kind) == {e \in Ids : Kind[e] = kind}
Ships == Of("ship")
Living == {e \in Ids : life[e] \in {"alive", "marked"}}
Marked == {e \in Ids : life[e] = "marked"}

Message ==
    [type : {"spawn", "destroy", "shot"}, id : Ids]
        \cup [type : {"snapshot"}, ids : SUBSET Ids]
Packet(t, e) == [type |-> t, id |-> e]

TypeOK ==
    /\ phase \in {"early", "late"}
    /\ life \in [Ids -> {"unborn", "alive", "marked", "dead"}]
    /\ spawns \in Seq(Ids) /\ destroys \in Seq(Ids) /\ shots \in Seq(Ids)
    /\ udp \in {"none", "this", "earlier"}
    /\ started \in BOOLEAN /\ faults \in 0..MaxFaults
    /\ net \in Seq(Message)
    /\ known \subseteq Ids /\ enemyShot \subseteq known /\ moving \subseteq known
    /\ integrated \subseteq known /\ localShips \subseteq known
    /\ stale \in [Ids -> 0..Threshold]
    /\ own \in known \cup {None}

Init ==
    /\ phase = "early"
    /\ life = [e \in Ids |-> "unborn"]
    /\ spawns = <<>> /\ destroys = <<>> /\ shots = <<>>
    /\ udp \in {"none", "earlier"}    \* the first game of the connection, or another
    /\ net = <<>> /\ faults = 0
    /\ started = FALSE
    /\ known = {} /\ enemyShot = {} /\ moving = {} /\ integrated = {} /\ localShips = {}
    /\ stale = [e \in Ids |-> 0] /\ own = None

------------------------------------------------------------------------------
(* Server: the registry and the queues                                     *)

\* A player has one ship at a time; a shot needs somebody to fire it
MaySpawn(e) ==
    /\ life[e] = "unborn"
    /\ Kind[e] = "ship" => \A s \in Ships : Pilot[s] = Pilot[e] => life[s] \notin {"alive", "marked"}
    /\ Kind[e] = "shot" => life[Shooter[e]] \in {"alive", "marked"}

\* queue_entity_spawn after a ship, an enemy, a bonus or a wall was created
Spawn(e) ==
    /\ Kind[e] # "shot" /\ MaySpawn(e)
    /\ life' = [life EXCEPT ![e] = "alive"]
    /\ spawns' = Append(spawns, e)
    /\ UNCHANGED <<phase, destroys, shots, udp, net, faults, client>>

\* ShotFiredEvent, in the systems of the tick
Shoot(e) ==
    /\ phase = "early" /\ Kind[e] = "shot" /\ MaySpawn(e)
    /\ life' = [life EXCEPT ![e] = "alive"]
    /\ shots' = Append(shots, e)
    /\ UNCHANGED <<phase, spawns, destroys, udp, net, faults, client>>

\* A system, or clear_enemies between two ticks, adds ToDestroy
Mark(e) ==
    /\ phase = "early" /\ Kind[e] # "wall" /\ life[e] = "alive"
    /\ life' = [life EXCEPT ![e] = "marked"]
    /\ UNCHANGED <<phase, queues, udp, net, faults, client>>

\* kill_entity and queue_entity_destroy: check_offscreen_enemies, a new level,
\* walls behind the camera; remove_player, which a packet handler calls
Kill(e) ==
    /\ life[e] = "alive"
    /\ \/ phase = "late" /\ Kind[e] \in {"enemy", "shot", "wall"}
       \/ phase = "early" /\ Kind[e] = "ship" /\ Pilot[e] # Me
    /\ life' = [life EXCEPT ![e] = "dead"]
    /\ destroys' = Append(destroys, e)
    /\ UNCHANGED <<phase, spawns, shots, udp, net, faults, client>>

\* broadcast_udp_to_session: one packet each, nothing without a UDP connection
Sent(packets) ==
    /\ net = <<>> \/ Len(net) + Len(packets) <= MaxNet
    /\ net' = IF udp # "none" THEN net \o packets ELSE net

Packets(t, seq) == [i \in 1..Len(seq) |-> Packet(t, seq[i])]

\* serialize_snapshot: ships first, then shots, then enemies, up to the cap;
\* what is marked is passed over
InSnapshot ==
    LET seen == {e \in Ids : life[e] = "alive" /\ Kind[e] \in {"ship", "shot", "enemy"}}
        Rank(e) == CASE Kind[e] = "ship" -> 1 [] Kind[e] = "shot" -> 2 [] OTHER -> 3
    IN  {S \in SUBSET seen :
            /\ \A e \in S, f \in seen \ S : Rank(e) <= Rank(f)
            /\ S = seen \/ Cardinality(S) = Cap
            /\ Cardinality(S) <= Cap}

\* update of the network system and, next in line, of the DestroySystem: what is
\* marked is announced and killed.  The snapshot goes out before the events.
NetworkUpdate(snapshot) ==
    /\ phase = "early" /\ phase' = "late"
    /\ Sent(snapshot \o Packets("spawn", spawns)
                     \o Packets("destroy", destroys \o SetToSeq(Marked)))
    /\ spawns' = <<>> /\ destroys' = <<>>
    /\ life' = [e \in Ids |-> IF e \in Marked THEN "dead" ELSE life[e]]
    /\ UNCHANGED <<shots, udp, faults, client>>

\* broadcast_all_session_events, by the main thread: shots come last
Broadcast ==
    /\ phase = "late" /\ phase' = "early"
    /\ Sent(Packets("spawn", spawns) \o Packets("destroy", destroys) \o Packets("shot", shots))
    /\ spawns' = <<>> /\ destroys' = <<>> /\ shots' = <<>>
    /\ UNCHANGED <<life, udp, faults, client>>

\* mutant of Handshake: the session is not resynchronized
Handshake_NoResync ==
    /\ phase = "early" /\ started /\ udp = "none"
    /\ udp' = "this"
    /\ UNCHANGED <<phase, life, queues, net, faults, client>>

\* on_udp_handshake and resync_client: ships, enemies and shots are queued again
\* for everybody; walls and bonuses are not.  The client sends the handshake
\* when it opens its UDP socket, which it does once per connection: in a later
\* game connect_udp finds the socket open and nothing is resynchronized.
Handshake ==
    /\ phase = "early" /\ started /\ udp = "none"
    /\ udp' = "this"
    /\ LET again == {e \in Living : Kind[e] \in {"ship", "enemy", "shot"}}
       IN  spawns' = spawns \o SetToSeq(again)
    /\ UNCHANGED <<phase, life, destroys, shots, net, faults, client>>

------------------------------------------------------------------------------
(* Client: the tables                                                      *)

\* PLAYER with the low four bits of the client's player id in its subtype
LooksMine(e) == Kind[e] = "ship" /\ Pilot[e] % 16 = Me % 16

\* mutant of Spawned: the ship of before keeps the LocalPlayer component
Spawned_BothLocal(e, hostile) ==
    LET mine == LooksMine(e) \/ e = own
    IN  /\ known' = known \cup {e}
        /\ own' = IF mine THEN e ELSE own
        /\ localShips' = IF mine THEN localShips \cup {e} ELSE localShips \ {e}
        /\ integrated' = IF ~mine /\ Kind[e] # "wall" THEN integrated \cup {e} ELSE integrated \ {e}
        /\ stale' = [stale EXCEPT ![e] = 0]
        /\ enemyShot' = IF hostile THEN enemyShot \cup {e} ELSE enemyShot \ {e}

\* spawn_or_update_entity: entered in the tables, perhaps taken for the own ship,
\* and moved on by the client itself if it is anything but that or a wall
Spawned(e, hostile) ==
    LET mine == LooksMine(e) \/ e = own
    IN  /\ known' = known \cup {e}
        /\ own' = IF mine THEN e ELSE own
        /\ localShips' = IF mine THEN (localShips \ {own}) \cup {e} ELSE localShips \ {e}
        /\ integrated' = IF ~mine /\ Kind[e] # "wall" THEN integrated \cup {e} ELSE integrated \ {e}
        /\ stale' = [stale EXCEPT ![e] = 0]
        /\ enemyShot' = IF hostile THEN enemyShot \cup {e} ELSE enemyShot \ {e}

\* remove_entity: out of the registry and of every table
Removed(gone) ==
    /\ known' = known \ gone
    /\ enemyShot' = enemyShot \ gone /\ moving' = moving \ gone
    /\ integrated' = integrated \ gone
    /\ localShips' = localShips \ gone
    /\ own' = IF own \in gone THEN None ELSE own

\* SERVER_ENTITY_SPAWN; resynchronized shots come this way, with their side
OnSpawn(e) ==
    /\ Spawned(e, Kind[e] = "shot" /\ Kind[Shooter[e]] = "enemy")
    /\ moving' = IF Kind[e] = "bonus" THEN moving \cup {e} ELSE moving

\* mutant of OnShot: every shot is a player's
OnShot_Ours(e) ==
    /\ Spawned(e, FALSE)
    /\ moving' = moving \cup {e}

\* SERVER_PROJECTILE_SPAWN: an enemy's if the client knows its owner for one
OnShot(e) ==
    /\ Spawned(e, Shooter[e] \in known /\ Kind[Shooter[e]] = "enemy")
    /\ moving' = moving \cup {e}

\* SERVER_ENTITY_DESTROY
OnDestroy(e) ==
    Removed({e} \cap known) /\ stale' = [stale EXCEPT ![e] = 0]

\* The known entities that a snapshot should have held
Overdue(ids) == {e \in known \ (ids \cup integrated) : Kind[e] \notin {"bonus", "wall"}}

\* mutant of OnSnapshot: what is missing is never removed
OnSnapshot_KeepsAll(ids) ==
    /\ moving' = moving \cup (ids \cap known \cap Of("shot"))
    /\ UNCHANGED <<known, enemyShot, integrated, localShips, own, stale>>

\* The snapshot callback and process_snapshot_update.  Nothing new is entered;
\* counters are not reset by a snapshot that holds the entity.
OnSnapshot(ids) ==
    LET missing == Overdue(ids)
        gone == {e \in missing : stale[e] >= Threshold}
    IN  /\ known' = known \ gone
        /\ enemyShot' = enemyShot \ gone
        /\ moving' = (moving \cup (ids \cap known \cap Of("shot"))) \ gone
        /\ integrated' = integrated \ gone
        /\ localShips' = localShips \ gone
        /\ own' = IF own \in gone THEN None ELSE own
        /\ stale' = [e \in Ids |-> IF e \in gone THEN 0
                                   ELSE IF e \in missing THEN stale[e] + 1 ELSE stale[e]]

Handle(m) ==
    CASE m.type = "spawn" -> OnSpawn(m.id)
      [] m.type = "shot" -> OnShot(m.id)
      [] m.type = "destroy" -> OnDestroy(m.id)
      [] m.type = "snapshot" -> OnSnapshot(m.ids)

\* A packet arrives: in its turn, before another one or before GAME_START
Receive(i) ==
    /\ i \in 1..Len(net)
    /\ faults' = IF i = 1 /\ started THEN faults ELSE faults + 1
    /\ faults' <= MaxFaults
    /\ net' = RemoveAt(net, i)
    /\ Handle(net[i])
    /\ UNCHANGED <<server, started>>

Lose(i) ==
    /\ faults < MaxFaults /\ i \in 1..Len(net)
    /\ net' = RemoveAt(net, i)
    /\ faults' = faults + 1
    /\ UNCHANGED <<server, client>>

\* update_projectiles: a shot or bonus that flies on leaves the screen, dead or not
FlyOut(e) ==
    /\ e \in moving \cap integrated
    /\ Removed({e}) /\ stale' = [stale EXCEPT ![e] = 0]
    /\ UNCHANGED <<server, net, faults, started>>

\* SERVER_GAME_START comes by TCP: clear_all and, if none is, a UDP socket
GameStart ==
    /\ ~started /\ started' = TRUE
    /\ known' = {} /\ enemyShot' = {} /\ moving' = {} /\ integrated' = {} /\ localShips' = {}
    /\ stale' = [e \in Ids |-> 0] /\ own' = None
    /\ UNCHANGED <<server, net, faults>>

SendSnapshot ==
    /\ phase = "early"
    /\ \E S \in InSnapshot : NetworkUpdate(<<[type |-> "snapshot", ids |-> S]>>)
ServerStep == NetworkUpdate(<<>>) \/ SendSnapshot \/ Broadcast

Next ==
    \/ ServerStep \/ Handshake \/ GameStart
    \/ \E e \in Ids : Spawn(e) \/ Shoot(e) \/ Mark(e) \/ Kill(e) \/ FlyOut(e)
    \/ \E i \in 1..Len(net) : Receive(i) \/ Lose(i)

Spec == Init /\ [][Next]_vars

\* The server keeps ticking and sends a snapshot now and then; what is not lost
\* arrives in the end, and GAME_START does
FairSpec ==
    /\ Spec
    /\ WF_vars(Broadcast) /\ WF_vars(Receive(1)) /\ WF_vars(GameStart)
    /\ SF_vars(SendSnapshot)

------------------------------------------------------------------------------
(* Properties                                                              *)

\* Everything the server had to say has arrived, and nothing went wrong on the way
Settled ==
    /\ started /\ udp # "none" /\ faults = 0
    /\ queues = <<<<>>, <<>>, <<>>>> /\ net = <<>> /\ Marked = {}

\* When nothing is under way a client knows every living ship and enemy, in the
\* first game of its connection, when it is deaf until its handshake and then
\* resynchronized, as in a later one, although snapshots are cut off; and what it
\* shows of the dead are shots: destroyed in the tick they were fired in, their
\* destruction is announced before they are.
SettledInStep ==
    Settled =>
        /\ \A e \in Living : Kind[e] \in {"ship", "enemy"} => e \in known
        /\ \A e \in known \ Living : Kind[e] = "shot"

\* No ship created so far has the client's low four bits but its own ships
NoLookAlike == \A s \in Ships : life[s] # "unborn" /\ LooksMine(s) => Pilot[s] = Me

\* One ship at most carries the LocalPlayer component, whatever is lost or
\* overtaken.  In step with the server it is a living one with the client's low
\* four bits: the client's ship, as long as no look-alike has come up, whose spawn
\* would take the component away.
OwnShipFollowed ==
    /\ localShips \subseteq {own}
    /\ Settled =>
          /\ localShips \subseteq {e \in Living : LooksMine(e)}
          /\ NoLookAlike => localShips = {e \in Living : Kind[e] = "ship" /\ Pilot[e] = Me}

\* A shot that still flies is shown on the wrong side only if its enemy is gone.
SidesRight ==
    Settled => \A e \in known \cap Living : Kind[e] = "shot" =>
        \/ e \in enemyShot <=> Kind[Shooter[e]] = "enemy"
        \/ life[Shooter[e]] = "dead"

\* A ship that is gone does not stay the client's own, even if its destruction
\* was lost or overtaken by a late spawn.
FollowsTheDead == own # None /\ life[own] = "dead"
DeadShipLeaves == FollowsTheDead ~> ~FollowsTheDead
==============================================================================
