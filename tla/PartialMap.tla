------------------------------ MODULE PartialMap ------------------------------
(***************************************************************************)
(* What a SparseSet promises its users: a map from some entities to their  *)
(* component, in which one entity's operations leave the others alone.     *)
(* The promise ends for an entity whose component was put in while it had  *)
(* one: from then on any removal may change what it has.                   *)
(***************************************************************************)
CONSTANTS Entities, Values, Absent

VARIABLES
    map,
    doubled  \* the entities that were put in while they had a component

TypeOK ==
    /\ map \in [Entities -> Values \cup {Absent}]
    /\ doubled \subseteq Entities

Init ==
    /\ map = [e \in Entities |-> Absent]
    /\ doubled = {}

Put(e, v) ==
    /\ map' = [map EXCEPT ![e] = v]
    /\ doubled' = IF map[e] # Absent THEN doubled \cup {e} ELSE doubled

Remove(e) ==
    /\ map' \in [Entities -> Values \cup {Absent}]
    /\ map'[e] = Absent
    /\ \A f \in Entities \ (doubled \cup {e}) : map'[f] = map[f]
    /\ UNCHANGED doubled

Next == \E e \in Entities : Remove(e) \/ \E v \in Values : Put(e, v)

Spec == Init /\ [][Next]_<<map, doubled>>
==============================================================================
