------------------------------- MODULE SparseSet -------------------------------
(***************************************************************************)
(* SparseSet<Component>: the components of one type, packed in data with   *)
(* their entities in dense for iteration, and found by entity through      *)
(* sparse.  Positions count from 1 where the code counts from 0; sparse is *)
(* 0 where the code has no value or the vector is too short.               *)
(* insert_at does not look whether the entity is there already, nor does   *)
(* Registry::add_component, and systems that mark an entity with ToDestroy *)
(* again do insert it twice: the first element is left over in the arrays. *)
(* doubled remembers whom that has happened to.                            *)
(***************************************************************************)
EXTENDS Naturals, Sequences, FiniteSets

CONSTANTS
    Entities,  \* entity ids
    Values,    \* component values
    Absent,    \* no component (of the abstract map)
    MaxSize    \* bound on size() for model checking

ASSUME AbsentAssumption == Absent \notin Values
ASSUME MaxSizeAssumption == MaxSize \in Nat

VARIABLES
    sparse,  \* where each entity's component is in dense and data
    dense,   \* the entities, in iteration order
    data,    \* their components
    doubled  \* history: the entities inserted while they had a component

setVars == <<sparse, dense, data, doubled>>

SetTypeOK ==
    /\ sparse \in [Entities -> 0..Len(dense)]
    /\ dense \in Seq(Entities)
    /\ data \in Seq(Values)
    /\ doubled \subseteq Entities

SetInit ==
    /\ sparse = [e \in Entities |-> 0]
    /\ dense = <<>>
    /\ data = <<>>
    /\ doubled = {}

has_entity(e) == sparse[e] # 0

\* The element at the hole is replaced by the last one, which is dropped
Filled(seq, hole) ==
    [i \in 1..(Len(seq) - 1) |-> IF i = hole THEN seq[Len(seq)] ELSE seq[i]]

------------------------------------------------------------------------------
\* mutant of insert_at: the component goes in first
insert_at_Front(e, v) ==
    /\ Len(dense) < MaxSize
    /\ dense' = Append(dense, e)
    /\ data' = <<v>> \o data
    /\ sparse' = [sparse EXCEPT ![e] = Len(dense) + 1]
    /\ doubled' = IF has_entity(e) THEN doubled \cup {e} ELSE doubled

insert_at(e, v) ==
    /\ Len(dense) < MaxSize
    /\ dense' = Append(dense, e)
    /\ data' = Append(data, v)
    /\ sparse' = [sparse EXCEPT ![e] = Len(dense) + 1]
    /\ doubled' = IF has_entity(e) THEN doubled \cup {e} ELSE doubled

\* mutant of erase: the moved entity's entry is not updated
erase_LastKept(e) ==
    /\ has_entity(e)
    /\ dense' = Filled(dense, sparse[e])
    /\ data' = Filled(data, sparse[e])
    /\ sparse' = [sparse EXCEPT ![e] = 0]
    /\ UNCHANGED doubled

\* erase of an entity without component returns at once.  When e is itself the
\* last entity both assignments are to its own entry and the reset wins.
erase(e) ==
    /\ has_entity(e)
    /\ dense' = Filled(dense, sparse[e])
    /\ data' = Filled(data, sparse[e])
    /\ sparse' = [[sparse EXCEPT ![dense[Len(dense)]] = sparse[e]] EXCEPT ![e] = 0]
    /\ UNCHANGED doubled

SetNext ==
    \E e \in Entities : erase(e) \/ \E v \in Values : insert_at(e, v)

SetSpec == SetInit /\ [][SetNext]_setVars

------------------------------------------------------------------------------
(* Properties                                                              *)

\* Whatever the callers do, an entry leads to a place that exists and holds its
\* own entity: operator[] never reads past the end or another's component.
PointersValid ==
    /\ Len(dense) = Len(data)
    /\ \A e \in Entities : has_entity(e) =>
          sparse[e] <= Len(dense) /\ dense[sparse[e]] = e

\* size(), "nombre de composants actifs": the iteration visits exactly the
\* entities that have the component, each once, but for the leftovers of those
\* that were ever inserted twice.
IterationExact ==
    \A i \in 1..Len(dense) : sparse[dense[i]] = i \/ dense[i] \in doubled

\* The set implements the partial map: what operator[] finds is what was last
\* inserted for that entity and not erased since, except that an erasure may
\* bring a leftover to light, of an entity that was ever inserted twice.
Map == INSTANCE PartialMap WITH
    map <- [e \in Entities |-> IF sparse[e] = 0 THEN Absent ELSE data[sparse[e]]],
    doubled <- doubled

ImplementsMap == Map!Spec
==============================================================================
