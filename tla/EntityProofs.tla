----------------------------- MODULE EntityProofs -----------------------------
(***************************************************************************)
(* The entities of a session, in memory and on the client's screen.  First *)
(* SparseSet, for every set of entities and of values and whatever callers *)
(* insert and erase: its entries stay valid; the iteration is exact and    *)
(* the set is a partial map for all entities that were never inserted      *)
(* twice, even among leftovers of those that were.  Then Replication, for  *)
(* any entities, pilots, owners and snapshots: what holds always, and what *)
(* holds while nothing was lost or overtaken.                              *)
(***************************************************************************)
EXTENDS SparseSet, Replication, FiniteSetTheorems, SequenceTheorems, TLAPS

------------------------------------------------------------------------------
(* The sparse set: its entries                                             *)

\* Taking the last element out of a sequence and into the hole leaves a
\* sequence that is one shorter
LEMMA FilledSeq ==
    ASSUME NEW S, NEW s \in Seq(S), NEW h \in 1..Len(s)
    PROVE  /\ Filled(s, h) \in Seq(S)
           /\ Len(Filled(s, h)) = Len(s) - 1
           /\ \A i \in 1..(Len(s) - 1) :
                Filled(s, h)[i] = IF i = h THEN s[Len(s)] ELSE s[i]
  <1> DEFINE f == [i \in 1..(Len(s) - 1) |-> IF i = h THEN s[Len(s)] ELSE s[i]]
  <1>1. Len(s) \in Nat /\ Len(s) - 1 \in Nat
    OBVIOUS
  <1>2. \A i \in 1..Len(s) : s[i] \in S
    OBVIOUS
  <1>3. f \in [1..(Len(s) - 1) -> S]
    BY <1>1, <1>2
  <1>4. f \in Seq(S) /\ Len(f) = Len(s) - 1
    BY <1>1, <1>3
  <1> QED
    BY <1>4 DEF Filled

\* The entries lead to places that hold their entity, and those are typed
SetIInv == SetTypeOK /\ PointersValid

LEMMA SetInitially == SetInit => SetIInv
  BY DEF SetInit, SetIInv, SetTypeOK, PointersValid, has_entity

\* An inserted entity points to the new last place; the others keep theirs
LEMMA InsertIInv ==
    ASSUME SetIInv, NEW e \in Entities, NEW v \in Values, insert_at(e, v)
    PROVE  SetIInv'
  <1>1. /\ dense' \in Seq(Entities) /\ Len(dense') = Len(dense) + 1
        /\ dense'[Len(dense) + 1] = e
        /\ \A i \in 1..Len(dense) : dense'[i] = dense[i]
    BY DEF insert_at, SetIInv, SetTypeOK
  <1>2. data' \in Seq(Values) /\ Len(data') = Len(data) + 1
    BY DEF insert_at, SetIInv, SetTypeOK
  <1>3. /\ sparse' \in [Entities -> 0..Len(dense')]
        /\ sparse'[e] = Len(dense) + 1
        /\ \A x \in Entities \ {e} : sparse'[x] = sparse[x]
    BY <1>1 DEF insert_at, SetIInv, SetTypeOK
  <1>4. SetTypeOK'
    <2>1. doubled' \subseteq Entities
      BY DEF insert_at, SetIInv, SetTypeOK
    <2> QED
      BY <1>1, <1>2, <1>3, <2>1 DEF SetTypeOK
  <1>5. Len(dense') = Len(data')
    BY <1>1, <1>2 DEF SetIInv, PointersValid
  <1>6. ASSUME NEW x \in Entities, sparse'[x] # 0
        PROVE  sparse'[x] <= Len(dense') /\ dense'[sparse'[x]] = x
    <2>1. CASE x = e
      BY <1>1, <1>3, <2>1
    <2>2. CASE x # e
      <3>1. sparse'[x] = sparse[x] /\ sparse[x] \in 1..Len(dense) /\ dense[sparse[x]] = x
        BY <1>3, <1>6, <2>2 DEF SetIInv, SetTypeOK, PointersValid, has_entity
      <3>2. Len(dense) \in Nat
        BY DEF SetIInv, SetTypeOK
      <3> QED
        BY <1>1, <3>1, <3>2
    <2> QED
      BY <2>1, <2>2
  <1> QED
    BY <1>4, <1>5, <1>6 DEF SetIInv, PointersValid, has_entity

\* What an erasure leaves: the last entity moves into the hole, the erased one
\* points nowhere, the others stay where they are
LEMMA EraseEffect ==
    ASSUME SetIInv, NEW e \in Entities, erase(e)
    PROVE  LET last == dense[Len(dense)]
               hole == sparse[e]
           IN  /\ hole \in 1..Len(dense) /\ dense[hole] = e /\ last \in Entities
               /\ dense' \in Seq(Entities) /\ Len(dense') = Len(dense) - 1
               /\ data' \in Seq(Values) /\ Len(data') = Len(dense) - 1
               /\ \A i \in 1..(Len(dense) - 1) :
                    /\ dense'[i] = IF i = hole THEN last ELSE dense[i]
                    /\ data'[i] = IF i = hole THEN data[Len(dense)] ELSE data[i]
               /\ DOMAIN sparse' = Entities
               /\ doubled' = doubled
               /\ sparse'[e] = 0
               /\ last # e => sparse'[last] = hole
               /\ \A x \in Entities \ {e, last} : sparse'[x] = sparse[x]
  <1> DEFINE last == dense[Len(dense)]
             hole == sparse[e]
  <1>1. /\ hole \in 1..Len(dense) /\ dense[hole] = e /\ Len(data) = Len(dense)
        /\ dense \in Seq(Entities) /\ data \in Seq(Values)
    BY DEF erase, has_entity, SetIInv, SetTypeOK, PointersValid
  <1>2. last \in Entities
    BY <1>1
  <1>3. /\ dense' \in Seq(Entities) /\ Len(dense') = Len(dense) - 1
        /\ \A i \in 1..(Len(dense) - 1) : dense'[i] = IF i = hole THEN last ELSE dense[i]
    BY <1>1, FilledSeq DEF erase
  <1>4. /\ data' \in Seq(Values) /\ Len(data') = Len(dense) - 1
        /\ \A i \in 1..(Len(dense) - 1) :
              data'[i] = IF i = hole THEN data[Len(dense)] ELSE data[i]
    BY <1>1, FilledSeq DEF erase
  <1>5. /\ DOMAIN sparse' = Entities
        /\ sparse'[e] = 0
        /\ last # e => sparse'[last] = hole
        /\ \A x \in Entities \ {e, last} : sparse'[x] = sparse[x]
    BY <1>2 DEF erase, SetIInv, SetTypeOK
  <1>6. doubled' = doubled
    BY DEF erase
  <1> QED
    BY <1>1, <1>2, <1>3, <1>4, <1>5, <1>6

\* An erasure moves no entry but the last entity's, to the hole that entity
\* now fills
LEMMA EraseIInv ==
    ASSUME SetIInv, NEW e \in Entities, erase(e)
    PROVE  SetIInv'
  <1> DEFINE last == dense[Len(dense)]
             hole == sparse[e]
  <1>1. /\ hole \in 1..Len(dense) /\ dense[hole] = e /\ last \in Entities
        /\ dense' \in Seq(Entities) /\ Len(dense') = Len(dense) - 1
        /\ data' \in Seq(Values) /\ Len(data') = Len(dense) - 1
        /\ \A i \in 1..(Len(dense) - 1) : dense'[i] = IF i = hole THEN last ELSE dense[i]
        /\ DOMAIN sparse' = Entities
        /\ sparse'[e] = 0
        /\ last # e => sparse'[last] = hole
        /\ \A x \in Entities \ {e, last} : sparse'[x] = sparse[x]
    BY EraseEffect
  <1>2. Len(dense) \in Nat /\ doubled' \subseteq Entities
    BY EraseEffect DEF SetIInv, SetTypeOK
  <1>3. ASSUME NEW x \in Entities, sparse'[x] # 0
        PROVE  sparse'[x] \in 1..(Len(dense) - 1) /\ dense'[sparse'[x]] = x
    <2>1. CASE x = e
      BY <1>1, <1>3, <2>1
    <2>2. CASE x # e /\ x = last
      <3>1. sparse'[x] = hole
        BY <1>1, <2>2
      <3>2. hole # Len(dense)
        BY <1>1, <2>2
      <3>3. hole \in 1..(Len(dense) - 1)
        BY <1>1, <1>2, <3>2
      <3> QED
        BY <1>1, <2>2, <3>1, <3>3
    <2>3. CASE x # e /\ x # last
      <3>1. /\ sparse'[x] = sparse[x] /\ sparse[x] \in 1..Len(dense)
            /\ dense[sparse[x]] = x
        BY <1>1, <1>3, <2>3 DEF SetIInv, SetTypeOK, PointersValid, has_entity
      <3>2. sparse[x] # Len(dense) /\ sparse[x] # hole
        BY <1>1, <2>3, <3>1
      <3>3. sparse[x] \in 1..(Len(dense) - 1)
        BY <1>2, <3>1, <3>2
      <3> QED
        BY <1>1, <3>1, <3>2, <3>3
    <2> QED
      BY <2>1, <2>2, <2>3
  <1>4. \A x \in Entities : sparse'[x] \in 0..(Len(dense) - 1)
    BY <1>1, <1>2, <1>3
  <1>5. sparse' \in [Entities -> 0..Len(dense')]
    <2>1. sparse' = [x \in Entities |-> sparse'[x]]
      BY DEF erase, SetIInv, SetTypeOK
    <2> QED
      BY <1>1, <1>4, <2>1
  <1> QED
    BY <1>1, <1>2, <1>3, <1>5 DEF SetIInv, SetTypeOK, PointersValid, has_entity

LEMMA SetStep == SetIInv /\ [SetNext]_setVars => SetIInv'
  <1> SUFFICES ASSUME SetIInv, [SetNext]_setVars
               PROVE  SetIInv'
    OBVIOUS
  <1>1. ASSUME NEW e \in Entities, NEW v \in Values, insert_at(e, v)
        PROVE  SetIInv'
    BY <1>1, InsertIInv
  <1>2. ASSUME NEW e \in Entities, erase(e)
        PROVE  SetIInv'
    BY <1>2, EraseIInv
  <1>3. CASE UNCHANGED setVars
    BY <1>3 DEF setVars, SetIInv, SetTypeOK, PointersValid, has_entity
  <1> QED
    BY <1>1, <1>2, <1>3 DEF SetNext

LEMMA SetInvariant == SetSpec => []SetIInv
  BY SetInitially, SetStep, PTL DEF SetSpec

\* The arrays hold entities and components, and every entry is 0 or a place
THEOREM SetTypeCorrect == SetSpec => []SetTypeOK
  <1>1. SetIInv => SetTypeOK
    BY DEF SetIInv
  <1> QED
    BY SetInvariant, <1>1, PTL

\* operator[] never reads past the end of data nor another entity's component,
\* whether or not callers insert an entity twice (SparseSet.hpp:27-34)
THEOREM EntriesLeadHome == SetSpec => []PointersValid
  <1>1. SetIInv => PointersValid
    BY DEF SetIInv
  <1> QED
    BY SetInvariant, <1>1, PTL

------------------------------------------------------------------------------
(* The sparse set: who was never inserted twice                            *)

ExactIInv == SetIInv /\ IterationExact

\* An insertion of what is there makes the entity one of the doubled, and an
\* erasure moves the last element, or a leftover of a doubled entity
LEMMA ExactStep == ExactIInv /\ [SetNext]_setVars => ExactIInv'
  <1> SUFFICES ASSUME ExactIInv, [SetNext]_setVars
               PROVE  ExactIInv'
    OBVIOUS
  <1>0. SetIInv' /\ SetIInv
    BY SetStep DEF ExactIInv
  <1>1. ASSUME NEW e \in Entities, NEW v \in Values, insert_at(e, v)
        PROVE  IterationExact'
    <2>1. /\ Len(dense') = Len(dense) + 1 /\ dense'[Len(dense) + 1] = e
          /\ Len(dense) \in Nat
          /\ \A i \in 1..Len(dense) : dense'[i] = dense[i] /\ dense[i] \in Entities
      BY <1>0, <1>1 DEF insert_at, SetIInv, SetTypeOK
    <2>2. /\ sparse'[e] = Len(dense) + 1
          /\ \A x \in Entities \ {e} : sparse'[x] = sparse[x]
      BY <1>0, <1>1 DEF insert_at, SetIInv, SetTypeOK
    <2>3. doubled \subseteq doubled' /\ (sparse[e] # 0 => e \in doubled')
      BY <1>1 DEF insert_at, has_entity
    <2>4. \A i \in 1..Len(dense) : sparse[dense[i]] = i \/ dense[i] \in doubled
      BY DEF ExactIInv, IterationExact
    <2>5. ASSUME NEW i \in 1..Len(dense')
          PROVE  sparse'[dense'[i]] = i \/ dense'[i] \in doubled'
      <3>1. CASE i = Len(dense) + 1
        BY <2>1, <2>2, <3>1
      <3>2. CASE i # Len(dense) + 1
        <4>1. i \in 1..Len(dense) /\ i # 0
          BY <2>1, <3>2
        <4>2. CASE dense[i] = e
          BY <2>1, <2>3, <2>4, <4>1, <4>2
        <4>3. CASE dense[i] # e
          BY <2>1, <2>2, <2>3, <2>4, <4>1, <4>3
        <4> QED
          BY <4>2, <4>3
      <3> QED
        BY <3>1, <3>2
    <2> QED
      BY <2>5 DEF IterationExact
  <1>2. ASSUME NEW e \in Entities, erase(e)
        PROVE  IterationExact'
    <2> DEFINE last == dense[Len(dense)]
               hole == sparse[e]
    <2>1. /\ hole \in 1..Len(dense) /\ dense[hole] = e /\ last \in Entities
          /\ Len(dense') = Len(dense) - 1
          /\ \A i \in 1..(Len(dense) - 1) : dense'[i] = IF i = hole THEN last ELSE dense[i]
          /\ last # e => sparse'[last] = hole
          /\ \A x \in Entities \ {e, last} : sparse'[x] = sparse[x]
          /\ doubled' = doubled
      BY <1>0, <1>2, EraseEffect
    <2>2. Len(dense) \in Nat /\ \A i \in 1..Len(dense) : dense[i] \in Entities
      BY <1>0 DEF SetIInv, SetTypeOK
    <2>3. \A i \in 1..Len(dense) : sparse[dense[i]] = i \/ dense[i] \in doubled
      BY DEF ExactIInv, IterationExact
    <2>4. ASSUME NEW i \in 1..Len(dense')
          PROVE  sparse'[dense'[i]] = i \/ dense'[i] \in doubled'
      <3>1. i \in 1..(Len(dense) - 1) /\ i \in 1..Len(dense) /\ i # Len(dense)
        BY <2>1, <2>2
      <3>2. sparse[last] = Len(dense) \/ last \in doubled
        BY <2>1, <2>2, <2>3
      <3>3. CASE i = hole
        <4>1. dense'[i] = last
          BY <2>1, <3>1, <3>3
        <4>2. CASE last # e
          BY <2>1, <3>3, <4>1, <4>2
        <4>3. CASE last = e
          BY <2>1, <3>1, <3>2, <3>3, <4>1, <4>3
        <4> QED
          BY <4>2, <4>3
      <3>4. CASE i # hole
        <4>1. dense'[i] = dense[i]
          BY <2>1, <3>1, <3>4
        <4>2. ASSUME dense[i] \notin doubled
              PROVE  dense[i] # e /\ dense[i] # last /\ sparse[dense[i]] = i
          BY <2>3, <3>1, <3>2, <3>4, <4>2
        <4> QED
          BY <2>1, <2>2, <3>1, <4>1, <4>2
      <3> QED
        BY <3>3, <3>4
    <2> QED
      BY <2>4 DEF IterationExact
  <1>3. ASSUME UNCHANGED setVars
        PROVE  IterationExact'
    BY <1>3 DEF setVars, ExactIInv, IterationExact
  <1>4. IterationExact'
    BY <1>1, <1>2, <1>3 DEF SetNext
  <1> QED
    BY <1>0, <1>4 DEF ExactIInv

\* The iteration of a system visits every entity that has the component once
\* and no other, but for leftovers of entities that were inserted twice
\* (SparseSet.hpp:40-67, 91-97)
THEOREM IterationIsExact == SetSpec => []IterationExact
  <1>1. SetInit => ExactIInv
    BY SetInitially DEF SetInit, ExactIInv, IterationExact
  <1>2. ExactIInv /\ [SetNext]_setVars => ExactIInv'
    BY ExactStep
  <1>3. ExactIInv => IterationExact
    BY DEF ExactIInv
  <1> QED
    BY <1>1, <1>2, <1>3, PTL DEF SetSpec

------------------------------------------------------------------------------
(* The sparse set: the map it stands for                                   *)

\* What operator[] finds for each entity
MapOf == [e \in Entities |-> IF sparse[e] = 0 THEN Absent ELSE data[sparse[e]]]

\* An insertion puts the component into the map and touches no other entity's;
\* the entity is doubled if the map had it
LEMMA InsertPuts ==
    ASSUME SetIInv, NEW e \in Entities, NEW v \in Values, insert_at(e, v)
    PROVE  /\ MapOf' = [MapOf EXCEPT ![e] = v]
           /\ doubled' = IF MapOf[e] # Absent THEN doubled \cup {e} ELSE doubled
  <1>1. /\ Len(data) = Len(dense) /\ Len(dense) \in Nat
        /\ sparse \in [Entities -> 0..Len(dense)]
    BY DEF SetIInv, SetTypeOK, PointersValid
  <1>2. /\ data'[Len(dense) + 1] = v
        /\ \A i \in 1..Len(dense) : data'[i] = data[i]
    BY <1>1 DEF insert_at, SetIInv, SetTypeOK
  <1>3. /\ sparse'[e] = Len(dense) + 1
        /\ \A x \in Entities \ {e} : sparse'[x] = sparse[x]
    BY <1>1 DEF insert_at
  <1>4. ASSUME NEW x \in Entities
        PROVE  MapOf'[x] = IF x = e THEN v ELSE MapOf[x]
    <2>1. CASE x = e
      BY <1>1, <1>2, <1>3, <2>1 DEF MapOf
    <2>2. CASE x # e
      <3>1. sparse'[x] = sparse[x] /\ sparse[x] \in 0..Len(dense)
        BY <1>1, <1>3, <2>2
      <3>2. sparse[x] # 0 => data'[sparse[x]] = data[sparse[x]]
        BY <1>1, <1>2, <3>1
      <3> QED
        BY <2>2, <3>1, <3>2 DEF MapOf
    <2> QED
      BY <2>1, <2>2
  <1>5. MapOf[e] # Absent <=> sparse[e] # 0
    <2>1. sparse[e] # 0 => sparse[e] \in 1..Len(data) /\ data[sparse[e]] \in Values
      BY <1>1 DEF SetIInv, SetTypeOK
    <2> QED
      BY <2>1, AbsentAssumption DEF MapOf
  <1>6. doubled' = IF MapOf[e] # Absent THEN doubled \cup {e} ELSE doubled
    BY <1>5 DEF insert_at, has_entity
  <1>7. MapOf' = [MapOf EXCEPT ![e] = v]
    BY <1>4 DEF MapOf
  <1> QED
    BY <1>6, <1>7

\* An erasure takes the entity out of the map: the component that moved is
\* found at its new place, and no place was overwritten that an entity without
\* leftovers has
LEMMA EraseRemoves ==
    ASSUME ExactIInv, NEW e \in Entities, erase(e)
    PROVE  /\ MapOf' \in [Entities -> Values \cup {Absent}]
           /\ MapOf'[e] = Absent
           /\ \A x \in Entities \ (doubled \cup {e}) : MapOf'[x] = MapOf[x]
           /\ doubled' = doubled
  <1> DEFINE last == dense[Len(dense)]
             hole == sparse[e]
  <1>1. /\ hole \in 1..Len(dense) /\ dense[hole] = e /\ last \in Entities
        /\ \A i \in 1..(Len(dense) - 1) :
              data'[i] = IF i = hole THEN data[Len(dense)] ELSE data[i]
        /\ sparse'[e] = 0
        /\ last # e => sparse'[last] = hole
        /\ \A x \in Entities \ {e, last} : sparse'[x] = sparse[x]
        /\ doubled' = doubled
    BY EraseEffect DEF ExactIInv
  <1>2. /\ Len(dense) \in Nat
        /\ sparse \in [Entities -> 0..Len(dense)]
        /\ \A x \in Entities : sparse[x] # 0 => dense[sparse[x]] = x
        /\ \A i \in 1..Len(dense) : sparse[dense[i]] = i \/ dense[i] \in doubled
    BY DEF ExactIInv, SetIInv, SetTypeOK, PointersValid, IterationExact, has_entity
  <1>3. ASSUME NEW x \in Entities \ (doubled \cup {e})
        PROVE  MapOf'[x] = MapOf[x]
    <2>1. CASE x = last
      <3>1. sparse[x] = Len(dense) /\ Len(dense) # 0
        BY <1>1, <1>2, <2>1
      <3>2. sparse'[x] = hole /\ hole # 0
        BY <1>1, <2>1
      <3>3. hole \in 1..(Len(dense) - 1)
        <4>1. hole # Len(dense)
          BY <1>1, <2>1
        <4> QED
          BY <1>1, <1>2, <4>1
      <3>4. data'[hole] = data[Len(dense)]
        BY <1>1, <3>3
      <3> QED
        BY <2>1, <3>1, <3>2, <3>4 DEF MapOf
    <2>2. CASE x # last
      <3>1. sparse'[x] = sparse[x]
        BY <1>1, <2>2
      <3>2. ASSUME sparse[x] # 0
            PROVE  data'[sparse[x]] = data[sparse[x]]
        <4>1. sparse[x] \in 1..Len(dense) /\ sparse[x] # Len(dense) /\ sparse[x] # hole
          BY <1>1, <1>2, <2>2, <3>2
        <4> QED
          BY <1>1, <1>2, <4>1
      <3> QED
        BY <2>2, <3>1, <3>2 DEF MapOf
    <2> QED
      BY <2>1, <2>2
  <1>4. MapOf'[e] = Absent
    BY <1>1 DEF MapOf
  <1>5. MapOf' \in [Entities -> Values \cup {Absent}]
    <2> SUFFICES ASSUME NEW x \in Entities
                 PROVE  sparse'[x] # 0 => data'[sparse'[x]] \in Values
      BY DEF MapOf
    <2>1. sparse'[x] # 0 => sparse'[x] \in 1..Len(data')
      BY EraseIInv DEF ExactIInv, SetIInv, SetTypeOK, PointersValid
    <2> QED
      BY <2>1, EraseIInv DEF ExactIInv, SetIInv, SetTypeOK
  <1> QED
    BY <1>1, <1>3, <1>4, <1>5

\* What operator[] finds for an entity is what was last inserted for it and not
\* erased since, whatever is done to the other entities, unless it was inserted
\* twice (SparseSet.hpp:26-97)
THEOREM SparseSetIsMap == SetSpec => ImplementsMap
  <1>1. SetInit => ExactIInv
    BY SetInitially DEF SetInit, ExactIInv, IterationExact
  <1>2. ExactIInv /\ [SetNext]_setVars => ExactIInv'
    BY ExactStep
  <1>3. SetInit => Map!Init
    BY DEF SetInit, Map!Init
  <1>4. ExactIInv /\ [SetNext]_setVars => [Map!Next]_<<MapOf, doubled>>
    <2> SUFFICES ASSUME ExactIInv, [SetNext]_setVars
                 PROVE  [Map!Next]_<<MapOf, doubled>>
      OBVIOUS
    <2>1. ASSUME NEW e \in Entities, NEW v \in Values, insert_at(e, v)
          PROVE  Map!Next
      BY <2>1, InsertPuts DEF ExactIInv, MapOf, Map!Next, Map!Put
    <2>2. ASSUME NEW e \in Entities, erase(e)
          PROVE  Map!Next
      <3>1. Map!Remove(e)
        BY <2>2, EraseRemoves DEF MapOf, Map!Remove
      <3> QED
        BY <3>1 DEF Map!Next
    <2>3. CASE UNCHANGED setVars
      BY <2>3 DEF setVars, MapOf
    <2> QED
      BY <2>1, <2>2, <2>3 DEF SetNext
  <1> QED
    BY <1>1, <1>2, <1>3, <1>4, PTL DEF SetSpec, ImplementsMap, Map!Spec, MapOf

------------------------------------------------------------------------------
(* Replication: what is under way to the client                            *)

USE IdsAssumption, KindAssumption, OwnersAssumption, SnapshotsAssumption, NetAssumption

\* The message at place i of what is under way is of type t and about e
Carries(m, t, e) == m.type = t /\ m.id = e
At(i, t, e) == Carries(net[i], t, e)
InNet(t, e) == \E i \in DOMAIN net : At(i, t, e)
In(s, e) == \E k \in DOMAIN s : s[k] = e
Lives(e) == life[e] \in {"alive", "marked"}

\* SetToSeq lists a finite set.
LEMMA SetToSeqLists ==
    ASSUME NEW S, IsFiniteSet(S)
    PROVE  /\ SetToSeq(S) \in Seq(S)
           /\ \A x : In(SetToSeq(S), x) <=> x \in S
  <1> DEFINE n == Cardinality(S)
             q == SetToSeq(S)
  <1>1. n \in Nat /\ ExistsBijection(1..n, S)
    BY FS_CardinalityType
  <1>2. \E f \in [1..n -> S] : IsInjective(f)
    BY <1>1 DEF ExistsBijection, Bijection, Injection
  <1>3. q \in [1..n -> S] /\ IsInjective(q)
    BY <1>2 DEF SetToSeq
  <1>4. IsFiniteSet(1..n) /\ Cardinality(1..n) = n
    BY <1>1, FS_Interval
  <1>5. q \in Injection(1..n, S)
    BY <1>3 DEF Injection
  <1>6. q \in Surjection(1..n, S)
    BY <1>4, <1>5, FS_Injection
  <1> HIDE DEF q
  <1>7. \A x \in S : \E i \in 1..n : q[i] = x
    BY <1>6 DEF Surjection
  <1>8. q \in Seq(S) /\ DOMAIN q = 1..n
    BY <1>1, <1>3
  <1> QED
    BY <1>3, <1>7, <1>8 DEF In, q

\* A message is about an entity, or is a snapshot.
LEMMA MessageShape ==
    ASSUME NEW m \in Message
    PROVE  \/ m.type \in {"spawn", "destroy", "shot"} /\ m.id \in Ids
           \/ m.type = "snapshot" /\ m.ids \subseteq Ids
  BY DEF Message

LEMMA PacketShape ==
    ASSUME NEW t \in {"spawn", "destroy", "shot"}, NEW e \in Ids
    PROVE  Packet(t, e) \in Message /\ Packet(t, e).type = t /\ Packet(t, e).id = e
  BY DEF Packet, Message

LEMMA PacketsShape ==
    ASSUME NEW t \in {"spawn", "destroy", "shot"}, NEW s \in Seq(Ids)
    PROVE  /\ Packets(t, s) \in Seq(Message)
           /\ DOMAIN Packets(t, s) = DOMAIN s /\ Len(Packets(t, s)) = Len(s)
           /\ \A k \in DOMAIN s : Packets(t, s)[k].type = t /\ Packets(t, s)[k].id = s[k]
  <1>1. Len(s) \in Nat /\ DOMAIN s = 1..Len(s) /\ \A k \in DOMAIN s : s[k] \in Ids
    OBVIOUS
  <1>2. \A k \in DOMAIN s : /\ Packet(t, s[k]) \in Message
                            /\ Packet(t, s[k]).type = t /\ Packet(t, s[k]).id = s[k]
    BY <1>1, PacketShape
  <1>3. Packets(t, s) \in [1..Len(s) -> Message]
    BY <1>1, <1>2 DEF Packets
  <1>4. Packets(t, s) \in Seq(Message) /\ Len(Packets(t, s)) = Len(s)
    BY <1>1, <1>3
  <1> QED
    BY <1>1, <1>2, <1>3, <1>4 DEF Packets

\* w is one sequence after another, s and t, of lengths n and m - n
Glued(s, t, w, n, m) ==
    /\ Len(w) = m /\ n \in Nat /\ m \in Nat
    /\ \A i \in DOMAIN s : i \in DOMAIN w /\ i <= n /\ w[i] = s[i]
    /\ \A i \in DOMAIN t : i \in Nat /\ n + i \in DOMAIN w /\ w[n + i] = t[i]
    /\ \A i \in DOMAIN w : i \in DOMAIN s \/ (n < i /\ i <= m /\ i - n \in DOMAIN t)
    /\ \A i \in DOMAIN w : i \in Nat

LEMMA Joined ==
    ASSUME NEW S, NEW s \in Seq(S), NEW t \in Seq(S), NEW w, w = s \o t,
           NEW n, n = Len(s), NEW m, m = n + Len(t)
    PROVE  w \in Seq(S) /\ Glued(s, t, w, n, m)
  <1>1. w \in Seq(S) /\ Len(w) = m /\ n \in Nat /\ m \in Nat /\ Len(t) \in Nat
    OBVIOUS
  <1>2. /\ DOMAIN s = 1..n /\ DOMAIN t = 1..Len(t) /\ DOMAIN w = 1..m
        /\ \A i \in 1..m : w[i] = IF i <= n THEN s[i] ELSE t[i - n]
    BY <1>1
  <1> QED
    BY <1>1, <1>2 DEF Glued

LEMMA Regrouped ==
    \A q, r, u \in Seq(Message) : q \o (r \o u) = (q \o r) \o u
  <1> SUFFICES ASSUME NEW q \in Seq(Message), NEW r \in Seq(Message), NEW u \in Seq(Message)
               PROVE  q \o (r \o u) = (q \o r) \o u
    OBVIOUS
  <1> DEFINE x == q \o (r \o u)
             y == (q \o r) \o u
  <1>1. /\ q \o r \in Seq(Message) /\ r \o u \in Seq(Message)
        /\ Len(q \o r) = Len(q) + Len(r) /\ Len(r \o u) = Len(r) + Len(u)
    OBVIOUS
  <1>2. x \in Seq(Message) /\ y \in Seq(Message) /\ Len(x) = Len(y)
    BY <1>1
  <1>3. \A i \in 1..Len(x) : x[i] = y[i]
    BY <1>1
  <1> HIDE DEF x, y
  <1>4. x = y
    BY <1>2, <1>3
  <1> QED
    BY <1>4 DEF x, y

\* What leaves the server in one go: a snapshot perhaps, then the spawns B, the
\* destructions C and the shots D, each behind all that is under way.
Batch(A, B, C, D) ==
    ((A \o Packets("spawn", B)) \o Packets("destroy", C)) \o Packets("shot", D)

Layout(A, B, C, D, a, b, c, d) ==
    /\ a \in Nat /\ b \in Nat /\ c \in Nat /\ d \in Nat
    /\ b = a + Len(A) /\ c = b + Len(B) /\ d = c + Len(C)
    /\ \A i \in DOMAIN net' : i \in Nat
    /\ \A i \in DOMAIN net : i \in DOMAIN net' /\ net'[i] = net[i] /\ i <= a
    /\ \A k \in DOMAIN A : k \in Nat /\ a + k \in DOMAIN net' /\ net'[a + k] = A[k]
    /\ \A k \in DOMAIN B : k \in Nat /\ b + k \in DOMAIN net' /\ Carries(net'[b + k], "spawn", B[k])
    /\ \A k \in DOMAIN C : k \in Nat /\ c + k \in DOMAIN net' /\ Carries(net'[c + k], "destroy", C[k])
    /\ \A k \in DOMAIN D : k \in Nat /\ d + k \in DOMAIN net' /\ Carries(net'[d + k], "shot", D[k])
    /\ \A i \in DOMAIN net' :
          \/ i \in DOMAIN net
          \/ a < i /\ i <= b /\ i - a \in DOMAIN A
          \/ b < i /\ i <= c /\ i - b \in DOMAIN B
          \/ c < i /\ i <= d /\ i - c \in DOMAIN C
          \/ d < i /\ i - d \in DOMAIN D

LEMMA SentLayout ==
    ASSUME net \in Seq(Message), NEW A \in Seq(Message),
           NEW B \in Seq(Ids), NEW C \in Seq(Ids), NEW D \in Seq(Ids),
           net' = net \o Batch(A, B, C, D)
    PROVE  /\ net' \in Seq(Message)
           /\ \E a, b, c, d : Layout(A, B, C, D, a, b, c, d)
  <1> DEFINE P == Packets("spawn", B)
             Q == Packets("destroy", C)
             R == Packets("shot", D)
             a == Len(net)
             b == a + Len(A)
             c == b + Len(B)
             d == c + Len(C)
  <1>1. /\ P \in Seq(Message) /\ DOMAIN P = DOMAIN B /\ Len(P) = Len(B)
        /\ \A k \in DOMAIN B : P[k].type = "spawn" /\ P[k].id = B[k]
    BY PacketsShape
  <1>2. /\ Q \in Seq(Message) /\ DOMAIN Q = DOMAIN C /\ Len(Q) = Len(C)
        /\ \A k \in DOMAIN C : Q[k].type = "destroy" /\ Q[k].id = C[k]
    BY PacketsShape
  <1>3. /\ R \in Seq(Message) /\ DOMAIN R = DOMAIN D /\ Len(R) = Len(D)
        /\ \A k \in DOMAIN D : R[k].type = "shot" /\ R[k].id = D[k]
    BY PacketsShape
  <1> HIDE DEF P, Q, R
  <1>4. net' = (((net \o A) \o P) \o Q) \o R
    <2> DEFINE X == A \o P
               Y == X \o Q
    <2>1. \A q, r \in Seq(Message) : q \o r \in Seq(Message)
      OBVIOUS
    <2>3. X \in Seq(Message) /\ Y \in Seq(Message)
      BY <1>1, <1>2, <2>1, Zenon
    <2>4. net' = net \o (Y \o R)
      BY DEF Batch, P, Q, R
    <2> HIDE DEF Y
    <2>5. net \o (Y \o R) = (net \o Y) \o R
      BY <1>3, Regrouped, <2>3, Zenon
    <2> USE DEF Y
    <2> HIDE DEF X
    <2>6. net \o Y = (net \o X) \o Q
      BY <1>2, Regrouped, <2>3, Zenon
    <2>7. net \o X = (net \o A) \o P
      BY <1>1, Regrouped, Zenon DEF X
    <2> HIDE DEF Y
    <2> QED
      BY <2>4, <2>5, <2>6, <2>7, Zenon
  <1> DEFINE n1 == net \o A
             n2 == n1 \o P
             n3 == n2 \o Q
             n4 == n3 \o R
  <1> HIDE DEF a, b, c, d, n1, n2, n3, n4
  <1>5. n1 \in Seq(Message) /\ Glued(net, A, n1, a, b)
    BY Joined DEF n1, a, b
  <1>6. n2 \in Seq(Message) /\ Glued(n1, P, n2, b, c)
    <2>1. b = Len(n1) /\ c = b + Len(P) /\ n2 = n1 \o P
      BY <1>1, <1>5 DEF Glued, c, n2
    <2> QED
      BY <1>1, <1>5, <2>1, Joined, Zenon
  <1>7. n3 \in Seq(Message) /\ Glued(n2, Q, n3, c, d)
    <2>1. c = Len(n2) /\ d = c + Len(Q) /\ n3 = n2 \o Q
      BY <1>2, <1>6 DEF Glued, d, n3
    <2> QED
      BY <1>2, <1>6, <2>1, Joined, Zenon
  <1> DEFINE e == d + Len(R)
  <1> HIDE DEF e
  <1>8. n4 \in Seq(Message) /\ Glued(n3, R, n4, d, e)
    <2>1. d = Len(n3) /\ e = d + Len(R) /\ n4 = n3 \o R
      BY <1>7 DEF Glued, e, n4
    <2> QED
      BY <1>3, <1>7, <2>1, Joined, Zenon
  <1>9. net' = n4
    BY <1>4 DEF n1, n2, n3, n4
  <1>12. Layout(A, B, C, D, a, b, c, d)
    <2>1. b = a + Len(A) /\ c = b + Len(B) /\ d = c + Len(C)
      BY <1>1, <1>2 DEF b, c, d
    <2>2. \A k \in DOMAIN A : k \in Nat /\ a + k \in DOMAIN net' /\ net'[a + k] = A[k]
      BY <1>5, <1>6, <1>7, <1>8, <1>9 DEF Glued
    <2>3. \A k \in DOMAIN B : k \in Nat /\ b + k \in DOMAIN net' /\ Carries(net'[b + k], "spawn", B[k])
      BY <1>1, <1>6, <1>7, <1>8, <1>9 DEF Carries, Glued
    <2>4. \A k \in DOMAIN C : k \in Nat /\ c + k \in DOMAIN net' /\ Carries(net'[c + k], "destroy", C[k])
      BY <1>2, <1>7, <1>8, <1>9 DEF Carries, Glued
    <2>5. \A k \in DOMAIN D : k \in Nat /\ d + k \in DOMAIN net' /\ Carries(net'[d + k], "shot", D[k])
      BY <1>3, <1>8, <1>9 DEF Carries, Glued
    <2>6. \A i \in DOMAIN net : i \in DOMAIN net' /\ net'[i] = net[i] /\ i <= a
      BY <1>5, <1>6, <1>7, <1>8, <1>9 DEF Glued
    <2>7. \A i \in DOMAIN net' :
          \/ i \in DOMAIN net
          \/ a < i /\ i <= b /\ i - a \in DOMAIN A
          \/ b < i /\ i <= c /\ i - b \in DOMAIN B
          \/ c < i /\ i <= d /\ i - c \in DOMAIN C
          \/ d < i /\ i - d \in DOMAIN D
      BY <1>1, <1>2, <1>3, <1>5, <1>6, <1>7, <1>8, <1>9 DEF Glued
    <2>8. \A i \in DOMAIN net' : i \in Nat
      BY <1>8, <1>9 DEF Glued
    <2> QED
      BY <1>5, <1>6, <1>7, <2>1, <2>2, <2>3, <2>4, <2>5, <2>6, <2>7, <2>8 DEF Layout, Glued
  <1> QED
    BY <1>8, <1>9, <1>12

------------------------------------------------------------------------------
(* Replication: the inductive invariant                                    *)

\* A look-alike that has come up has come up for good
LEMMA LookAlikesStay ==
    ASSUME \A e \in Ids : life'[e] = "unborn" => life[e] = "unborn", NoLookAlike'
    PROVE  NoLookAlike
  BY DEF NoLookAlike, Ships, Of, LooksMine

\* What the first part of the promise about snapshots rests on: they have room
\* for a ship of every player
ShipsFit == Cardinality({Pilot[s] : s \in Ships}) <= Cap

\* Nothing is known or said of what has not been created
Unseen ==
    \A e \in Ids : life[e] = "unborn" =>
        /\ e \notin known /\ ~In(spawns, e) /\ ~In(destroys, e) /\ ~In(shots, e)
        /\ \A i \in DOMAIN net : net[i].type # "snapshot" => net[i].id # e

\* Only what is dead is said to be destroyed
DeathsTrue == \A e \in Ids : In(destroys, e) \/ InNet("destroy", e) => life[e] = "dead"

\* Each kind has its messages and its tables
KindsKept ==
    /\ \A k \in DOMAIN shots : Kind[shots[k]] = "shot"
    /\ \A i \in DOMAIN net : net[i].type = "shot" => Kind[net[i].id] = "shot"
    /\ \A e \in moving : Kind[e] \in {"shot", "bonus"}
    /\ \A e \in known : Kind[e] = "enemy" => e \in integrated
    /\ \A e \in enemyShot : Kind[e] = "shot" => Kind[Shooter[e]] = "enemy"

\* The LocalPlayer component and local_player_entity_id_ name one ship
OneOwn ==
    /\ localShips = {own} \ {None}
    /\ own # None => own \in Ids /\ LooksMine(own)

\* Without a UDP connection nothing reaches the client
Deaf == udp = "none" => net = <<>> /\ known = {}

OneShipEach == \A s, t \in Ships : Lives(s) /\ Lives(t) /\ Pilot[s] = Pilot[t] => s = t
Fired == \A e \in Ids : Kind[e] = "shot" /\ life[e] # "unborn" => life[Shooter[e]] # "unborn"

Always ==
    TypeOK /\ Unseen /\ DeathsTrue /\ KindsKept /\ OneOwn /\ Deaf /\ OneShipEach /\ Fired

\* From here on, nothing was lost or overtaken.

\* Living ships and enemies are known, or their spawn is on its way
Awaited(e) == Kind[e] = "enemy" \/ (Kind[e] = "ship" /\ ShipsFit)
Reached ==
    \A e \in Ids : Lives(e) /\ Awaited(e) /\ udp # "none" =>
        e \in known \/ InNet("spawn", e) \/ In(spawns, e)

\* A snapshot without a living ship was sent before that ship was
SnapshotsFull ==
    ShipsFit =>
        \A e \in Ships : \A i \in DOMAIN net :
            Lives(e) /\ net[i].type = "snapshot" /\ e \notin net[i].ids =>
                e \notin known /\ \A j \in DOMAIN net : j < i => ~At(j, "spawn", e)

\* The destruction of what is dead is behind whatever makes it known
Buried(e) ==
    /\ e \in known => InNet("destroy", e) \/ In(destroys, e)
    /\ \A i \in DOMAIN net : At(i, "spawn", e) =>
          In(destroys, e) \/ \E j \in DOMAIN net : i < j /\ At(j, "destroy", e)
    /\ In(spawns, e) => In(destroys, e)
AllBuried == \A e \in Ids : life[e] = "dead" /\ Kind[e] # "shot" => Buried(e)

\* No ship of the client's is announced after the one that lives
Mine(e) == Kind[e] = "ship" /\ LooksMine(e)
Latest(e) ==
    /\ \A i, j \in DOMAIN net :
          i < j /\ At(i, "spawn", e) /\ net[j].type = "spawn" /\ Mine(net[j].id) => net[j].id = e
    /\ e \in known \/ InNet("spawn", e) => \A k \in DOMAIN spawns : Mine(spawns[k]) => spawns[k] = e
    /\ e \in known =>
          own = e /\ \A j \in DOMAIN net : net[j].type = "spawn" /\ Mine(net[j].id) => net[j].id = e
    /\ \A k, l \in DOMAIN spawns : k < l /\ spawns[k] = e /\ Mine(spawns[l]) => spawns[l] = e
LatestLast == NoLookAlike => \A e \in Ids : Lives(e) /\ Mine(e) => Latest(e)

\* A shot arrives behind its enemy, and is an enemy's then
SideTold(e) ==
    /\ e \in known => e \in enemyShot
    /\ \A i \in DOMAIN net : At(i, "shot", e) =>
          Shooter[e] \in known \/ \E j \in DOMAIN net : j < i /\ At(j, "spawn", Shooter[e])
Hostile(e) == Kind[e] = "shot" /\ Kind[Shooter[e]] = "enemy" /\ Lives(Shooter[e])
SidesTold == \A e \in Ids : Hostile(e) => SideTold(e)

InStep ==
    /\ ~started => known = {}
    /\ Reached /\ SnapshotsFull /\ AllBuried /\ LatestLast /\ SidesTold

ReplicaIInv == Always /\ (faults = 0 => InStep)

\* The types, part by part
ServerOK ==
    /\ phase \in {"early", "late"}
    /\ life \in [Ids -> {"unborn", "alive", "marked", "dead"}]
    /\ spawns \in Seq(Ids) /\ destroys \in Seq(Ids) /\ shots \in Seq(Ids)
    /\ udp \in {"none", "this", "earlier"}
WireOK == net \in Seq(Message) /\ faults \in 0..MaxFaults
TablesOK ==
    /\ known \subseteq Ids /\ enemyShot \subseteq known /\ moving \subseteq known
    /\ integrated \subseteq known /\ localShips \subseteq known
    /\ stale \in [Ids -> 0..Threshold]
    /\ own \in known \cup {None}

LEMMA TypeParts == TypeOK <=> ServerOK /\ WireOK /\ TablesOK /\ started \in BOOLEAN
  BY Zenon DEF TypeOK, ServerOK, WireOK, TablesOK

LEMMA NextTypeParts == TypeOK' <=> ServerOK' /\ WireOK' /\ TablesOK' /\ started' \in BOOLEAN
  BY Zenon DEF TypeOK, ServerOK, WireOK, TablesOK

LEMMA ReplicaInit == Init => ReplicaIInv
  <1> SUFFICES ASSUME Init PROVE ReplicaIInv
    OBVIOUS
  <1> USE DEF Init
  <1>1. /\ net = <<>> /\ DOMAIN net = {} /\ DOMAIN spawns = {} /\ DOMAIN destroys = {} /\ DOMAIN shots = {}
    OBVIOUS
  <1>2. TypeOK
    <2>1. ServerOK
      BY DEF ServerOK
    <2>2. WireOK
      BY DEF WireOK
    <2>3. TablesOK
      BY DEF TablesOK
    <2>4. started \in BOOLEAN
      OBVIOUS
    <2> QED
      BY <2>1, <2>2, <2>3, <2>4, TypeParts
  <1>3. Unseen /\ DeathsTrue /\ KindsKept /\ Deaf
    BY <1>1 DEF Unseen, DeathsTrue, KindsKept, Deaf, In, InNet
  <1>4. OneOwn /\ OneShipEach /\ Fired
    BY DEF OneOwn, OneShipEach, Fired, Lives, Ships, Of
  <1>5. /\ Reached /\ SnapshotsFull /\ AllBuried /\ LatestLast /\ SidesTold
    BY <1>1 DEF Reached, SnapshotsFull, AllBuried, LatestLast, SidesTold, SideTold, Hostile, Lives, Ships, Of
  <1> QED
    BY <1>2, <1>3, <1>4, <1>5 DEF ReplicaIInv, Always, InStep

------------------------------------------------------------------------------
(* Replication: the server's steps                                         *)

\* Every living ship is in every snapshot.
LEMMA ShipsInSnapshot ==
    ASSUME TypeOK, OneShipEach, ShipsFit, NEW S \in InSnapshot, NEW e \in Ships, life[e] = "alive"
    PROVE  e \in S
  <1> DEFINE seen == {x \in Ids : life[x] = "alive" /\ Kind[x] \in {"ship", "shot", "enemy"}}
             Rank(x) == CASE Kind[x] = "ship" -> 1 [] Kind[x] = "shot" -> 2 [] OTHER -> 3
             P == {Pilot[s] : s \in Ships}
             L == {s \in Ships : life[s] = "alive"}
  <1>1. /\ S \subseteq seen /\ (S = seen \/ Cardinality(S) = Cap)
        /\ \A x \in S, y \in seen \ S : Rank(x) <= Rank(y)
    BY DEF InSnapshot
  <1>2. IsFiniteSet(Ships) /\ IsFiniteSet(P)
    <2>1. IsFiniteSet(Ships)
      BY FS_Subset DEF Ships, Of
    <2>2. [s \in Ships |-> Pilot[s]] \in Surjection(Ships, P)
      BY DEF Surjection
    <2> QED
      BY <2>1, <2>2, FS_Surjection
  <1>3. IsFiniteSet(L) /\ Cardinality(L) <= Cardinality(P)
    <2> DEFINE f == [s \in L |-> Pilot[s]]
    <2>1. f \in [L -> P]
      OBVIOUS
    <2>2. \A s, t \in L : f[s] = f[t] => s = t
      BY DEF OneShipEach, Lives
    <2>3. f \in Injection(L, P)
      BY <2>1, <2>2 DEF Injection, IsInjective
    <2> QED
      BY <1>2, <2>3, FS_Injection
  <1> SUFFICES ASSUME e \notin S PROVE FALSE
    OBVIOUS
  <1>4. e \in seen \ S /\ Rank(e) = 1 /\ e \in L
    BY DEF Ships, Of
  <1>5. \A x \in S : Kind[x] = "ship"
    <2> TAKE x \in S
    <2>1. Rank(x) <= 1
      BY <1>1, <1>4
    <2> QED
      BY <2>1
  <1>6. S \subseteq L \ {e}
    BY <1>1, <1>5 DEF Ships, Of
  <1>7. Cardinality(S) = Cap
    BY <1>1, <1>4
  <1> HIDE DEF L, P, seen, Rank
  <1>8. IsFiniteSet(L \ {e}) /\ Cardinality(L \ {e}) = Cardinality(L) - 1
    BY <1>3, <1>4, FS_RemoveElement
  <1>9. Cardinality(S) <= Cardinality(L \ {e})
    BY <1>6, <1>8, FS_Subset
  <1>10. Cardinality(L) \in Nat /\ Cardinality(P) \in Nat /\ Cardinality(P) <= Cap
    BY <1>2, <1>3, FS_CardinalityType DEF ShipsFit, P
  <1> QED
    BY <1>3, <1>7, <1>8, <1>9, <1>10

\* A flush: what the network system and the broadcast have in common.  A is the
\* snapshot, C are the destructions and D the shots that are sent.
Flush(A, C, D) ==
    /\ A \in Seq(Message) /\ C \in Seq(Ids) /\ D \in Seq(Ids)
    /\ udp = "none" => net' = net
    /\ udp # "none" => net' = net \o Batch(A, spawns, C, D)
    /\ spawns' = <<>> /\ destroys' = <<>>
    /\ \/ D = shots /\ shots' = <<>>
       \/ D = <<>> /\ shots' = shots
    /\ \A e \in Ids : In(destroys, e) => In(C, e)
    /\ \A e \in Ids : In(C, e) => life'[e] = "dead"
    /\ \A e \in Ids : \/ life'[e] = life[e]
                      \/ life[e] = "marked" /\ life'[e] = "dead" /\ In(C, e)
    /\ \A k \in DOMAIN A : A[k].type = "snapshot"
    /\ ShipsFit => \A k \in DOMAIN A : \A e \in Ships : life'[e] \in {"alive", "marked"} => e \in A[k].ids
    /\ life' \in [Ids -> {"unborn", "alive", "marked", "dead"}]
    /\ UNCHANGED <<udp, faults, client>>

LEMMA NoPackets ==
    ASSUME NEW t \in {"spawn", "destroy", "shot"}, NEW n \in Seq(Message)
    PROVE  n \o Packets(t, <<>>) = n /\ <<>> \o n = n
  <1>1. Packets(t, <<>>) \in Seq(Message) /\ Len(Packets(t, <<>>)) = 0
    <2>1. <<>> \in Seq(Ids) /\ Len(<<>>) = 0
      OBVIOUS
    <2>2. \A s \in Seq(Ids) : Packets(t, s) \in Seq(Message) /\ Len(Packets(t, s)) = Len(s)
      BY PacketsShape
    <2> QED
      BY <2>1, <2>2
  <1> QED
    BY <1>1

\* The snapshot, the spawns and the destructions of a tick are a flush.
LEMMA UpdateFlushes ==
    ASSUME TypeOK, DeathsTrue, NEW A \in Seq(Message), NetworkUpdate(A),
           \A k \in DOMAIN A : A[k].type = "snapshot",
           ShipsFit => \A k \in DOMAIN A : \A e \in Ships : life[e] = "alive" => e \in A[k].ids
    PROVE  \E C, D : Flush(A, C, D)
  <1> DEFINE M == SetToSeq(Marked)
             C == destroys \o M
             P == Packets("spawn", spawns)
             Q == Packets("destroy", C)
  <1>1. /\ destroys \in Seq(Ids) /\ spawns \in Seq(Ids)
        /\ life \in [Ids -> {"unborn", "alive", "marked", "dead"}]
    BY DEF TypeOK
  <1>2. IsFiniteSet(Marked) /\ Marked \subseteq Ids
    BY FS_Subset DEF Marked
  <1>3. M \in Seq(Marked) /\ \A x : In(M, x) <=> x \in Marked
    BY <1>2, SetToSeqLists
  <1> HIDE DEF M
  <1>4. M \in Seq(Ids)
    BY <1>2, <1>3
  <1>5. C \in Seq(Ids) /\ \A x : In(C, x) <=> In(destroys, x) \/ In(M, x)
    <2>1. C \in Seq(Ids) /\ \A k \in DOMAIN destroys : k \in DOMAIN C /\ C[k] = destroys[k]
      BY <1>1, <1>4
    <2>2. \A k \in DOMAIN M : Len(destroys) + k \in DOMAIN C /\ C[Len(destroys) + k] = M[k]
      BY <1>1, <1>4
    <2>3. \A k \in DOMAIN C : \/ k \in DOMAIN destroys /\ C[k] = destroys[k]
                              \/ k - Len(destroys) \in DOMAIN M /\ C[k] = M[k - Len(destroys)]
      BY <1>1, <1>4
    <2> HIDE DEF C
    <2> QED
      BY <2>1, <2>2, <2>3 DEF In
  <1> HIDE DEF C
  <1>6. P \in Seq(Message) /\ Q \in Seq(Message)
    BY <1>1, <1>5, PacketsShape
  <1>7. /\ net' = IF udp # "none" THEN net \o (A \o P \o Q) ELSE net
        /\ spawns' = <<>> /\ destroys' = <<>> /\ shots' = shots
        /\ life' = [e \in Ids |-> IF e \in Marked THEN "dead" ELSE life[e]]
        /\ UNCHANGED <<udp, faults, client>>
    BY DEF NetworkUpdate, Sent, C, M
  <1>8. A \o P \o Q = Batch(A, spawns, C, <<>>)
    <2>1. (A \o P) \o Q \in Seq(Message)
      BY <1>6
    <2> HIDE DEF P, Q
    <2>2. ((A \o P) \o Q) \o Packets("shot", <<>>) = (A \o P) \o Q
      BY <2>1, NoPackets
    <2> QED
      BY <2>2 DEF Batch, P, Q
  <1> HIDE DEF P, Q
  <1>9. \A e \in Ids : In(destroys, e) => life[e] = "dead"
    BY DEF DeathsTrue
  <1>10. /\ \A e \in Ids : In(C, e) => life'[e] = "dead"
         /\ \A e \in Ids : life'[e] = life[e] \/ (life[e] = "marked" /\ life'[e] = "dead" /\ In(C, e))
         /\ \A e \in Ids : life'[e] \in {"alive", "marked"} => life[e] = "alive"
    BY <1>1, <1>3, <1>5, <1>7, <1>9 DEF Marked
  <1>11. life' \in [Ids -> {"unborn", "alive", "marked", "dead"}]
    BY <1>1, <1>7
  <1>12. Ships \subseteq Ids
    BY DEF Ships, Of
  <1>13. Flush(A, C, <<>>)
    <2>1. net' = net \/ udp # "none"
      BY <1>7
    <2>2. udp # "none" => net' = net \o Batch(A, spawns, C, <<>>)
      BY <1>7, <1>8
    <2>3. ShipsFit => \A k \in DOMAIN A : \A e \in Ships : life'[e] \in {"alive", "marked"} => e \in A[k].ids
      BY <1>10, <1>12
    <2>4. <<>> \in Seq(Ids)
      OBVIOUS
    <2> QED
      BY <1>5, <1>7, <1>10, <1>11, <2>1, <2>2, <2>3, <2>4, Zenon DEF Flush
  <1> QED
    BY <1>13

LEMMA BroadcastFlushes ==
    ASSUME TypeOK, DeathsTrue, Broadcast
    PROVE  Flush(<<>>, destroys, shots)
  <1> DEFINE P == Packets("spawn", spawns)
             Q == Packets("destroy", destroys)
             R == Packets("shot", shots)
  <1>1. /\ destroys \in Seq(Ids) /\ spawns \in Seq(Ids) /\ shots \in Seq(Ids)
        /\ life \in [Ids -> {"unborn", "alive", "marked", "dead"}]
    BY DEF TypeOK
  <1>2. P \in Seq(Message) /\ Q \in Seq(Message) /\ R \in Seq(Message)
    BY <1>1, PacketsShape
  <1>3. /\ net' = IF udp # "none" THEN net \o (P \o Q \o R) ELSE net
        /\ spawns' = <<>> /\ destroys' = <<>> /\ shots' = <<>>
        /\ UNCHANGED <<life, udp, faults, client>>
    BY DEF Broadcast, Sent
  <1>4. P \o Q \o R = Batch(<<>>, spawns, destroys, shots)
    <2> HIDE DEF P, Q, R
    <2>1. <<>> \o P = P
      BY <1>2
    <2> QED
      BY <2>1 DEF Batch, P, Q, R
  <1> HIDE DEF P, Q, R
  <1>5. \A e \in Ids : In(destroys, e) => life[e] = "dead"
    BY DEF DeathsTrue
  <1>6. <<>> \in Seq(Message) /\ DOMAIN <<>> = {}
    OBVIOUS
  <1>7. udp # "none" => net' = net \o Batch(<<>>, spawns, destroys, shots)
    BY <1>3, <1>4
  <1>8. udp = "none" => net' = net
    BY <1>3
  <1>9. life' = life
    BY <1>3
  <1> HIDE DEF Broadcast
  <1>10. /\ \A k \in DOMAIN <<>> : (<<>>)[k].type = "snapshot"
         /\ \A k \in DOMAIN <<>> : \A e \in Ships : life'[e] \in {"alive", "marked"} => e \in (<<>>)[k].ids
    BY <1>6
  <1> QED
    BY <1>1, <1>3, <1>5, <1>6, <1>7, <1>8, <1>9, <1>10, Zenon DEF Flush

\* Each step of the server's loop is a flush.
LEMMA ServerFlushes ==
    ASSUME TypeOK, DeathsTrue, OneShipEach, ServerStep
    PROVE  \E A, C, D : Flush(A, C, D)
  <1>1. CASE NetworkUpdate(<<>>)
    <2>1. <<>> \in Seq(Message) /\ DOMAIN <<>> = {}
      OBVIOUS
    <2> QED
      BY <1>1, <2>1, UpdateFlushes
  <1>2. CASE SendSnapshot
    <2> PICK S \in InSnapshot : NetworkUpdate(<<[type |-> "snapshot", ids |-> S]>>)
      BY <1>2 DEF SendSnapshot
    <2> DEFINE m == [type |-> "snapshot", ids |-> S]
    <2>1. S \in SUBSET Ids
      BY DEF InSnapshot
    <2>2. m \in Message /\ m.type = "snapshot" /\ m.ids = S
      BY <2>1 DEF Message
    <2> HIDE DEF m
    <2>3. <<m>> \in Seq(Message) /\ DOMAIN <<m>> = {1} /\ <<m>>[1] = m
      BY <2>2
    <2>4. ShipsFit => \A e \in Ships : life[e] = "alive" => e \in S
      BY ShipsInSnapshot
    <2>5. NetworkUpdate(<<m>>)
      BY DEF m
    <2>6. /\ \A k \in DOMAIN <<m>> : <<m>>[k].type = "snapshot"
          /\ ShipsFit => \A k \in DOMAIN <<m>> : \A e \in Ships : life[e] = "alive" => e \in <<m>>[k].ids
      BY <2>2, <2>3, <2>4
    <2> QED
      BY <2>3, <2>5, <2>6, UpdateFlushes
  <1>3. CASE Broadcast
    BY <1>3, BroadcastFlushes
  <1> QED
    BY <1>1, <1>2, <1>3 DEF ServerStep

\* What is under way after a flush, by the type of the message
Flushed(A, C, D, a, b, c, d) ==
    /\ a \in Nat /\ b \in Nat /\ c \in Nat /\ d \in Nat /\ a <= b /\ b <= c /\ c <= d
    /\ \A i \in DOMAIN net' : i \in Nat
    /\ \A i \in DOMAIN net : i \in DOMAIN net' /\ net'[i] = net[i] /\ i <= a
    /\ \A k \in DOMAIN spawns :
          k \in Nat /\ b + k <= c /\ b + k \in DOMAIN net' /\ Carries(net'[b + k], "spawn", spawns[k])
    /\ \A k \in DOMAIN C :
          k \in Nat /\ c < c + k /\ c + k \in DOMAIN net' /\ Carries(net'[c + k], "destroy", C[k])
    /\ \A i \in DOMAIN net' :
          \/ i \in DOMAIN net
          \/ a < i /\ i <= b /\ net'[i].type = "snapshot" /\ i - a \in DOMAIN A /\ net'[i] = A[i - a]
          \/ b < i /\ i <= c /\ i - b \in DOMAIN spawns /\ Carries(net'[i], "spawn", spawns[i - b])
          \/ c < i /\ i <= d /\ i - c \in DOMAIN C /\ Carries(net'[i], "destroy", C[i - c])
          \/ d < i /\ i - d \in DOMAIN D /\ Carries(net'[i], "shot", D[i - d])

LEMMA FlushShape ==
    ASSUME TypeOK, NEW A, NEW C, NEW D, Flush(A, C, D), udp # "none"
    PROVE  net' \in Seq(Message) /\ \E a, b, c, d : Flushed(A, C, D, a, b, c, d)
  <1>1. /\ net \in Seq(Message) /\ spawns \in Seq(Ids)
        /\ A \in Seq(Message) /\ C \in Seq(Ids) /\ D \in Seq(Ids)
        /\ net' = net \o Batch(A, spawns, C, D)
        /\ \A k \in DOMAIN A : A[k].type = "snapshot"
    BY DEF TypeOK, Flush
  <1>2. /\ net' \in Seq(Message)
        /\ \E a, b, c, d : Layout(A, spawns, C, D, a, b, c, d)
    BY <1>1, SentLayout
  <1>3. PICK a, b, c, d : Layout(A, spawns, C, D, a, b, c, d)
    BY <1>2
  <1>4. /\ \A k \in DOMAIN A : 1 <= k /\ k <= Len(A) /\ k \in Nat
        /\ \A k \in DOMAIN spawns : 1 <= k /\ k <= Len(spawns) /\ k \in Nat
        /\ \A k \in DOMAIN C : 1 <= k /\ k <= Len(C) /\ k \in Nat
        /\ Len(A) \in Nat /\ Len(spawns) \in Nat /\ Len(C) \in Nat
    BY <1>1
  <1>5. /\ a \in Nat /\ b \in Nat /\ c \in Nat /\ d \in Nat /\ a <= b /\ b <= c /\ c <= d
        /\ b = a + Len(A) /\ c = b + Len(spawns) /\ d = c + Len(C)
    BY <1>3, <1>4 DEF Layout
  <1>6. /\ \A i \in DOMAIN net' : i \in Nat
        /\ \A i \in DOMAIN net : i \in DOMAIN net' /\ net'[i] = net[i] /\ i <= a
    BY <1>3 DEF Layout
  <1>7. \A k \in DOMAIN spawns :
            k \in Nat /\ b + k <= c /\ b + k \in DOMAIN net' /\ Carries(net'[b + k], "spawn", spawns[k])
    BY <1>3, <1>4, <1>5 DEF Layout
  <1>8. \A k \in DOMAIN C :
            k \in Nat /\ c < c + k /\ c + k \in DOMAIN net' /\ Carries(net'[c + k], "destroy", C[k])
    BY <1>3, <1>4, <1>5 DEF Layout
  <1>9. ASSUME NEW i \in DOMAIN net'
        PROVE  \/ i \in DOMAIN net
               \/ a < i /\ i <= b /\ net'[i].type = "snapshot" /\ i - a \in DOMAIN A /\ net'[i] = A[i - a]
               \/ b < i /\ i <= c /\ i - b \in DOMAIN spawns /\ Carries(net'[i], "spawn", spawns[i - b])
               \/ c < i /\ i <= d /\ i - c \in DOMAIN C /\ Carries(net'[i], "destroy", C[i - c])
               \/ d < i /\ i - d \in DOMAIN D /\ Carries(net'[i], "shot", D[i - d])
    <2>1. i \in Nat
      BY <1>6
    <2>8. \A x, y \in Nat : x + (y - x) = y
      OBVIOUS
    <2>2. a + (i - a) = i /\ b + (i - b) = i /\ c + (i - c) = i /\ d + (i - d) = i
      BY <1>5, <2>1, <2>8, Zenon
    <2>3. CASE i \in DOMAIN net
      BY <2>3
    <2>4. CASE a < i /\ i <= b /\ i - a \in DOMAIN A
      <3> DEFINE k == i - a
      <3>1. k \in DOMAIN A /\ a + k = i
        BY <2>2, <2>4
      <3> HIDE DEF k
      <3>2. net'[i] = A[k] /\ A[k].type = "snapshot"
        BY <1>1, <1>3, <3>1 DEF Layout
      <3> QED
        BY <2>4, <3>2 DEF k
    <2>5. CASE b < i /\ i <= c /\ i - b \in DOMAIN spawns
      BY <1>7, <2>2, <2>5
    <2>6. CASE c < i /\ i <= d /\ i - c \in DOMAIN C
      BY <1>8, <2>2, <2>6
    <2>7. CASE d < i /\ i - d \in DOMAIN D
      BY <1>3, <2>2, <2>7 DEF Layout
    <2> QED
      BY <1>3, <2>3, <2>4, <2>5, <2>6, <2>7 DEF Layout
  <1>10. Flushed(A, C, D, a, b, c, d)
    BY <1>5, <1>6, <1>7, <1>8, <1>9 DEF Flushed
  <1> QED
    BY <1>2, <1>10

\* A flush keeps what holds always.
LEMMA FlushAlways ==
    ASSUME Always, NEW A, NEW C, NEW D, Flush(A, C, D), phase' \in {"early", "late"}
    PROVE  Always'
  <1> USE DEF Always
  <1>0. /\ known' = known /\ enemyShot' = enemyShot /\ moving' = moving /\ integrated' = integrated
        /\ stale' = stale /\ own' = own /\ localShips' = localShips /\ started' = started
        /\ udp' = udp /\ faults' = faults /\ spawns' = <<>> /\ destroys' = <<>>
        /\ DOMAIN spawns' = {} /\ DOMAIN destroys' = {}
        /\ shots' = shots \/ (shots' = <<>> /\ DOMAIN shots' = {})
        /\ C \in Seq(Ids) /\ D \in Seq(Ids)
        /\ udp = "none" => net' = net
        /\ life' \in [Ids -> {"unborn", "alive", "marked", "dead"}]
        /\ \A e \in Ids : \/ life'[e] = life[e]
                          \/ life[e] = "marked" /\ life'[e] = "dead" /\ In(C, e)
        /\ \A e \in Ids : In(C, e) => life'[e] = "dead"
        /\ D = shots \/ D = <<>>
    BY DEF Flush, client, tables
  <1>1. /\ life \in [Ids -> {"unborn", "alive", "marked", "dead"}]
        /\ spawns \in Seq(Ids) /\ destroys \in Seq(Ids) /\ shots \in Seq(Ids)
        /\ net \in Seq(Message)
    BY DEF TypeOK
  <1>2. /\ \A e \in Ids : life'[e] = "unborn" => life[e] = "unborn"
        /\ \A e \in Ids : life'[e] = "unborn" <=> life[e] = "unborn"
        /\ \A e \in Ids : life'[e] \in {"alive", "marked"} => life[e] \in {"alive", "marked"}
        /\ \A e \in Ids : life[e] = "dead" => life'[e] = "dead"
    BY <1>0
  <1>3. net' \in Seq(Message)
    BY <1>0, <1>1, FlushShape
  <1>4. \A i \in DOMAIN net' :
            \/ i \in DOMAIN net /\ net'[i] = net[i]
            \/ net'[i].type = "snapshot"
            \/ net'[i].type = "spawn" /\ In(spawns, net'[i].id)
            \/ net'[i].type = "destroy" /\ In(C, net'[i].id)
            \/ net'[i].type = "shot" /\ In(D, net'[i].id) /\ In(shots, net'[i].id)
    <2>1. CASE udp = "none"
      BY <1>0, <2>1
    <2>2. CASE udp # "none"
      <3>1. DOMAIN <<>> = {}
        OBVIOUS
      <3>2. \A k \in DOMAIN D : D = shots
        BY <1>0, <3>1
      <3>3. PICK a, b, c, d : Flushed(A, C, D, a, b, c, d)
        BY <2>2, FlushShape
      <3> QED
        BY <3>2, <3>3 DEF Flushed, Carries, In
    <2> QED
      BY <2>1, <2>2
  <1>5. TypeOK'
    <2>1. ServerOK'
      <3>1. <<>> \in Seq(Ids)
        OBVIOUS
      <3> QED
        BY <1>0, <1>1, <3>1, TypeParts DEF ServerOK
    <2>2. WireOK'
      BY <1>0, <1>3, TypeParts DEF WireOK
    <2>3. TablesOK' /\ started' \in BOOLEAN
      BY <1>0, TypeParts DEF TablesOK
    <2> QED
      BY <2>1, <2>2, <2>3, NextTypeParts
  <1>6. Unseen'
    <2> SUFFICES ASSUME NEW e \in Ids, life'[e] = "unborn"
                 PROVE  /\ e \notin known' /\ ~In(spawns', e) /\ ~In(destroys', e) /\ ~In(shots', e)
                        /\ \A i \in DOMAIN net' : net'[i].type # "snapshot" => net'[i].id # e
      BY DEF Unseen, In
    <2>1. /\ e \notin known /\ ~In(spawns, e) /\ ~In(destroys, e) /\ ~In(shots, e)
          /\ \A i \in DOMAIN net : net[i].type # "snapshot" => net[i].id # e
      BY <1>2 DEF Unseen
    <2>2. ~In(C, e)
      BY <1>0
    <2>3. ~In(spawns', e) /\ ~In(destroys', e) /\ ~In(shots', e)
      BY <1>0, <2>1 DEF In
    <2> QED
      BY <1>0, <1>4, <2>1, <2>2, <2>3
  <1>7. DeathsTrue'
    <2> SUFFICES ASSUME NEW e \in Ids,
                        In(destroys', e) \/ \E i \in DOMAIN net' : Carries(net'[i], "destroy", e)
                 PROVE  life'[e] = "dead"
      BY DEF DeathsTrue, InNet, At, Carries, In
    <2>1. ~In(destroys', e)
      BY <1>0 DEF In
    <2>2. PICK i \in DOMAIN net' : net'[i].type = "destroy" /\ net'[i].id = e
      BY <2>1 DEF Carries
    <2>3. CASE In(C, e)
      BY <1>0, <2>3
    <2>4. CASE i \in DOMAIN net /\ net'[i] = net[i]
      BY <1>2, <2>2, <2>4 DEF DeathsTrue, InNet, At, Carries
    <2> QED
      BY <1>4, <2>2, <2>3, <2>4
  <1>8. KindsKept'
    <2>1. \A k \in DOMAIN shots' : Kind[shots'[k]] = "shot"
      BY <1>0 DEF KindsKept
    <2>2. \A i \in DOMAIN net' : net'[i].type = "shot" => Kind[net'[i].id] = "shot"
      BY <1>4 DEF KindsKept, In
    <2> QED
      BY <1>0, <2>1, <2>2 DEF KindsKept
  <1>9. OneOwn' /\ Deaf'
    BY <1>0 DEF OneOwn, Deaf
  <1>10. OneShipEach'
    BY <1>0, <1>2 DEF OneShipEach, Lives, Ships, Of
  <1>11. Fired'
    <2>1. \A e \in Ids : Kind[e] = "shot" => Shooter[e] \in Ids
      BY DEF Message
    <2> QED
      BY <1>2, <2>1 DEF Fired
  <1> QED
    BY <1>5, <1>6, <1>7, <1>8, <1>9, <1>10, <1>11

\* A flush keeps what holds while nothing goes wrong: it moves the spawns, then
\* the destructions, then the shots from the queues to the end of the network.
LEMMA FlushInStep ==
    ASSUME Always, InStep, NEW A, NEW C, NEW D, Flush(A, C, D)
    PROVE  InStep'
  <1> USE DEF Always
  <1>0. /\ known' = known /\ enemyShot' = enemyShot /\ own' = own /\ started' = started
        /\ udp' = udp /\ spawns' = <<>> /\ destroys' = <<>>
        /\ DOMAIN spawns' = {} /\ DOMAIN destroys' = {}
        /\ udp = "none" => net' = net
        /\ \A e \in Ids : \/ life'[e] = life[e]
                          \/ life[e] = "marked" /\ life'[e] = "dead" /\ In(C, e)
        /\ \A e \in Ids : In(destroys, e) => In(C, e)
        /\ D = shots \/ D = <<>>
        /\ ShipsFit => \A k \in DOMAIN A : \A e \in Ships : life'[e] \in {"alive", "marked"} => e \in A[k].ids
    BY DEF Flush, client, tables
  <1>1. /\ life \in [Ids -> {"unborn", "alive", "marked", "dead"}]
        /\ spawns \in Seq(Ids) /\ net \in Seq(Message)
    BY DEF TypeOK
  <1>2. \A e \in Ids : life'[e] \in {"alive", "marked"} => life[e] \in {"alive", "marked"}
    BY <1>0
  <1>3. ~started' => known' = {}
    BY <1>0 DEF InStep
  <1>4. CASE udp = "none"
    <2>1. net = <<>> /\ DOMAIN net = {} /\ net' = net /\ DOMAIN net' = {} /\ known = {} /\ known' = {}
      BY <1>0, <1>4 DEF Deaf
    <2>2. Reached' /\ SnapshotsFull'
      BY <1>0, <1>4, <2>1 DEF Reached, SnapshotsFull
    <2>3. AllBuried'
      BY <1>0, <2>1 DEF AllBuried, Buried, At, In
    <2>4. LatestLast'
      BY <1>0, <2>1 DEF LatestLast, Latest, At, In, InNet
    <2>5. SidesTold'
      BY <1>0, <2>1 DEF SidesTold, SideTold, At
    <2> QED
      BY <1>3, <2>2, <2>3, <2>4, <2>5 DEF InStep
  <1>5. CASE udp # "none"
    <2> USE <1>5
    <2>0. PICK a, b, c, d : Flushed(A, C, D, a, b, c, d)
      BY FlushShape
    <2>1. Flushed(A, C, D, a, b, c, d)
      BY <2>0
    \* what is sent, by type
    <2>2. \A i \in DOMAIN net' : net'[i].type = "spawn" =>
              \/ i \in DOMAIN net /\ net'[i] = net[i] /\ i <= a
              \/ b < i /\ i <= c /\ i - b \in DOMAIN spawns /\ net'[i].id = spawns[i - b]
      BY <2>1 DEF Flushed, Carries
    <2>3. \A i \in DOMAIN net' : net'[i].type = "shot" =>
              \/ i \in DOMAIN net /\ net'[i] = net[i] /\ i <= a
              \/ c < i
      BY <2>1 DEF Flushed, Carries
    <2>4. \A i \in DOMAIN net' : net'[i].type = "snapshot" =>
              \/ i \in DOMAIN net /\ net'[i] = net[i] /\ i <= a
              \/ i - a \in DOMAIN A /\ net'[i] = A[i - a]
      BY <2>1 DEF Flushed, Carries
    <2>5. \A e : In(spawns, e) => \E j \in DOMAIN net' : j <= c /\ Carries(net'[j], "spawn", e)
      BY <2>1 DEF Flushed, In
    <2>6. \A e : In(C, e) => \E j \in DOMAIN net' : c < j /\ Carries(net'[j], "destroy", e)
      BY <2>1 DEF Flushed, In
    <2>7. \A e, t : InNet(t, e) => \E j \in DOMAIN net' : j <= a /\ Carries(net'[j], t, e)
      BY <2>1 DEF Flushed, InNet, At
    <2>8. a \in Nat /\ b \in Nat /\ c \in Nat /\ a <= b /\ b <= c /\ \A i \in DOMAIN net' : i \in Nat
      BY <2>1 DEF Flushed
    <2>9. \A i \in DOMAIN net : i \in DOMAIN net' /\ net'[i] = net[i] /\ i <= a /\ i \in Nat
      BY <2>1 DEF Flushed
    <2>10. Reached'
      <3> SUFFICES ASSUME NEW e \in Ids, life'[e] \in {"alive", "marked"}, Awaited(e)
                   PROVE  e \in known \/ \E i \in DOMAIN net' : Carries(net'[i], "spawn", e)
        BY <1>0 DEF Reached, Lives, InNet, At, Awaited
      <3>1. e \in known \/ InNet("spawn", e) \/ In(spawns, e)
        BY <1>2 DEF InStep, Reached, Lives
      <3> QED
        BY <2>5, <2>7, <3>1
    <2>11. SnapshotsFull'
      <3> SUFFICES ASSUME ShipsFit, NEW e \in Ships, NEW i \in DOMAIN net',
                          life'[e] \in {"alive", "marked"}, net'[i].type = "snapshot", e \notin net'[i].ids
                   PROVE  /\ e \notin known'
                          /\ \A j \in DOMAIN net' : j < i => ~Carries(net'[j], "spawn", e)
        BY DEF SnapshotsFull, Lives, At
      <3>1. i \in DOMAIN net /\ net'[i] = net[i] /\ i <= a
        BY <1>0, <2>4
      <3>2. e \in Ids /\ Lives(e)
        BY <1>2 DEF Lives, Ships, Of
      <3>3. e \notin known /\ \A j \in DOMAIN net : j < i => ~Carries(net[j], "spawn", e)
        BY <3>1, <3>2 DEF InStep, SnapshotsFull, At
      <3> QED
        BY <1>0, <2>2, <2>8, <2>9, <3>1, <3>3 DEF Carries
    <2>12. AllBuried'
      <3> SUFFICES ASSUME NEW e \in Ids, life'[e] = "dead", Kind[e] # "shot"
                   PROVE  /\ e \in known => \E j \in DOMAIN net' : Carries(net'[j], "destroy", e)
                          /\ \A i \in DOMAIN net' : Carries(net'[i], "spawn", e) =>
                                \E j \in DOMAIN net' : i < j /\ Carries(net'[j], "destroy", e)
        BY <1>0 DEF AllBuried, Buried, At, In, InNet
      <3>1. CASE In(C, e)
        <4>1. PICK j \in DOMAIN net' : c < j /\ Carries(net'[j], "destroy", e)
          BY <2>6, <3>1
        <4>2. \A i \in DOMAIN net' : net'[i].type = "spawn" => i <= c
          BY <2>2, <2>8
        <4> QED
          BY <2>8, <4>1, <4>2 DEF Carries
      <3>2. CASE ~In(C, e)
        <4>1. life[e] = "dead" /\ Buried(e) /\ ~In(destroys, e)
          BY <1>0, <3>2 DEF InStep, AllBuried
        <4>2. e \in known => \E j \in DOMAIN net' : Carries(net'[j], "destroy", e)
          BY <2>7, <4>1 DEF Buried
        <4>3. ~In(spawns, e)
          BY <4>1 DEF Buried
        <4>4. ASSUME NEW i \in DOMAIN net', Carries(net'[i], "spawn", e)
              PROVE  \E j \in DOMAIN net' : i < j /\ Carries(net'[j], "destroy", e)
          <5>1. i \in DOMAIN net /\ net'[i] = net[i]
            BY <2>2, <4>3, <4>4 DEF Carries, In
          <5>2. PICK j \in DOMAIN net : i < j /\ Carries(net[j], "destroy", e)
            BY <4>1, <4>4, <5>1 DEF Buried, At
          <5> QED
            BY <2>9, <5>2
        <4> QED
          BY <4>2, <4>4
      <3> QED
        BY <3>1, <3>2
    <2>13. LatestLast'
      <3> SUFFICES ASSUME NoLookAlike', NEW e \in Ids, life'[e] \in {"alive", "marked"}, Mine(e)
                   PROVE  /\ \A i, j \in DOMAIN net' :
                                i < j /\ Carries(net'[i], "spawn", e) /\ net'[j].type = "spawn" /\ Mine(net'[j].id)
                                    => net'[j].id = e
                          /\ e \in known => /\ own = e
                                            /\ \A j \in DOMAIN net' : net'[j].type = "spawn" /\ Mine(net'[j].id)
                                                   => net'[j].id = e
        BY <1>0 DEF LatestLast, Latest, Lives, At, Mine
      <3>0. NoLookAlike
        <4>1. \A x \in Ids : life'[x] = "unborn" => life[x] = "unborn"
          BY <1>0
        <4> QED
          BY <4>1, LookAlikesStay
      <3>1. Latest(e)
        BY <1>2, <3>0 DEF InStep, LatestLast, Lives
      <3>2. e \in known \/ InNet("spawn", e) => \A k \in DOMAIN spawns : Mine(spawns[k]) => spawns[k] = e
        BY <3>1 DEF Latest
      <3>3. \A k, l \in DOMAIN spawns : k < l /\ spawns[k] = e /\ Mine(spawns[l]) => spawns[l] = e
        BY <3>1 DEF Latest
      <3>4. ASSUME NEW i \in DOMAIN net', NEW j \in DOMAIN net', i < j, Carries(net'[i], "spawn", e),
                   net'[j].type = "spawn", Mine(net'[j].id)
            PROVE  net'[j].id = e
        <4>1. CASE i \in DOMAIN net /\ net'[i] = net[i] /\ j \in DOMAIN net /\ net'[j] = net[j]
          BY <3>1, <3>4, <4>1 DEF Latest, At
        <4>2. CASE i \in DOMAIN net /\ net'[i] = net[i] /\ j - b \in DOMAIN spawns /\ net'[j].id = spawns[j - b]
          <5>1. InNet("spawn", e)
            BY <3>4, <4>2 DEF InNet, At
          <5> QED
            BY <3>2, <3>4, <4>2, <5>1
        <4>3. CASE /\ i - b \in DOMAIN spawns /\ net'[i].id = spawns[i - b]
                   /\ j - b \in DOMAIN spawns /\ net'[j].id = spawns[j - b]
          <5>1. i - b < j - b
            BY <2>8, <3>4
          <5> QED
            BY <3>3, <3>4, <4>3, <5>1 DEF Carries
        <4> QED
          BY <2>2, <2>8, <3>4, <4>1, <4>2, <4>3 DEF Carries
      <3>5. ASSUME e \in known
            PROVE  /\ own = e
                   /\ \A j \in DOMAIN net' : net'[j].type = "spawn" /\ Mine(net'[j].id) => net'[j].id = e
        <4>1. own = e /\ \A j \in DOMAIN net : net[j].type = "spawn" /\ Mine(net[j].id) => net[j].id = e
          BY <3>1, <3>5 DEF Latest
        <4> QED
          BY <2>2, <3>2, <3>5, <4>1
      <3> QED
        BY <3>4, <3>5
    <2>14. SidesTold'
      <3> SUFFICES ASSUME NEW e \in Ids, Kind[e] = "shot", Kind[Shooter[e]] = "enemy",
                          life'[Shooter[e]] \in {"alive", "marked"}
                   PROVE  /\ e \in known => e \in enemyShot
                          /\ \A i \in DOMAIN net' : Carries(net'[i], "shot", e) =>
                                \/ Shooter[e] \in known
                                \/ \E j \in DOMAIN net' : j < i /\ Carries(net'[j], "spawn", Shooter[e])
        BY <1>0 DEF SidesTold, SideTold, Hostile, Lives, At
      <3>1. Shooter[e] \in Ids
        BY DEF Message
      <3>2. Hostile(e) /\ Lives(Shooter[e]) /\ SideTold(e)
        BY <1>2, <3>1 DEF InStep, SidesTold, Hostile, Lives
      <3>3. Shooter[e] \in known \/ InNet("spawn", Shooter[e]) \/ In(spawns, Shooter[e])
        BY <3>1, <3>2 DEF InStep, Reached, Awaited
      <3>4. \/ Shooter[e] \in known
            \/ \E j \in DOMAIN net' : j <= c /\ Carries(net'[j], "spawn", Shooter[e])
        BY <2>5, <2>7, <2>8, <3>3
      <3>5. ASSUME NEW i \in DOMAIN net', Carries(net'[i], "shot", e), Shooter[e] \notin known
            PROVE  \E j \in DOMAIN net' : j < i /\ Carries(net'[j], "spawn", Shooter[e])
        <4>1. CASE i \in DOMAIN net /\ net'[i] = net[i]
          <5>1. PICK j \in DOMAIN net : j < i /\ Carries(net[j], "spawn", Shooter[e])
            BY <3>2, <3>5, <4>1 DEF SideTold, At
          <5> QED
            BY <2>9, <5>1
        <4>2. CASE c < i
          BY <2>8, <3>4, <3>5, <4>2
        <4> QED
          BY <2>3, <3>5, <4>1, <4>2 DEF Carries
      <3> QED
        BY <3>2, <3>5 DEF SideTold
    <2> QED
      BY <1>3, <2>10, <2>11, <2>12, <2>13, <2>14 DEF InStep
  <1> QED
    BY <1>4, <1>5

\* Appending to a queue, and to a queue a list.
LEMMA Queued ==
    ASSUME NEW s \in Seq(Ids), NEW t \in Seq(Ids), NEW w, w = s \o t
    PROVE  /\ w \in Seq(Ids)
           /\ \A x : In(w, x) <=> In(s, x) \/ In(t, x)
           /\ \A k \in DOMAIN w :
                 \/ k \in DOMAIN s /\ w[k] = s[k]
                 \/ In(t, w[k]) /\ k \notin DOMAIN s
           /\ \A k, l \in DOMAIN w : k < l /\ l \in DOMAIN s => k \in DOMAIN s
  <1>1. /\ w \in Seq(Ids) /\ Len(s) \in Nat
        /\ \A k \in DOMAIN s : k \in DOMAIN w /\ k <= Len(s) /\ w[k] = s[k]
        /\ \A k \in DOMAIN t : k \in Nat /\ Len(s) + k \in DOMAIN w /\ w[Len(s) + k] = t[k]
        /\ \A k \in DOMAIN w : k \in DOMAIN s \/ (Len(s) < k /\ k - Len(s) \in DOMAIN t)
        /\ \A k \in DOMAIN w : k \in Nat
    BY Joined
  <1>2. \A x, y \in Nat : x + (y - x) = y
    OBVIOUS
  <1>3. \A k \in DOMAIN w : \/ k \in DOMAIN s /\ w[k] = s[k]
                            \/ Len(s) < k /\ k - Len(s) \in DOMAIN t /\ w[k] = t[k - Len(s)]
    <2> TAKE k \in DOMAIN w
    <2>1. CASE k \in DOMAIN s
      BY <1>1, <2>1
    <2>2. CASE Len(s) < k /\ k - Len(s) \in DOMAIN t
      <3>1. Len(s) + (k - Len(s)) = k
        BY <1>1, <1>2
      <3>2. w[Len(s) + (k - Len(s))] = t[k - Len(s)]
        BY <1>1, <2>2
      <3> QED
        BY <2>2, <3>1, <3>2
    <2> QED
      BY <1>1, <2>1, <2>2
  <1>4. \A x : In(w, x) <=> In(s, x) \/ In(t, x)
    BY <1>1, <1>3 DEF In
  <1>5. \A k \in DOMAIN w :
            \/ k \in DOMAIN s /\ w[k] = s[k]
            \/ In(t, w[k]) /\ k \notin DOMAIN s
    BY <1>1, <1>3 DEF In
  <1>6. DOMAIN s = 1..Len(s) /\ \A k \in DOMAIN w : 1 <= k
    BY <1>1
  <1>7. \A k, l \in DOMAIN w : k < l /\ l \in DOMAIN s => k \in DOMAIN s
    BY <1>1, <1>6
  <1> QED
    BY <1>1, <1>4, <1>5, <1>7

LEMMA Added ==
    ASSUME NEW s \in Seq(Ids), NEW e \in Ids, NEW w, w = Append(s, e)
    PROVE  /\ w \in Seq(Ids)
           /\ \A x : In(w, x) <=> In(s, x) \/ x = e
           /\ \A k, l \in DOMAIN w : k < l => k \in DOMAIN s /\ w[k] = s[k]
           /\ \A k \in DOMAIN w : (k \in DOMAIN s /\ w[k] = s[k]) \/ w[k] = e
  <1>1. /\ w \in Seq(Ids) /\ Len(w) = Len(s) + 1 /\ Len(s) \in Nat
        /\ DOMAIN s = 1..Len(s) /\ DOMAIN w = 1..(Len(s) + 1)
        /\ \A k \in 1..Len(s) : w[k] = s[k]
        /\ w[Len(s) + 1] = e
    OBVIOUS
  <1>2. \A k \in DOMAIN w : k \in DOMAIN s \/ k = Len(s) + 1
    BY <1>1
  <1>3. \A k \in DOMAIN s : k \in DOMAIN w
    BY <1>1
  <1>4. Len(s) + 1 \in DOMAIN w
    BY <1>1
  <1>5. \A x : In(w, x) <=> In(s, x) \/ x = e
    BY <1>1, <1>2, <1>3, <1>4 DEF In
  <1>6. \A k, l \in DOMAIN w : k < l => k \in DOMAIN s
    BY <1>1
  <1> QED
    BY <1>1, <1>2, <1>5, <1>6

\* A new entity, announced in the queue of its kind.
LEMMA SpawnKeeps ==
    ASSUME ReplicaIInv, NEW e \in Ids, Spawn(e)
    PROVE  ReplicaIInv'
  <1> USE DEF ReplicaIInv, Always
  <1>0. /\ net' = net /\ faults' = faults /\ started' = started /\ known' = known /\ enemyShot' = enemyShot
        /\ moving' = moving /\ integrated' = integrated /\ stale' = stale /\ own' = own
        /\ localShips' = localShips /\ udp' = udp /\ destroys' = destroys /\ shots' = shots /\ phase' = phase
    BY DEF Spawn, client, tables
  <1>1. /\ life \in [Ids -> {"unborn", "alive", "marked", "dead"}]
        /\ spawns \in Seq(Ids) /\ net \in Seq(Message)
    BY DEF TypeOK
  <1>2. /\ Kind[e] # "shot" /\ life[e] = "unborn"
        /\ Kind[e] = "ship" => \A s \in Ships : Pilot[s] = Pilot[e] => ~Lives(s)
        /\ life' = [life EXCEPT ![e] = "alive"] /\ spawns' = Append(spawns, e)
    BY DEF Spawn, MaySpawn, Lives
  <1>3. /\ life' \in [Ids -> {"unborn", "alive", "marked", "dead"}]
        /\ life'[e] = "alive" /\ \A x \in Ids : x # e => life'[x] = life[x]
    BY <1>1, <1>2
  <1>4. /\ spawns' \in Seq(Ids)
        /\ \A x : In(spawns', x) <=> In(spawns, x) \/ x = e
        /\ \A k, l \in DOMAIN spawns' : k < l => k \in DOMAIN spawns /\ spawns'[k] = spawns[k]
        /\ \A k \in DOMAIN spawns' : (k \in DOMAIN spawns /\ spawns'[k] = spawns[k]) \/ spawns'[k] = e
    <2>1. spawns \in Seq(Ids) /\ spawns' = Append(spawns, e)
      BY <1>1, <1>2
    <2>2. \A x : In(spawns', x) <=> In(spawns, x) \/ x = e
      BY <2>1, Added, Zenon
    <2>3. /\ spawns' \in Seq(Ids)
          /\ \A k, l \in DOMAIN spawns' : k < l => k \in DOMAIN spawns /\ spawns'[k] = spawns[k]
          /\ \A k \in DOMAIN spawns' : (k \in DOMAIN spawns /\ spawns'[k] = spawns[k]) \/ spawns'[k] = e
      BY <2>1, Added
    <2> QED
      BY <2>2, <2>3
  <1>5. /\ e \notin known /\ ~In(spawns, e) /\ ~In(destroys, e)
        /\ \A i \in DOMAIN net : net[i].type # "snapshot" => net[i].id # e
    BY <1>2 DEF Unseen
  <1>6. TypeOK'
    <2>1. ServerOK'
      BY <1>0, <1>3, <1>4, TypeParts DEF ServerOK
    <2>2. WireOK' /\ TablesOK' /\ started' \in BOOLEAN
      BY <1>0, TypeParts DEF WireOK, TablesOK
    <2> QED
      BY <2>1, <2>2, NextTypeParts
  <1>7. Unseen'
    <2> SUFFICES ASSUME NEW x \in Ids, life'[x] = "unborn"
                 PROVE  /\ x \notin known /\ ~In(spawns', x) /\ ~In(destroys, x) /\ ~In(shots, x)
                        /\ \A i \in DOMAIN net : net[i].type # "snapshot" => net[i].id # x
      BY <1>0 DEF Unseen, In
    <2> QED
      BY <1>3, <1>4 DEF Unseen
  <1>8. DeathsTrue'
    <2> SUFFICES ASSUME NEW x \in Ids, In(destroys, x) \/ InNet("destroy", x)
                 PROVE  life'[x] = "dead"
      BY <1>0 DEF DeathsTrue, In, InNet, At, Carries
    <2>1. life[x] = "dead"
      BY DEF DeathsTrue
    <2> QED
      BY <1>2, <1>3, <2>1
  <1>9. KindsKept' /\ OneOwn' /\ Deaf'
    BY <1>0 DEF KindsKept, OneOwn, Deaf
  <1>10. OneShipEach'
    <2> SUFFICES ASSUME NEW s \in Ships, NEW t \in Ships, life'[s] \in {"alive", "marked"},
                        life'[t] \in {"alive", "marked"}, Pilot[s] = Pilot[t]
                 PROVE  s = t
      BY DEF OneShipEach, Lives
    <2>1. s \in Ids /\ t \in Ids /\ Kind[s] = "ship" /\ Kind[t] = "ship"
      BY DEF Ships, Of
    <2> QED
      BY <1>2, <1>3, <2>1 DEF OneShipEach, Lives
  <1>11. Fired'
    <2>1. \A x \in Ids : Kind[x] = "shot" => Shooter[x] \in Ids
      BY DEF Message
    <2> QED
      BY <1>2, <1>3, <2>1 DEF Fired
  <1>12. ASSUME InStep PROVE InStep'
    <2> USE <1>12 DEF InStep
    <2>1. Reached'
      BY <1>0, <1>3, <1>4 DEF Reached, Lives, Awaited, InNet, At, In
    <2>2. SnapshotsFull'
      <3> SUFFICES ASSUME ShipsFit, NEW x \in Ships, NEW i \in DOMAIN net,
                          life'[x] \in {"alive", "marked"}, net[i].type = "snapshot", x \notin net[i].ids
                   PROVE  /\ x \notin known
                          /\ \A j \in DOMAIN net : j < i => ~Carries(net[j], "spawn", x)
        BY <1>0 DEF SnapshotsFull, Lives, At
      <3>1. CASE x = e
        BY <1>5, <3>1 DEF Carries
      <3>2. CASE x # e
        <4>1. x \in Ids /\ Lives(x)
          BY <1>3, <3>2 DEF Lives, Ships, Of
        <4> QED
          BY <4>1 DEF SnapshotsFull, At
      <3> QED
        BY <3>1, <3>2
    <2>3. AllBuried'
      <3> SUFFICES ASSUME NEW x \in Ids, life'[x] = "dead", Kind[x] # "shot"
                   PROVE  /\ x \in known => InNet("destroy", x) \/ In(destroys, x)
                          /\ \A i \in DOMAIN net : Carries(net[i], "spawn", x) =>
                                In(destroys, x) \/ \E j \in DOMAIN net : i < j /\ Carries(net[j], "destroy", x)
                          /\ In(spawns', x) => In(destroys, x)
        BY <1>0 DEF AllBuried, Buried, At, In, InNet
      <3>1. x # e /\ life[x] = "dead" /\ Buried(x)
        BY <1>3 DEF AllBuried
      <3> QED
        BY <1>4, <3>1 DEF Buried, At
    <2>4. LatestLast'
      <3> SUFFICES ASSUME NoLookAlike', NEW x \in Ids, life'[x] \in {"alive", "marked"}, Mine(x)
                   PROVE  /\ \A i, j \in DOMAIN net : i < j /\ Carries(net[i], "spawn", x)
                                /\ net[j].type = "spawn" /\ Mine(net[j].id) => net[j].id = x
                          /\ x \in known \/ InNet("spawn", x) =>
                                \A k \in DOMAIN spawns' : Mine(spawns'[k]) => spawns'[k] = x
                          /\ x \in known =>
                                /\ own = x
                                /\ \A j \in DOMAIN net : net[j].type = "spawn" /\ Mine(net[j].id) => net[j].id = x
                          /\ \A k, l \in DOMAIN spawns' :
                                k < l /\ spawns'[k] = x /\ Mine(spawns'[l]) => spawns'[l] = x
        BY <1>0 DEF LatestLast, Latest, Lives, At, In, InNet, Carries, Mine
      <3>1. CASE x = e
        <4>1. \A k, l \in DOMAIN spawns' : k < l => spawns'[k] # e
          BY <1>4, <1>5 DEF In
        <4> QED
          BY <1>5, <3>1, <4>1 DEF InNet, At, Carries
      <3>2. CASE x # e
        <4>1. Lives(x) /\ Latest(x)
          BY <1>3, <3>2, LookAlikesStay DEF LatestLast, Lives
        <4>2. ~Mine(e)
          BY <1>2, <1>3, <4>1 DEF NoLookAlike, Mine, Ships, Of
        <4>3. \A k \in DOMAIN spawns' : Mine(spawns'[k]) => k \in DOMAIN spawns /\ spawns'[k] = spawns[k]
          BY <1>4, <4>2
        <4> QED
          BY <1>4, <4>1, <4>3 DEF Latest, At
      <3> QED
        BY <3>1, <3>2
    <2>5. SidesTold'
      <3> SUFFICES ASSUME NEW x \in Ids, Kind[x] = "shot", Kind[Shooter[x]] = "enemy",
                          life'[Shooter[x]] \in {"alive", "marked"}
                   PROVE  /\ x \in known => x \in enemyShot
                          /\ \A i \in DOMAIN net : Carries(net[i], "shot", x) =>
                                \/ Shooter[x] \in known
                                \/ \E j \in DOMAIN net : j < i /\ Carries(net[j], "spawn", Shooter[x])
        BY <1>0 DEF SidesTold, SideTold, Hostile, Lives, At
      <3>1. Shooter[x] \in Ids
        BY DEF Message
      <3>2. CASE Shooter[x] = e
        <4>1. life[x] = "unborn"
          BY <1>2, <3>2 DEF Fired
        <4> QED
          BY <4>1 DEF Unseen, Carries
      <3>3. CASE Shooter[x] # e
        <4>1. SideTold(x)
          BY <1>3, <3>1, <3>3 DEF SidesTold, Hostile, Lives
        <4> QED
          BY <4>1 DEF SideTold, At
      <3> QED
        BY <3>2, <3>3
    <2> QED
      BY <1>0, <2>1, <2>2, <2>3, <2>4, <2>5 DEF InStep
  <1> QED
    BY <1>0, <1>6, <1>7, <1>8, <1>9, <1>10, <1>11, <1>12

\* A shot is alive from now on, and announced in its own queue.
LEMMA ShootKeeps ==
    ASSUME ReplicaIInv, NEW e \in Ids, Shoot(e)
    PROVE  ReplicaIInv'
  <1> USE DEF ReplicaIInv, Always
  <1>0. /\ net' = net /\ faults' = faults /\ started' = started /\ known' = known /\ enemyShot' = enemyShot
        /\ moving' = moving /\ integrated' = integrated /\ stale' = stale /\ own' = own
        /\ localShips' = localShips /\ udp' = udp /\ destroys' = destroys /\ spawns' = spawns /\ phase' = phase
    BY DEF Shoot, client, tables
  <1>1. /\ life \in [Ids -> {"unborn", "alive", "marked", "dead"}]
        /\ shots \in Seq(Ids) /\ net \in Seq(Message)
    BY DEF TypeOK
  <1>2. /\ Kind[e] = "shot" /\ life[e] = "unborn" /\ Lives(Shooter[e])
        /\ life' = [life EXCEPT ![e] = "alive"] /\ shots' = Append(shots, e)
    BY DEF Shoot, MaySpawn, Lives
  <1>3. /\ life' \in [Ids -> {"unborn", "alive", "marked", "dead"}]
        /\ life'[e] = "alive" /\ \A x \in Ids : x # e => life'[x] = life[x]
        /\ \A x \in Ids : Kind[x] # "shot" => life'[x] = life[x]
    BY <1>1, <1>2
  <1>4. /\ shots' \in Seq(Ids)
        /\ \A x : In(shots', x) <=> In(shots, x) \/ x = e
        /\ \A k \in DOMAIN shots' : (k \in DOMAIN shots /\ shots'[k] = shots[k]) \/ shots'[k] = e
    <2>1. shots \in Seq(Ids) /\ shots' = Append(shots, e)
      BY <1>1, <1>2
    <2>2. \A x : In(shots', x) <=> In(shots, x) \/ x = e
      BY <2>1, Added, Zenon
    <2>3. /\ shots' \in Seq(Ids)
          /\ \A k \in DOMAIN shots' : (k \in DOMAIN shots /\ shots'[k] = shots[k]) \/ shots'[k] = e
      BY <2>1, Added
    <2> QED
      BY <2>2, <2>3
  <1>5. /\ e \notin known /\ \A i \in DOMAIN net : net[i].type # "snapshot" => net[i].id # e
    BY <1>2 DEF Unseen
  <1>6. TypeOK'
    <2>1. ServerOK'
      BY <1>0, <1>3, <1>4, TypeParts DEF ServerOK
    <2>2. WireOK' /\ TablesOK' /\ started' \in BOOLEAN
      BY <1>0, TypeParts DEF WireOK, TablesOK
    <2> QED
      BY <2>1, <2>2, NextTypeParts
  <1>7. Unseen'
    <2> SUFFICES ASSUME NEW x \in Ids, life'[x] = "unborn"
                 PROVE  /\ x \notin known /\ ~In(spawns, x) /\ ~In(destroys, x) /\ ~In(shots', x)
                        /\ \A i \in DOMAIN net : net[i].type # "snapshot" => net[i].id # x
      BY <1>0 DEF Unseen, In
    <2> QED
      BY <1>3, <1>4 DEF Unseen
  <1>8. DeathsTrue'
    <2> SUFFICES ASSUME NEW x \in Ids, In(destroys, x) \/ InNet("destroy", x)
                 PROVE  life'[x] = "dead"
      BY <1>0 DEF DeathsTrue, In, InNet, At, Carries
    <2>1. life[x] = "dead"
      BY DEF DeathsTrue
    <2> QED
      BY <1>2, <1>3, <2>1
  <1>9. KindsKept' /\ OneOwn' /\ Deaf'
    BY <1>0, <1>2, <1>4 DEF KindsKept, OneOwn, Deaf
  <1>10. OneShipEach'
    BY <1>3 DEF OneShipEach, Lives, Ships, Of
  <1>11. Fired'
    <2>1. \A x \in Ids : Kind[x] = "shot" => Shooter[x] \in Ids
      BY DEF Message
    <2>2. life[Shooter[e]] # "unborn" /\ Shooter[e] # e
      BY <1>2 DEF Lives
    <2> QED
      BY <1>2, <1>3, <2>1, <2>2 DEF Fired
  <1>12. ASSUME InStep PROVE InStep'
    <2> USE <1>12 DEF InStep
    <2>1. Reached'
      BY <1>0, <1>3 DEF Reached, Lives, Awaited, InNet, At, In
    <2>2. SnapshotsFull'
      BY <1>0, <1>3 DEF SnapshotsFull, Lives, Ships, Of, At
    <2>3. AllBuried'
      BY <1>0, <1>3 DEF AllBuried, Buried, At, In, InNet
    <2>4. LatestLast'
      <3>1. NoLookAlike' => NoLookAlike
        BY <1>3, LookAlikesStay
      <3>2. \A x \in Ids : Lives(x)' /\ Mine(x) => Lives(x)
        BY <1>3, <1>2 DEF Lives, Mine
      <3> QED
        BY <1>0, <3>1, <3>2 DEF LatestLast, Latest, Lives, At, In, InNet, Mine
    <2>5. SidesTold'
      <3>1. \A x \in Ids : Kind[x] = "shot" => Shooter[x] \in Ids
        BY DEF Message
      <3> QED
        BY <1>0, <1>3, <3>1 DEF SidesTold, SideTold, Hostile, Lives, At
    <2> QED
      BY <1>0, <2>1, <2>2, <2>3, <2>4, <2>5 DEF InStep
  <1> QED
    BY <1>0, <1>6, <1>7, <1>8, <1>9, <1>10, <1>11, <1>12

\* A marked entity still lives.
LEMMA MarkKeeps ==
    ASSUME ReplicaIInv, NEW e \in Ids, Mark(e)
    PROVE  ReplicaIInv'
  <1> USE DEF ReplicaIInv, Always
  <1>0. /\ net' = net /\ faults' = faults /\ started' = started /\ known' = known /\ enemyShot' = enemyShot
        /\ moving' = moving /\ integrated' = integrated /\ stale' = stale /\ own' = own /\ shots' = shots
        /\ localShips' = localShips /\ udp' = udp /\ destroys' = destroys /\ spawns' = spawns /\ phase' = phase
    BY DEF Mark, client, tables, queues
  <1>1. /\ life \in [Ids -> {"unborn", "alive", "marked", "dead"}]
        /\ life[e] = "alive" /\ life' = [life EXCEPT ![e] = "marked"]
    BY DEF TypeOK, Mark
  <1>2. /\ life' \in [Ids -> {"unborn", "alive", "marked", "dead"}]
        /\ \A x \in Ids : life'[x] \in {"alive", "marked"} <=> life[x] \in {"alive", "marked"}
        /\ \A x \in Ids : life'[x] = "unborn" <=> life[x] = "unborn"
        /\ \A x \in Ids : life'[x] = "dead" <=> life[x] = "dead"
    BY <1>1
  <1>3. TypeOK'
    <2>1. ServerOK'
      BY <1>0, <1>2, TypeParts DEF ServerOK
    <2>2. WireOK' /\ TablesOK' /\ started' \in BOOLEAN
      BY <1>0, TypeParts DEF WireOK, TablesOK
    <2> QED
      BY <2>1, <2>2, NextTypeParts
  <1>4. Unseen' /\ DeathsTrue'
    BY <1>0, <1>2 DEF Unseen, DeathsTrue, In, InNet, At, Carries
  <1>5. KindsKept' /\ OneOwn' /\ Deaf'
    BY <1>0 DEF KindsKept, OneOwn, Deaf
  <1>6. \A x \in Ids : Kind[x] = "shot" => Shooter[x] \in Ids
    BY DEF Message
  <1>7. OneShipEach' /\ Fired'
    BY <1>2, <1>6 DEF OneShipEach, Fired, Lives, Ships, Of
  <1>8. ASSUME InStep PROVE InStep'
    <2> USE <1>8 DEF InStep
    <2>1. Reached'
      BY <1>0, <1>2 DEF Reached, Lives, Awaited, InNet, At, In
    <2>2. SnapshotsFull'
      BY <1>0, <1>2 DEF SnapshotsFull, Lives, Ships, Of, At
    <2>3. AllBuried'
      BY <1>0, <1>2 DEF AllBuried, Buried, At, In, InNet
    <2>4. LatestLast'
      <3>1. NoLookAlike' => NoLookAlike
        BY <1>2, LookAlikesStay
      <3> QED
        BY <1>0, <1>2, <3>1 DEF LatestLast, Latest, Lives, At, In, InNet, Mine
    <2>5. SidesTold'
      BY <1>0, <1>2, <1>6 DEF SidesTold, SideTold, Hostile, Lives, At
    <2> QED
      BY <1>0, <2>1, <2>2, <2>3, <2>4, <2>5 DEF InStep
  <1> QED
    BY <1>0, <1>3, <1>4, <1>5, <1>7, <1>8

\* A kill is announced in the queue, behind everything that was said of the dead.
LEMMA KillKeeps ==
    ASSUME ReplicaIInv, NEW e \in Ids, Kill(e)
    PROVE  ReplicaIInv'
  <1> USE DEF ReplicaIInv, Always
  <1>0. /\ net' = net /\ faults' = faults /\ started' = started /\ known' = known /\ enemyShot' = enemyShot
        /\ moving' = moving /\ integrated' = integrated /\ stale' = stale /\ own' = own
        /\ localShips' = localShips /\ udp' = udp /\ shots' = shots /\ spawns' = spawns /\ phase' = phase
    BY DEF Kill, client, tables
  <1>1. /\ life \in [Ids -> {"unborn", "alive", "marked", "dead"}] /\ destroys \in Seq(Ids)
        /\ life[e] = "alive" /\ life' = [life EXCEPT ![e] = "dead"] /\ destroys' = Append(destroys, e)
    BY DEF TypeOK, Kill
  <1>2. /\ life' \in [Ids -> {"unborn", "alive", "marked", "dead"}]
        /\ life'[e] = "dead" /\ \A x \in Ids : x # e => life'[x] = life[x]
        /\ \A x \in Ids : life'[x] \in {"alive", "marked"} => life[x] \in {"alive", "marked"}
        /\ \A x \in Ids : life'[x] = "unborn" <=> life[x] = "unborn"
        /\ \A x \in Ids : life[x] = "dead" => life'[x] = "dead"
    BY <1>1
  <1>3. destroys' \in Seq(Ids) /\ \A x : In(destroys', x) <=> In(destroys, x) \/ x = e
    <2>1. \A x : In(destroys', x) <=> In(destroys, x) \/ x = e
      BY <1>1, Added, Zenon
    <2> QED
      BY <1>1, <2>1
  <1>4. TypeOK'
    <2>1. ServerOK'
      BY <1>0, <1>2, <1>3, TypeParts DEF ServerOK
    <2>2. WireOK' /\ TablesOK' /\ started' \in BOOLEAN
      BY <1>0, TypeParts DEF WireOK, TablesOK
    <2> QED
      BY <2>1, <2>2, NextTypeParts
  <1>5. Unseen'
    <2> SUFFICES ASSUME NEW x \in Ids, life'[x] = "unborn"
                 PROVE  /\ x \notin known /\ ~In(spawns, x) /\ ~In(destroys', x) /\ ~In(shots, x)
                        /\ \A i \in DOMAIN net : net[i].type # "snapshot" => net[i].id # x
      BY <1>0 DEF Unseen, In
    <2> QED
      BY <1>2, <1>3 DEF Unseen
  <1>6. DeathsTrue'
    <2> SUFFICES ASSUME NEW x \in Ids, In(destroys', x) \/ InNet("destroy", x)
                 PROVE  life'[x] = "dead"
      BY <1>0 DEF DeathsTrue, In, InNet, At, Carries
    <2> QED
      BY <1>2, <1>3 DEF DeathsTrue
  <1>7. KindsKept' /\ OneOwn' /\ Deaf'
    BY <1>0 DEF KindsKept, OneOwn, Deaf
  <1>8. \A x \in Ids : Kind[x] = "shot" => Shooter[x] \in Ids
    BY DEF Message
  <1>9. OneShipEach' /\ Fired'
    BY <1>2, <1>8 DEF OneShipEach, Fired, Lives, Ships, Of
  <1>10. ASSUME InStep PROVE InStep'
    <2> USE <1>10 DEF InStep
    <2>1. Reached'
      BY <1>0, <1>2 DEF Reached, Lives, Awaited, InNet, At, In
    <2>2. SnapshotsFull'
      BY <1>0, <1>2 DEF SnapshotsFull, Lives, Ships, Of, At
    <2>3. AllBuried'
      <3> SUFFICES ASSUME NEW x \in Ids, life'[x] = "dead", Kind[x] # "shot"
                   PROVE  \/ In(destroys', x)
                          \/ /\ x \in known => InNet("destroy", x)
                             /\ \A i \in DOMAIN net : Carries(net[i], "spawn", x) =>
                                   \E j \in DOMAIN net : i < j /\ Carries(net[j], "destroy", x)
                             /\ ~In(spawns, x)
        BY <1>0 DEF AllBuried, Buried, At, In, InNet
      <3>1. CASE x # e
        <4>1. Buried(x)
          BY <1>2, <3>1 DEF AllBuried
        <4> QED
          BY <1>3, <4>1 DEF Buried, At
      <3> QED
        BY <1>3, <3>1
    <2>4. LatestLast'
      <3>1. NoLookAlike' => NoLookAlike
        BY <1>2, LookAlikesStay
      <3> QED
        BY <1>0, <1>2, <3>1 DEF LatestLast, Latest, Lives, At, In, InNet, Mine
    <2>5. SidesTold'
      BY <1>0, <1>2, <1>8 DEF SidesTold, SideTold, Hostile, Lives, At
    <2> QED
      BY <1>0, <2>1, <2>2, <2>3, <2>4, <2>5 DEF InStep
  <1> QED
    BY <1>0, <1>4, <1>5, <1>6, <1>7, <1>9, <1>10

\* The handshake queues what lives again; until then nothing was sent.
LEMMA HandshakeKeeps ==
    ASSUME ReplicaIInv, Handshake
    PROVE  ReplicaIInv'
  <1> USE DEF ReplicaIInv, Always
  <1> DEFINE R == {x \in Living : Kind[x] \in {"ship", "enemy", "shot"}}
  <1>0. /\ net' = net /\ faults' = faults /\ started' = started /\ known' = known /\ enemyShot' = enemyShot
        /\ moving' = moving /\ integrated' = integrated /\ stale' = stale /\ own' = own /\ life' = life
        /\ localShips' = localShips /\ shots' = shots /\ destroys' = destroys /\ phase' = phase
        /\ udp = "none" /\ udp' = "this" /\ spawns' = spawns \o SetToSeq(R)
    BY DEF Handshake, client, tables
  <1>1. IsFiniteSet(R) /\ R \subseteq Ids
    BY FS_Subset DEF Living
  <1>2. SetToSeq(R) \in Seq(Ids) /\ \A x : In(SetToSeq(R), x) <=> x \in R
    <2>1. SetToSeq(R) \in Seq(R) /\ \A x : In(SetToSeq(R), x) <=> x \in R
      BY <1>1, SetToSeqLists
    <2> QED
      BY <1>1, <2>1
  <1> DEFINE t == SetToSeq(R)
  <1>3. spawns \in Seq(Ids) /\ t \in Seq(Ids) /\ spawns' = spawns \o t
    BY <1>0, <1>2 DEF TypeOK
  <1>4. \A x : In(t, x) <=> x \in Ids /\ Lives(x) /\ Kind[x] \in {"ship", "enemy", "shot"}
    BY <1>2 DEF Lives, Living
  <1> HIDE DEF R, t
  <1>5. \A x : In(spawns', x) <=> In(spawns, x) \/ In(t, x)
    BY <1>3, Queued, Zenon
  <1>6. /\ spawns' \in Seq(Ids)
        /\ \A k \in DOMAIN spawns' :
              \/ k \in DOMAIN spawns /\ spawns'[k] = spawns[k]
              \/ In(t, spawns'[k]) /\ k \notin DOMAIN spawns
        /\ \A k, l \in DOMAIN spawns' : k < l /\ l \in DOMAIN spawns => k \in DOMAIN spawns
    BY <1>3, Queued
  <1>7. net = <<>> /\ DOMAIN net = {} /\ known = {}
    BY <1>0 DEF Deaf
  <1>8. TypeOK'
    <2>1. ServerOK'
      BY <1>0, <1>6, TypeParts DEF ServerOK
    <2>2. WireOK' /\ TablesOK' /\ started' \in BOOLEAN
      BY <1>0, TypeParts DEF WireOK, TablesOK
    <2> QED
      BY <2>1, <2>2, NextTypeParts
  <1>9. Unseen'
    <2> SUFFICES ASSUME NEW x \in Ids, life[x] = "unborn"
                 PROVE  /\ x \notin known /\ ~In(spawns', x) /\ ~In(destroys, x) /\ ~In(shots, x)
                        /\ \A i \in DOMAIN net : net[i].type # "snapshot" => net[i].id # x
      BY <1>0 DEF Unseen, In
    <2> QED
      BY <1>4, <1>5 DEF Unseen, Lives
  <1>10. DeathsTrue' /\ KindsKept' /\ OneOwn' /\ Deaf' /\ OneShipEach' /\ Fired'
    BY <1>0 DEF DeathsTrue, KindsKept, OneOwn, Deaf, OneShipEach, Fired, In, InNet, At, Lives
  <1>11. ASSUME InStep PROVE InStep'
    <2> USE <1>11 DEF InStep
    <2>1. Reached'
      <3> SUFFICES ASSUME NEW x \in Ids, Lives(x), Awaited(x) PROVE In(spawns', x)
        BY <1>0 DEF Reached, Lives, Awaited, In
      <3> QED
        BY <1>4, <1>5 DEF Awaited
    <2>2. SnapshotsFull'
      BY <1>0, <1>7 DEF SnapshotsFull
    <2>3. AllBuried'
      <3> SUFFICES ASSUME NEW x \in Ids, life[x] = "dead", Kind[x] # "shot", In(spawns', x)
                   PROVE  In(destroys, x)
        BY <1>0, <1>7 DEF AllBuried, Buried, At, In, InNet
      <3> QED
        BY <1>4, <1>5 DEF AllBuried, Buried, Lives
    <2>4. LatestLast'
      <3> SUFFICES ASSUME NoLookAlike, NEW x \in Ids, Lives(x), Mine(x)
                   PROVE  \A k, l \in DOMAIN spawns' :
                              k < l /\ spawns'[k] = x /\ Mine(spawns'[l]) => spawns'[l] = x
        BY <1>0, <1>7 DEF LatestLast, NoLookAlike, Latest, At, InNet, Lives, Mine
      <3> SUFFICES ASSUME NEW k \in DOMAIN spawns', NEW l \in DOMAIN spawns',
                          k < l, spawns'[k] = x, Mine(spawns'[l])
                   PROVE  spawns'[l] = x
        OBVIOUS
      <3>1. CASE In(t, spawns'[l])
        <4> DEFINE y == spawns'[l]
        <4>1. y \in Ids /\ Lives(y) /\ Mine(y) /\ y \in Ships /\ x \in Ships
          BY <1>4, <3>1 DEF Mine, Ships, Of
        <4>2. Pilot[x] = Me /\ Pilot[y] = Me
          BY <4>1 DEF NoLookAlike, Mine, Lives
        <4> HIDE DEF y
        <4>3. x = y
          BY <4>1, <4>2 DEF OneShipEach
        <4> QED
          BY <4>3 DEF y
      <3>2. CASE l \in DOMAIN spawns /\ spawns'[l] = spawns[l]
        <4>1. k \in DOMAIN spawns /\ spawns'[k] = spawns[k]
          BY <1>6, <3>2
        <4>2. Latest(x)
          BY DEF LatestLast
        <4> QED
          BY <3>2, <4>1, <4>2 DEF Latest
      <3> QED
        BY <1>6, <3>1, <3>2
    <2>5. SidesTold'
      BY <1>0, <1>7 DEF SidesTold, SideTold, At
    <2> QED
      BY <1>0, <2>1, <2>2, <2>3, <2>4, <2>5 DEF InStep
  <1> QED
    BY <1>0, <1>8, <1>9, <1>10, <1>11

------------------------------------------------------------------------------
(* Replication: the client's steps                                         *)

\* The tables by themselves: their types, kinds and the own ship
Tabled ==
    /\ TablesOK /\ OneOwn
    /\ \A e \in moving : Kind[e] \in {"shot", "bonus"}
    /\ \A e \in known : Kind[e] = "enemy" => e \in integrated
    /\ \A e \in enemyShot : Kind[e] = "shot" => Kind[Shooter[e]] = "enemy"

\* Entering an entity in the tables.
LEMMA SpawnedTables ==
    ASSUME Tabled, NEW e \in Ids,
           known' = known \cup {e}, stale' = [stale EXCEPT ![e] = 0],
           own' = IF LooksMine(e) \/ e = own THEN e ELSE own,
           localShips' = IF LooksMine(e) \/ e = own THEN (localShips \ {own}) \cup {e} ELSE localShips \ {e},
           integrated' = IF ~(LooksMine(e) \/ e = own) /\ Kind[e] # "wall"
                         THEN integrated \cup {e} ELSE integrated \ {e},
           \/ enemyShot' = enemyShot \ {e}
           \/ enemyShot' = enemyShot \cup {e} /\ (Kind[e] = "shot" => Kind[Shooter[e]] = "enemy"),
           \/ moving' = moving
           \/ moving' = moving \cup {e} /\ Kind[e] \in {"shot", "bonus"}
    PROVE  Tabled'
  <1> USE DEF Tabled
  <1>1. TablesOK'
    <2>1. stale' \in [Ids -> 0..Threshold]
      BY DEF TablesOK
    <2>2. own' \in known' \cup {None} /\ localShips' \subseteq known' /\ integrated' \subseteq known'
      BY DEF TablesOK
    <2>3. enemyShot' \subseteq known' /\ moving' \subseteq known' /\ known' \subseteq Ids
      BY DEF TablesOK
    <2> QED
      BY <2>1, <2>2, <2>3 DEF TablesOK
  <1>2. OneOwn'
    <2>1. CASE LooksMine(e) \/ e = own
      <3>1. own' = e /\ localShips' = (localShips \ {own}) \cup {e} /\ LooksMine(e) /\ e # None
        BY <2>1 DEF OneOwn
      <3> QED
        BY <3>1 DEF OneOwn, LooksMine
    <2>2. CASE ~LooksMine(e) /\ e # own
      BY <2>2 DEF OneOwn, LooksMine
    <2> QED
      BY <2>1, <2>2
  <1>3. \A x \in known' : Kind[x] = "enemy" => x \in integrated'
    BY DEF OneOwn, LooksMine
  <1> QED
    BY <1>1, <1>2, <1>3

\* Taking entities out of all the tables.
LEMMA RemovedTables ==
    ASSUME Tabled, NEW gone,
           known' = known \ gone, enemyShot' = enemyShot \ gone, integrated' = integrated \ gone,
           localShips' = localShips \ gone, own' = IF own \in gone THEN None ELSE own,
           moving' \subseteq known', \A e \in moving' : Kind[e] \in {"shot", "bonus"},
           stale' \in [Ids -> 0..Threshold]
    PROVE  Tabled'
  <1> USE DEF Tabled
  <1>1. TablesOK'
    <2>1. own' \in known' \cup {None} /\ localShips' \subseteq known' /\ integrated' \subseteq known'
      BY DEF TablesOK
    <2>2. enemyShot' \subseteq known' /\ known' \subseteq Ids
      BY DEF TablesOK
    <2> QED
      BY <2>1, <2>2 DEF TablesOK
  <1>2. OneOwn'
    BY DEF OneOwn, LooksMine
  <1> QED
    BY <1>1, <1>2

LEMMA TabledParts ==
    /\ TypeOK /\ OneOwn /\ KindsKept => Tabled
    /\ Tabled' => TablesOK' /\ OneOwn'
  BY TypeParts DEF Tabled, KindsKept

\* What a snapshot takes out of the tables: neither enemies nor what it holds.
LEMMA SnapshotShape ==
    ASSUME Tabled, NEW ids \in SUBSET Ids, OnSnapshot(ids)
    PROVE  \E gone \in SUBSET known :
              /\ known' = known \ gone /\ enemyShot' = enemyShot \ gone /\ integrated' = integrated \ gone
              /\ localShips' = localShips \ gone /\ own' = IF own \in gone THEN None ELSE own
              /\ moving' \subseteq known' /\ \A e \in moving' : Kind[e] \in {"shot", "bonus"}
              /\ stale' \in [Ids -> 0..Threshold]
              /\ \A e \in gone : e \notin ids /\ Kind[e] # "enemy"
  <1> USE DEF Tabled
  <1> DEFINE missing == Overdue(ids)
             gone == {e \in missing : stale[e] >= Threshold}
  <1>1. missing \subseteq known /\ \A e \in missing : e \notin ids /\ e \notin integrated
    BY DEF Overdue
  <1>2. /\ known' = known \ gone /\ enemyShot' = enemyShot \ gone /\ integrated' = integrated \ gone
        /\ localShips' = localShips \ gone /\ own' = IF own \in gone THEN None ELSE own
        /\ moving' = (moving \cup (ids \cap known \cap Of("shot"))) \ gone
        /\ stale' = [e \in Ids |-> IF e \in gone THEN 0
                                   ELSE IF e \in missing THEN stale[e] + 1 ELSE stale[e]]
    BY DEF OnSnapshot
  <1> HIDE DEF missing
  <1>3. stale' \in [Ids -> 0..Threshold]
    <2>1. \A e \in Ids : stale[e] \in 0..Threshold
      BY DEF TablesOK
    <2>2. \A e \in missing : e \notin gone => stale[e] < Threshold
      BY <1>1, <2>1 DEF TablesOK
    <2> HIDE DEF gone
    <2> QED
      BY <1>2, <2>1, <2>2
  <1>4. moving' \subseteq known' /\ \A e \in moving' : Kind[e] \in {"shot", "bonus"}
    BY <1>2 DEF TablesOK, Of
  <1>5. gone \in SUBSET known /\ \A e \in gone : e \notin ids /\ Kind[e] # "enemy"
    BY <1>1
  <1> HIDE DEF gone
  <1> QED
    BY <1>2, <1>3, <1>4, <1>5

LEMMA HandleCases ==
    ASSUME NEW m \in Message, Handle(m)
    PROVE  \/ m.type = "spawn" /\ m.id \in Ids /\ OnSpawn(m.id)
           \/ m.type = "shot" /\ m.id \in Ids /\ OnShot(m.id)
           \/ m.type = "destroy" /\ m.id \in Ids /\ OnDestroy(m.id)
           \/ m.type = "snapshot" /\ m.ids \in SUBSET Ids /\ OnSnapshot(m.ids)
  <1>1. \/ m.type = "spawn" /\ m.id \in Ids
        \/ m.type = "shot" /\ m.id \in Ids
        \/ m.type = "destroy" /\ m.id \in Ids
        \/ m.type = "snapshot" /\ m.ids \in SUBSET Ids
    BY MessageShape
  <1> QED
    BY <1>1, Zenon DEF Handle

\* What handling a message does to the tables.
LEMMA HandleTables ==
    ASSUME Tabled, NEW m \in Message, Handle(m), m.type = "shot" => Kind[m.id] = "shot"
    PROVE  /\ Tabled'
           /\ \A x \in known' : x \in known \/ Carries(m, "spawn", x) \/ Carries(m, "shot", x)
  <1>1. CASE m.type = "spawn" /\ m.id \in Ids /\ OnSpawn(m.id)
    <2>1. known' = known \cup {m.id}
      BY <1>1 DEF OnSpawn, Spawned
    <2>2. Tabled'
      BY <1>1, SpawnedTables DEF OnSpawn, Spawned
    <2> QED
      BY <1>1, <2>1, <2>2 DEF Carries
  <1>2. CASE m.type = "shot" /\ m.id \in Ids /\ OnShot(m.id)
    <2>1. known' = known \cup {m.id}
      BY <1>2 DEF OnShot, Spawned
    <2>2. Tabled'
      BY <1>2, SpawnedTables DEF OnShot, Spawned
    <2> QED
      BY <1>2, <2>1, <2>2 DEF Carries
  <1>3. CASE m.type = "destroy" /\ m.id \in Ids /\ OnDestroy(m.id)
    <2>1. known' \subseteq known
      BY <1>3 DEF OnDestroy, Removed
    <2>2. stale' \in [Ids -> 0..Threshold]
      BY <1>3 DEF OnDestroy, Tabled, TablesOK
    <2>3. moving' \subseteq known' /\ moving' \subseteq moving
      BY <1>3 DEF OnDestroy, Removed, Tabled, TablesOK
    <2>4. Tabled'
      BY <1>3, <2>2, <2>3, RemovedTables DEF OnDestroy, Removed, Tabled
    <2> QED
      BY <2>1, <2>4
  <1>4. CASE m.type = "snapshot" /\ m.ids \in SUBSET Ids /\ OnSnapshot(m.ids)
    <2>1. PICK gone \in SUBSET known :
              /\ known' = known \ gone /\ enemyShot' = enemyShot \ gone /\ integrated' = integrated \ gone
              /\ localShips' = localShips \ gone /\ own' = IF own \in gone THEN None ELSE own
              /\ moving' \subseteq known' /\ \A e \in moving' : Kind[e] \in {"shot", "bonus"}
              /\ stale' \in [Ids -> 0..Threshold]
      BY <1>4, SnapshotShape
    <2>2. Tabled'
      BY <2>1, RemovedTables
    <2> QED
      BY <2>1, <2>2
  <1> QED
    BY <1>1, <1>2, <1>3, <1>4, HandleCases

\* ... and what it leaves alone: living enemies, ships when snapshots hold them,
\* the ship announced last, the sides of the other shots.
LEMMA HandleEffects ==
    ASSUME Tabled, NEW m \in Message, Handle(m), NEW x \in Ids,
           m.type = "shot" => Kind[m.id] = "shot"
    PROVE  /\ Carries(m, "spawn", x) => x \in known'
           /\ Carries(m, "destroy", x) => x \notin known'
           /\ x \in known => \/ x \in known'
                             \/ Carries(m, "destroy", x)
                             \/ m.type = "snapshot" /\ x \notin m.ids /\ Kind[x] # "enemy"
           /\ Carries(m, "spawn", x) /\ LooksMine(x) => own' = x
           /\ /\ x \in known' /\ own = x /\ Kind[x] = "ship"
              /\ m.type = "spawn" /\ Mine(m.id) => m.id = x
              => own' = x
           /\ x \in known' /\ x \in enemyShot /\ ~Carries(m, "spawn", x) /\ ~Carries(m, "shot", x)
              => x \in enemyShot'
           /\ /\ \/ Carries(m, "spawn", x)
                 \/ Carries(m, "shot", x) /\ Shooter[x] \in known
              /\ Kind[x] = "shot" /\ Kind[Shooter[x]] = "enemy"
              => x \in enemyShot'
  <1>0. OneOwn
    BY DEF Tabled
  <1>1. CASE m.type = "spawn" /\ m.id \in Ids /\ OnSpawn(m.id)
    <2>1. /\ known' = known \cup {m.id}
          /\ own' = IF LooksMine(m.id) \/ m.id = own THEN m.id ELSE own
      BY <1>1 DEF OnSpawn, Spawned
    <2>2. /\ x # m.id /\ x \in enemyShot => x \in enemyShot'
          /\ x = m.id /\ Kind[x] = "shot" /\ Kind[Shooter[x]] = "enemy" => x \in enemyShot'
      BY <1>1 DEF OnSpawn, Spawned
    <2>3. LooksMine(m.id) => Mine(m.id)
      BY DEF LooksMine, Mine
    <2> QED
      BY <1>1, <2>1, <2>2, <2>3 DEF Carries
  <1>2. CASE m.type = "shot" /\ m.id \in Ids /\ OnShot(m.id)
    <2>1. /\ known' = known \cup {m.id}
          /\ own' = IF LooksMine(m.id) \/ m.id = own THEN m.id ELSE own
      BY <1>2 DEF OnShot, Spawned
    <2>2. /\ x # m.id /\ x \in enemyShot => x \in enemyShot'
          /\ x = m.id /\ Shooter[x] \in known /\ Kind[Shooter[x]] = "enemy" => x \in enemyShot'
      BY <1>2 DEF OnShot, Spawned
    <2>3. ~LooksMine(m.id)
      BY <1>2 DEF LooksMine
    <2> QED
      BY <1>2, <2>1, <2>2, <2>3 DEF Carries
  <1>3. CASE m.type = "destroy" /\ m.id \in Ids /\ OnDestroy(m.id)
    <2>1. /\ known' = known \ {m.id}
          /\ enemyShot' = enemyShot \ ({m.id} \cap known)
          /\ own' = IF own \in {m.id} \cap known THEN None ELSE own
      BY <1>3 DEF OnDestroy, Removed
    <2> QED
      BY <1>3, <2>1 DEF Carries
  <1>4. CASE m.type = "snapshot" /\ m.ids \in SUBSET Ids /\ OnSnapshot(m.ids)
    <2>1. PICK gone \in SUBSET known :
              /\ known' = known \ gone /\ enemyShot' = enemyShot \ gone
              /\ own' = IF own \in gone THEN None ELSE own
              /\ \A e \in gone : e \notin m.ids /\ Kind[e] # "enemy"
      BY <1>4, SnapshotShape
    <2> QED
      BY <1>4, <2>1 DEF Carries
  <1> QED
    BY <1>1, <1>2, <1>3, <1>4, HandleCases

\* What is left under way when a message has been taken out.
LEMMA Taken ==
    ASSUME NEW n \in Seq(Message), NEW i \in 1..Len(n), NEW w, w = RemoveAt(n, i)
    PROVE  /\ w \in Seq(Message) /\ n[i] \in Message /\ i \in DOMAIN n
           /\ \A j \in DOMAIN w : \E k \in DOMAIN n : w[j] = n[k]
           /\ i = 1 => /\ \A j \in DOMAIN w : j \in Nat /\ 1 < j + 1 /\ j + 1 \in DOMAIN n /\ w[j] = n[j + 1]
                       /\ \A k \in DOMAIN n : k = 1 \/ (k - 1 \in DOMAIN w /\ w[k - 1] = n[k] /\ 1 < k)
                       /\ \A k \in DOMAIN n : k \in Nat
  <1> DEFINE l == Len(n)
             s == SubSeq(n, 1, i - 1)
             t == SubSeq(n, i + 1, l)
  <1>1. l \in Nat /\ i \in Nat /\ 1 <= i /\ i <= l /\ DOMAIN n = 1..l /\ \A k \in 1..l : n[k] \in Message
    OBVIOUS
  <1>2. /\ s \in Seq(Message) /\ Len(s) = i - 1 /\ \A k \in 1..(i - 1) : s[k] = n[k]
    BY <1>1
  <1>3. /\ t \in Seq(Message) /\ Len(t) = l - i /\ \A k \in 1..(l - i) : t[k] = n[i + k]
    <2>1. t \in Seq(Message)
      BY <1>1
    <2>2. Len(t) = l - i
      <3>1. Len(t) = IF i + 1 <= l THEN l - (i + 1) + 1 ELSE 0
        BY <1>1, SubSeqProperties
      <3>2. l \in Nat /\ i \in Nat /\ i <= l
        BY <1>1
      <3>3. (IF i + 1 <= l THEN l - (i + 1) + 1 ELSE 0) = l - i
        BY <3>2
      <3> QED
        BY <3>1, <3>2
    <2>3. \A k \in 1..(l - i) : t[k] = n[(i + 1) + k - 1]
      BY <1>1
    <2>4. \A k \in 1..(l - i) : (i + 1) + k - 1 = i + k
      BY <1>1
    <2> QED
      BY <2>1, <2>2, <2>3, <2>4
  <1> HIDE DEF l, s, t
  <1>4. w = s \o t
    BY DEF RemoveAt, l, s, t
  <1>5. /\ w \in Seq(Message) /\ Len(w) = l - 1 /\ DOMAIN w = 1..(l - 1)
        /\ \A j \in 1..(l - 1) : w[j] = IF j < i THEN n[j] ELSE n[j + 1]
    <2>1. w \in Seq(Message) /\ Len(w) = (i - 1) + (l - i)
      <3>1. s \in Seq(Message) /\ t \in Seq(Message) /\ Len(s) = i - 1 /\ Len(t) = l - i
        BY <1>2, <1>3
      <3>2. \A q, r \in Seq(Message) : q \o r \in Seq(Message) /\ Len(q \o r) = Len(q) + Len(r)
        OBVIOUS
      <3> QED
        BY <1>4, <3>1, <3>2, Zenon
    <2>2. Len(w) = l - 1 /\ DOMAIN w = 1..(l - 1)
      BY <1>1, <2>1
    <2>3. ASSUME NEW j \in 1..(l - 1) PROVE w[j] = IF j < i THEN n[j] ELSE n[j + 1]
      <3>1. CASE j < i
        <4>1. j \in 1..(i - 1) /\ w[j] = s[j]
          BY <1>1, <1>2, <1>3, <1>4, <3>1
        <4> QED
          BY <1>2, <3>1, <4>1
      <3>2. CASE ~(j < i)
        <4>1. j - (i - 1) \in 1..(l - i) /\ i + (j - (i - 1)) = j + 1
          BY <1>1, <3>2
        <4>2. w[j] = t[j - (i - 1)]
          BY <1>1, <1>2, <1>3, <1>4, <3>2
        <4>3. t[j - (i - 1)] = n[i + (j - (i - 1))]
          BY <1>3, <4>1
        <4> QED
          BY <3>2, <4>1, <4>2, <4>3
      <3> QED
        BY <3>1, <3>2
    <2> QED
      BY <2>1, <2>2, <2>3
  <1>6. \A j \in DOMAIN w : j \in 1..l /\ j + 1 \in 1..l
    BY <1>1, <1>5
  <1>7. \A j \in DOMAIN w : \E k \in DOMAIN n : w[j] = n[k]
    BY <1>1, <1>5, <1>6
  <1>8. ASSUME i = 1
        PROVE  /\ \A j \in DOMAIN w : j \in Nat /\ 1 < j + 1 /\ j + 1 \in DOMAIN n /\ w[j] = n[j + 1]
               /\ \A k \in DOMAIN n : k = 1 \/ (k - 1 \in DOMAIN w /\ w[k - 1] = n[k] /\ 1 < k)
               /\ \A k \in DOMAIN n : k \in Nat
    <2>1. \A j \in DOMAIN w : j \in Nat /\ 1 < j + 1 /\ j + 1 \in DOMAIN n /\ w[j] = n[j + 1]
      BY <1>1, <1>5, <1>8
    <2>2. \A k \in DOMAIN n : k = 1 \/ (k - 1 \in DOMAIN w /\ (k - 1) + 1 = k /\ 1 < k)
      BY <1>1, <1>5
    <2> QED
      BY <1>1, <2>1, <2>2
  <1> QED
    BY <1>1, <1>5, <1>7, <1>8

\* A step that takes one message out of the network, or none, and keeps the
\* tables in order, keeps what holds always.
LEMMA ClientAlways ==
    ASSUME Always, Tabled', started' \in BOOLEAN, faults' \in 0..MaxFaults, UNCHANGED server,
           net' \in Seq(Message), \A j \in DOMAIN net' : \E k \in DOMAIN net : net'[j] = net[k],
           \A x \in known' : x \in known \/ \E k \in DOMAIN net : net[k].type # "snapshot" /\ net[k].id = x
    PROVE  Always'
  <1> USE DEF Always
  <1>0. /\ phase' = phase /\ life' = life /\ spawns' = spawns /\ destroys' = destroys
        /\ shots' = shots /\ udp' = udp
    BY DEF server, queues
  <1>1. TypeOK'
    <2>1. ServerOK'
      BY <1>0, TypeParts DEF ServerOK
    <2>2. WireOK'
      BY DEF WireOK
    <2> QED
      BY <2>1, <2>2, NextTypeParts, TabledParts
  <1>2. Unseen'
    BY <1>0 DEF Unseen, In
  <1>3. DeathsTrue'
    BY <1>0 DEF DeathsTrue, In, InNet, At, Carries
  <1>4. KindsKept' /\ OneOwn'
    BY <1>0 DEF KindsKept, Tabled
  <1>5. Deaf'
    <2> SUFFICES ASSUME udp = "none" PROVE net' = <<>> /\ known' = {}
      BY <1>0 DEF Deaf
    <2>1. net = <<>> /\ DOMAIN net = {} /\ known = {}
      BY DEF Deaf
    <2>2. DOMAIN net' = {} /\ known' = {}
      BY <2>1
    <2> QED
      BY <2>2
  <1>6. OneShipEach' /\ Fired'
    BY <1>0 DEF OneShipEach, Fired, Lives
  <1> QED
    BY <1>1, <1>2, <1>3, <1>4, <1>5, <1>6

\* The first message under way is handled: what it was awaited for has come true.
LEMMA ReceiveInStep ==
    ASSUME Always, InStep, Receive(1), started
    PROVE  InStep'
  <1> USE DEF Always, InStep
  <1> DEFINE m == net[1]
  <1>0. /\ 1 \in 1..Len(net) /\ Handle(m) /\ net' = RemoveAt(net, 1)
        /\ life' = life /\ spawns' = spawns /\ destroys' = destroys /\ shots' = shots
        /\ udp' = udp /\ started' = started
    BY DEF Receive, server, queues
  <1>1. /\ m \in Message /\ 1 \in DOMAIN net
        /\ \A j \in DOMAIN net' : j \in Nat /\ 1 < j + 1 /\ j + 1 \in DOMAIN net /\ net'[j] = net[j + 1]
        /\ \A k \in DOMAIN net : k = 1 \/ (k - 1 \in DOMAIN net' /\ net'[k - 1] = net[k] /\ 1 < k)
        /\ \A k \in DOMAIN net : k \in Nat
    <2>1. net \in Seq(Message)
      BY DEF TypeOK
    <2> QED
      BY <1>0, <2>1, Taken
  <1>2. Tabled /\ (m.type = "shot" => Kind[m.id] = "shot")
    BY <1>1, TabledParts DEF KindsKept
  <1>3. \A x \in known' : x \in known \/ Carries(m, "spawn", x) \/ Carries(m, "shot", x)
    BY <1>0, <1>1, <1>2, HandleTables
  <1> HIDE DEF m
  <1>4. \A x \in Ids :
           /\ Carries(m, "spawn", x) => x \in known'
           /\ Carries(m, "destroy", x) => x \notin known'
           /\ x \in known => \/ x \in known'
                             \/ Carries(m, "destroy", x)
                             \/ m.type = "snapshot" /\ x \notin m.ids /\ Kind[x] # "enemy"
           /\ Carries(m, "spawn", x) /\ LooksMine(x) => own' = x
           /\ /\ x \in known' /\ own = x /\ Kind[x] = "ship"
              /\ m.type = "spawn" /\ Mine(m.id) => m.id = x
              => own' = x
           /\ x \in known' /\ x \in enemyShot /\ ~Carries(m, "spawn", x) /\ ~Carries(m, "shot", x)
              => x \in enemyShot'
           /\ /\ \/ Carries(m, "spawn", x)
                 \/ Carries(m, "shot", x) /\ Shooter[x] \in known
              /\ Kind[x] = "shot" /\ Kind[Shooter[x]] = "enemy"
              => x \in enemyShot'
    BY <1>0, <1>1, <1>2, HandleEffects
  <1>5. \A t, x : At(1, t, x) <=> Carries(m, t, x)
    BY DEF At, m
  <1>6. \A x \in Ids : Lives(x) => ~Carries(m, "destroy", x)
    <2>1. \A x \in Ids : Carries(m, "destroy", x) => InNet("destroy", x)
      BY <1>1 DEF InNet, At, m
    <2> QED
      BY <2>1 DEF DeathsTrue, Lives
  \* what is left of a message of a type about an entity
  <1>7. \A t, x : InNet(t, x) => Carries(m, t, x) \/ \E j \in DOMAIN net' : Carries(net'[j], t, x)
    BY <1>1 DEF InNet, At, m
  <1>8. \A x \in Ids : Lives(x) /\ Awaited(x) /\ x \in known => x \in known'
    <2> SUFFICES ASSUME NEW x \in Ids, Lives(x), Awaited(x), x \in known,
                        m.type = "snapshot", x \notin m.ids, Kind[x] # "enemy"
                 PROVE  FALSE
      BY <1>4, <1>6
    <2>1. ShipsFit /\ x \in Ships
      BY DEF Awaited, Ships, Of
    <2> QED
      BY <1>1, <2>1 DEF SnapshotsFull, m
  <1>9. Reached'
    <2> SUFFICES ASSUME NEW x \in Ids, Lives(x), Awaited(x), udp # "none"
                 PROVE  x \in known' \/ (\E j \in DOMAIN net' : Carries(net'[j], "spawn", x)) \/ In(spawns, x)
      BY <1>0 DEF Reached, Lives, InNet, At, In, Awaited
    <2>1. x \in known \/ InNet("spawn", x) \/ In(spawns, x)
      BY DEF Reached
    <2> QED
      BY <1>4, <1>7, <1>8, <2>1
  <1>10. SnapshotsFull'
    <2> SUFFICES ASSUME ShipsFit, NEW x \in Ships, NEW i \in DOMAIN net',
                        Lives(x), net'[i].type = "snapshot", x \notin net'[i].ids
                 PROVE  /\ x \notin known'
                        /\ \A j \in DOMAIN net' : j < i => ~Carries(net'[j], "spawn", x)
      BY <1>0 DEF SnapshotsFull, Lives, At
    <2>1. x \in Ids /\ Kind[x] = "ship"
      BY DEF Ships, Of
    <2>2. /\ i + 1 \in DOMAIN net /\ net[i + 1] = net'[i] /\ 1 < i + 1
      BY <1>1
    <2>3. x \notin known /\ \A j \in DOMAIN net : j < i + 1 => ~At(j, "spawn", x)
      BY <2>2 DEF SnapshotsFull
    <2>4. ~Carries(m, "spawn", x)
      BY <1>1, <1>5, <2>2, <2>3
    <2>5. ~Carries(m, "shot", x)
      BY <1>2, <2>1 DEF Carries
    <2>6. \A j \in DOMAIN net' : j < i => ~Carries(net'[j], "spawn", x)
      BY <1>1, <2>3 DEF At
    <2> QED
      BY <1>3, <2>3, <2>4, <2>5, <2>6
  <1>11. AllBuried'
    <2> SUFFICES ASSUME NEW x \in Ids, life[x] = "dead", Kind[x] # "shot"
                 PROVE  /\ x \in known' => In(destroys, x) \/ \E j \in DOMAIN net' : Carries(net'[j], "destroy", x)
                        /\ \A i \in DOMAIN net' : Carries(net'[i], "spawn", x) =>
                              In(destroys, x) \/ \E j \in DOMAIN net' : i < j /\ Carries(net'[j], "destroy", x)
                        /\ In(spawns, x) => In(destroys, x)
      BY <1>0 DEF AllBuried, Buried, At, In, InNet
    <2>1. Buried(x)
      BY DEF AllBuried
    <2>2. ASSUME x \in known', ~In(destroys, x)
          PROVE  \E j \in DOMAIN net' : Carries(net'[j], "destroy", x)
      <3>1. CASE x \in known
        <4>1. InNet("destroy", x)
          BY <2>1, <2>2, <3>1 DEF Buried
        <4> QED
          BY <1>4, <1>7, <2>2, <4>1
      <3>2. CASE Carries(m, "spawn", x)
        <4>1. PICK j \in DOMAIN net : 1 < j /\ At(j, "destroy", x)
          BY <1>1, <1>5, <2>1, <2>2, <3>2 DEF Buried
        <4> QED
          BY <1>1, <4>1 DEF At
      <3>3. ~Carries(m, "shot", x)
        BY <1>2 DEF Carries
      <3> QED
        BY <1>3, <2>2, <3>1, <3>2, <3>3
    <2>3. ASSUME NEW i \in DOMAIN net', Carries(net'[i], "spawn", x), ~In(destroys, x)
          PROVE  \E j \in DOMAIN net' : i < j /\ Carries(net'[j], "destroy", x)
      <3>1. i \in Nat /\ i + 1 \in DOMAIN net /\ At(i + 1, "spawn", x)
        BY <1>1, <2>3 DEF At
      <3>2. PICK j \in DOMAIN net : i + 1 < j /\ At(j, "destroy", x)
        BY <2>1, <2>3, <3>1 DEF Buried
      <3>3. j \in Nat /\ j - 1 \in DOMAIN net' /\ i < j - 1 /\ net'[j - 1] = net[j]
        BY <1>1, <3>1, <3>2
      <3> QED
        BY <3>2, <3>3 DEF At
    <2> QED
      BY <2>1, <2>2, <2>3 DEF Buried
  <1>12. LatestLast'
    <2> SUFFICES ASSUME NoLookAlike, NEW x \in Ids, Lives(x), Mine(x)
                 PROVE  /\ \A i, j \in DOMAIN net' : i < j /\ Carries(net'[i], "spawn", x)
                              /\ net'[j].type = "spawn" /\ Mine(net'[j].id) => net'[j].id = x
                        /\ x \in known' \/ (\E i \in DOMAIN net' : Carries(net'[i], "spawn", x)) =>
                              \A k \in DOMAIN spawns : Mine(spawns[k]) => spawns[k] = x
                        /\ x \in known' =>
                              /\ own' = x
                              /\ \A j \in DOMAIN net' : net'[j].type = "spawn" /\ Mine(net'[j].id) => net'[j].id = x
                        /\ \A k, l \in DOMAIN spawns : k < l /\ spawns[k] = x /\ Mine(spawns[l]) => spawns[l] = x
      BY <1>0 DEF LatestLast, NoLookAlike, Latest, Lives, At, InNet, Mine
    <2>1. Latest(x)
      BY DEF LatestLast
    <2>2. ~Carries(m, "shot", x) /\ Kind[x] = "ship" /\ LooksMine(x)
      BY <1>2 DEF Carries, Mine
    <2>3. ASSUME NEW i \in DOMAIN net', NEW j \in DOMAIN net', i < j, Carries(net'[i], "spawn", x),
                 net'[j].type = "spawn", Mine(net'[j].id)
          PROVE  net'[j].id = x
      <3>1. /\ i + 1 \in DOMAIN net /\ j + 1 \in DOMAIN net /\ i + 1 < j + 1
            /\ net[i + 1] = net'[i] /\ net[j + 1] = net'[j]
        BY <1>1, <2>3
      <3> QED
        BY <2>1, <2>3, <3>1 DEF Latest, At
    <2>4. x \in known' \/ (\E i \in DOMAIN net' : Carries(net'[i], "spawn", x)) => x \in known \/ InNet("spawn", x)
      <3>1. Carries(m, "spawn", x) => InNet("spawn", x)
        BY <1>1, <1>5 DEF InNet
      <3>2. (\E i \in DOMAIN net' : Carries(net'[i], "spawn", x)) => InNet("spawn", x)
        BY <1>1 DEF InNet, At
      <3> QED
        BY <1>3, <2>2, <3>1, <3>2
    <2>5. ASSUME x \in known'
          PROVE  /\ own' = x
                 /\ \A j \in DOMAIN net' : net'[j].type = "spawn" /\ Mine(net'[j].id) => net'[j].id = x
      <3>1. CASE x \in known
        <4>1. own = x /\ \A j \in DOMAIN net : net[j].type = "spawn" /\ Mine(net[j].id) => net[j].id = x
          BY <2>1, <3>1 DEF Latest
        <4>2. m.type = "spawn" /\ Mine(m.id) => m.id = x
          BY <1>1, <4>1 DEF m
        <4>3. own' = x
          BY <1>4, <2>2, <2>5, <4>1, <4>2
        <4> QED
          BY <1>1, <4>1, <4>3
      <3>2. CASE Carries(m, "spawn", x)
        <4>1. own' = x
          BY <1>4, <2>2, <3>2
        <4>2. \A j \in DOMAIN net : 1 < j /\ net[j].type = "spawn" /\ Mine(net[j].id) => net[j].id = x
          BY <1>1, <1>5, <2>1, <3>2 DEF Latest
        <4>3. \A j \in DOMAIN net' : 1 < j + 1
          BY <1>1, <1>5
        <4> QED
          BY <1>1, <4>1, <4>2, <4>3
      <3> QED
        BY <1>3, <2>2, <2>5, <3>1, <3>2
    <2> QED
      BY <2>1, <2>3, <2>4, <2>5 DEF Latest
  <1>13. SidesTold'
    <2> SUFFICES ASSUME NEW x \in Ids, Kind[x] = "shot", Kind[Shooter[x]] = "enemy", Lives(Shooter[x])
                 PROVE  /\ x \in known' => x \in enemyShot'
                        /\ \A i \in DOMAIN net' : Carries(net'[i], "shot", x) =>
                              \/ Shooter[x] \in known'
                              \/ \E j \in DOMAIN net' : j < i /\ Carries(net'[j], "spawn", Shooter[x])
      BY <1>0 DEF SidesTold, SideTold, Hostile, Lives, At
    <2>1. SideTold(x)
      BY DEF SidesTold, Hostile
    <2>2. Shooter[x] \in Ids /\ (Shooter[x] \in known => Shooter[x] \in known')
      <3>1. Shooter[x] \in Ids
        BY DEF Message
      <3> QED
        BY <1>8, <3>1 DEF Awaited
    <2>3. Carries(m, "shot", x) => Shooter[x] \in known
      <3>1. \A j \in DOMAIN net : ~(j < 1)
        BY DEF TypeOK
      <3> QED
        BY <1>1, <1>5, <2>1, <3>1 DEF SideTold
    <2>4. ASSUME x \in known' PROVE x \in enemyShot'
      <3>1. CASE Carries(m, "spawn", x) \/ Carries(m, "shot", x)
        BY <1>4, <2>3, <3>1
      <3>2. CASE ~Carries(m, "spawn", x) /\ ~Carries(m, "shot", x)
        <4>1. x \in enemyShot
          BY <1>3, <2>1, <2>4, <3>2 DEF SideTold
        <4> QED
          BY <1>4, <2>4, <3>2, <4>1
      <3> QED
        BY <3>1, <3>2
    <2>5. ASSUME NEW i \in DOMAIN net', Carries(net'[i], "shot", x), Shooter[x] \notin known'
          PROVE  \E j \in DOMAIN net' : j < i /\ Carries(net'[j], "spawn", Shooter[x])
      <3>1. i \in Nat /\ i + 1 \in DOMAIN net /\ At(i + 1, "shot", x)
        BY <1>1, <2>5 DEF At
      <3>2. PICK j \in DOMAIN net : j < i + 1 /\ At(j, "spawn", Shooter[x])
        BY <2>1, <2>2, <2>5, <3>1 DEF SideTold
      <3>3. j # 1
        BY <1>4, <1>5, <2>2, <2>5, <3>2
      <3>4. j - 1 \in DOMAIN net' /\ j - 1 < i /\ net'[j - 1] = net[j]
        BY <1>1, <3>1, <3>2, <3>3
      <3> QED
        BY <3>2, <3>4 DEF At
    <2> QED
      BY <2>4, <2>5
  <1> QED
    BY <1>0, <1>9, <1>10, <1>11, <1>12, <1>13

LEMMA ReceiveKeeps ==
    ASSUME ReplicaIInv, NEW i \in 1..Len(net), Receive(i)
    PROVE  ReplicaIInv'
  <1> USE DEF ReplicaIInv
  <1>1. /\ Handle(net[i]) /\ net' = RemoveAt(net, i) /\ UNCHANGED server /\ started' = started
        /\ faults' = (IF i = 1 /\ started THEN faults ELSE faults + 1) /\ faults' <= MaxFaults
    BY DEF Receive
  <1>2. net \in Seq(Message) /\ faults \in 0..MaxFaults /\ started \in BOOLEAN
    BY DEF Always, TypeOK
  <1>3. /\ net' \in Seq(Message) /\ net[i] \in Message /\ i \in DOMAIN net
        /\ \A j \in DOMAIN net' : \E k \in DOMAIN net : net'[j] = net[k]
    BY <1>1, <1>2, Taken
  <1>4. Tabled /\ (net[i].type = "shot" => Kind[net[i].id] = "shot")
    BY <1>3, TabledParts DEF Always, KindsKept
  <1>5. /\ Tabled'
        /\ \A x \in known' : x \in known \/ Carries(net[i], "spawn", x) \/ Carries(net[i], "shot", x)
    BY <1>1, <1>3, <1>4, HandleTables
  <1>6. \A x \in known' : x \in known \/ \E k \in DOMAIN net : net[k].type # "snapshot" /\ net[k].id = x
    BY <1>3, <1>5 DEF Carries
  <1>7. faults' \in 0..MaxFaults /\ (faults' = 0 => faults = 0 /\ i = 1 /\ started)
    <2>1. faults' = faults \/ faults' = faults + 1
      BY <1>1
    <2>2. faults \in Nat /\ (faults' # faults + 1 => i = 1 /\ started)
      BY <1>1, <1>2
    <2> QED
      BY <1>1, <1>2, <2>1, <2>2
  <1>8. started' \in BOOLEAN
    BY <1>1, <1>2
  <1>9. Always'
    BY <1>1, <1>3, <1>5, <1>6, <1>7, <1>8, ClientAlways
  <1>10. faults' = 0 => InStep'
    BY <1>7, ReceiveInStep
  <1> QED
    BY <1>9, <1>10

LEMMA LoseKeeps ==
    ASSUME ReplicaIInv, NEW i \in 1..Len(net), Lose(i)
    PROVE  ReplicaIInv'
  <1> USE DEF ReplicaIInv
  <1>1. /\ net' = RemoveAt(net, i) /\ UNCHANGED server /\ started' = started
        /\ known' = known /\ enemyShot' = enemyShot /\ moving' = moving /\ integrated' = integrated
        /\ stale' = stale /\ own' = own /\ localShips' = localShips
        /\ faults' = faults + 1 /\ faults < MaxFaults
    BY DEF Lose, client, tables
  <1>2. net \in Seq(Message) /\ faults \in 0..MaxFaults /\ started \in BOOLEAN
    BY DEF Always, TypeOK
  <1>3. /\ net' \in Seq(Message) /\ i \in DOMAIN net
        /\ \A j \in DOMAIN net' : \E k \in DOMAIN net : net'[j] = net[k]
    BY <1>1, <1>2, Taken
  <1>4. Tabled'
    <2>1. Tabled
      BY TabledParts DEF Always
    <2> QED
      BY <1>1, <2>1 DEF Tabled, TablesOK, OneOwn
  <1>5. faults' \in 0..MaxFaults /\ faults' # 0
    BY <1>1, <1>2
  <1>6. started' \in BOOLEAN
    BY <1>1, <1>2
  <1>7. \A x \in known' : x \in known
    BY <1>1
  <1>8. Always'
    BY <1>1, <1>3, <1>4, <1>5, <1>6, <1>7, ClientAlways
  <1> QED
    BY <1>5, <1>8

\* Only shots and bonuses fly out of the screen.
LEMMA FlyOutKeeps ==
    ASSUME ReplicaIInv, NEW e \in Ids, FlyOut(e)
    PROVE  ReplicaIInv'
  <1> USE DEF ReplicaIInv
  <1>1. /\ UNCHANGED server /\ net' = net /\ faults' = faults /\ started' = started
        /\ life' = life /\ spawns' = spawns /\ destroys' = destroys /\ udp' = udp
        /\ e \in moving /\ stale' = [stale EXCEPT ![e] = 0]
        /\ known' = known \ {e} /\ enemyShot' = enemyShot \ {e} /\ moving' = moving \ {e}
        /\ integrated' = integrated \ {e} /\ localShips' = localShips \ {e}
        /\ own' = IF own \in {e} THEN None ELSE own
    BY DEF FlyOut, Removed, server, queues
  <1>2. net \in Seq(Message) /\ faults \in 0..MaxFaults /\ started \in BOOLEAN
    BY DEF Always, TypeOK
  <1>3. Tabled /\ Kind[e] \in {"shot", "bonus"}
    BY <1>1, TabledParts DEF Always, KindsKept
  <1>4. Tabled'
    <2>1. stale' \in [Ids -> 0..Threshold] /\ moving' \subseteq known'
      BY <1>1, <1>3 DEF Tabled, TablesOK
    <2>2. \A x \in moving' : Kind[x] \in {"shot", "bonus"}
      BY <1>1, <1>3 DEF Tabled
    <2> QED
      BY <1>1, <1>3, <2>1, <2>2, RemovedTables
  <1>5. Always'
    <2>1. \A x \in known' : x \in known
      BY <1>1
    <2>2. started' \in BOOLEAN /\ faults' \in 0..MaxFaults /\ net' \in Seq(Message)
      BY <1>1, <1>2
    <2>3. \A j \in DOMAIN net' : \E k \in DOMAIN net : net'[j] = net[k]
      BY <1>1
    <2> QED
      BY <1>1, <1>4, <2>1, <2>2, <2>3, ClientAlways
  <1>6. ASSUME InStep PROVE InStep'
    <2> USE <1>6 DEF InStep
    <2>1. /\ \A x \in Ids : Kind[x] \in {"ship", "enemy"} => (x \in known <=> x \in known')
          /\ \A x \in Ids : Kind[x] = "ship" /\ own = x => own' = x
          /\ \A x : x \in known' => x \in known
      BY <1>1, <1>3
    <2>2. (~started => known = {}) => (~started' => known' = {})
      BY <1>1
    <2>3. Reached'
      BY <1>1, <2>1 DEF Reached, Lives, Awaited, InNet, At, In
    <2>4. SnapshotsFull'
      BY <1>1, <2>1 DEF SnapshotsFull, Lives, At
    <2>5. AllBuried'
      BY <1>1, <2>1 DEF AllBuried, Buried, InNet, At, In
    <2>6. LatestLast'
      <3> SUFFICES ASSUME NoLookAlike, NEW x \in Ids, Lives(x), Mine(x)
                   PROVE  /\ x \in known' <=> x \in known
                          /\ Latest(x)
                          /\ x \in known' /\ own = x => own' = x
        BY <1>1 DEF LatestLast, NoLookAlike, Latest, Lives, At, InNet, Mine
      <3> QED
        BY <2>1 DEF LatestLast, Mine
    <2>7. SidesTold'
      <3> SUFFICES ASSUME NEW x \in Ids, Hostile(x)
                   PROVE  /\ x \in known' => x \in enemyShot'
                          /\ \A i \in DOMAIN net : At(i, "shot", x) =>
                                Shooter[x] \in known' \/ \E j \in DOMAIN net : j < i /\ At(j, "spawn", Shooter[x])
        BY <1>1 DEF SidesTold, SideTold, Hostile, Lives, At
      <3>1. SideTold(x)
        BY DEF SidesTold
      <3>2. Shooter[x] \in known => Shooter[x] \in known'
        BY <1>1, <1>3 DEF Hostile
      <3> QED
        BY <1>1, <3>1, <3>2 DEF SideTold
    <2> QED
      BY <2>2, <2>3, <2>4, <2>5, <2>6, <2>7
  <1> QED
    BY <1>1, <1>5, <1>6

\* The client forgets everything, and knows nothing if all goes in turn.
LEMMA GameStartKeeps ==
    ASSUME ReplicaIInv, GameStart
    PROVE  ReplicaIInv'
  <1> USE DEF ReplicaIInv
  <1>1. /\ UNCHANGED server /\ net' = net /\ faults' = faults /\ ~started /\ started' = TRUE
        /\ life' = life /\ spawns' = spawns /\ destroys' = destroys /\ udp' = udp
        /\ known' = {} /\ enemyShot' = {} /\ moving' = {} /\ integrated' = {} /\ localShips' = {}
        /\ stale' = [e \in Ids |-> 0] /\ own' = None
    BY DEF GameStart, server, queues
  <1>2. net \in Seq(Message) /\ faults \in 0..MaxFaults
    BY DEF Always, TypeOK
  <1>3. Tabled'
    <2>1. stale' \in [Ids -> 0..Threshold]
      BY <1>1
    <2>2. TablesOK'
      BY <1>1, <2>1 DEF TablesOK
    <2> QED
      BY <1>1, <2>2 DEF Tabled, OneOwn
  <1>4. Always'
    <2>1. \A x \in known' : x \in known
      BY <1>1
    <2>2. faults' \in 0..MaxFaults /\ net' \in Seq(Message)
      BY <1>1, <1>2
    <2>3. \A j \in DOMAIN net' : \E k \in DOMAIN net : net'[j] = net[k]
      BY <1>1
    <2>4. started' \in BOOLEAN
      BY <1>1
    <2> QED
      BY <1>1, <1>3, <2>1, <2>2, <2>3, <2>4, ClientAlways
  <1>5. ASSUME InStep PROVE InStep'
    <2> USE <1>5 DEF InStep
    <2>1. known = {} /\ known' = known
      BY <1>1
    <2>2. Reached'
      BY <1>1, <2>1 DEF Reached, Lives, Awaited, InNet, At, In
    <2>3. SnapshotsFull'
      BY <1>1, <2>1 DEF SnapshotsFull, Lives, At
    <2>4. AllBuried'
      BY <1>1, <2>1 DEF AllBuried, Buried, InNet, At, In
    <2>5. LatestLast'
      BY <1>1, <2>1 DEF LatestLast, NoLookAlike, Latest, Lives, At, InNet, Mine
    <2>6. SidesTold'
      BY <1>1, <2>1 DEF SidesTold, SideTold, Hostile, Lives, At
    <2> QED
      BY <1>1, <2>1, <2>2, <2>3, <2>4, <2>5, <2>6
  <1> QED
    BY <1>1, <1>4, <1>5

------------------------------------------------------------------------------
(* Replication: the theorems                                               *)

LEMMA ReplicaStep == ReplicaIInv /\ [Next]_vars => ReplicaIInv'
  <1> SUFFICES ASSUME ReplicaIInv, [Next]_vars PROVE ReplicaIInv'
    OBVIOUS
  <1>1. CASE UNCHANGED vars
    <2>1. /\ UNCHANGED <<phase, life, spawns, destroys, shots, udp, net, faults, started>>
          /\ UNCHANGED <<known, enemyShot, moving, integrated, stale, own, localShips>>
      BY <1>1 DEF vars, server, queues, client, tables
    <2>2. Always'
      <3>1. TypeOK'
        BY <2>1, Zenon DEF ReplicaIInv, Always, TypeOK
      <3>2. Unseen' /\ DeathsTrue' /\ KindsKept' /\ OneOwn' /\ Deaf' /\ OneShipEach' /\ Fired'
        BY <2>1 DEF ReplicaIInv, Always, Unseen, DeathsTrue, KindsKept, OneOwn, Deaf, OneShipEach, Fired,
                    In, InNet, At, Lives
      <3> QED
        BY <3>1, <3>2 DEF Always
    <2>3. InStep => InStep'
      BY <2>1 DEF InStep, Reached, SnapshotsFull, AllBuried, Buried, LatestLast, NoLookAlike, Latest,
                  SidesTold, SideTold, Hostile, Lives, In, InNet, At
    <2> QED
      BY <2>1, <2>2, <2>3 DEF ReplicaIInv
  <1>2. CASE ServerStep
    <2>1. PICK A, C, D : Flush(A, C, D)
      BY <1>2, ServerFlushes DEF ReplicaIInv, Always
    <2>2. phase' \in {"early", "late"}
      BY <1>2 DEF ServerStep, SendSnapshot, NetworkUpdate, Broadcast
    <2>3. faults' = faults
      BY <2>1 DEF Flush
    <2> QED
      BY <2>1, <2>2, <2>3, FlushAlways, FlushInStep DEF ReplicaIInv
  <1>3. CASE Handshake
    BY <1>3, HandshakeKeeps
  <1>4. CASE GameStart
    BY <1>4, GameStartKeeps
  <1>5. CASE \E e \in Ids : Spawn(e) \/ Shoot(e) \/ Mark(e) \/ Kill(e) \/ FlyOut(e)
    BY <1>5, SpawnKeeps, ShootKeeps, MarkKeeps, KillKeeps, FlyOutKeeps
  <1>6. CASE \E i \in 1..Len(net) : Receive(i) \/ Lose(i)
    BY <1>6, ReceiveKeeps, LoseKeeps
  <1> QED
    BY <1>1, <1>2, <1>3, <1>4, <1>5, <1>6 DEF Next

LEMMA ReplicaInvariant == Spec => []ReplicaIInv
  BY ReplicaInit, ReplicaStep, PTL DEF Spec

\* The queues, the messages under way and the client's tables keep their types,
\* whatever is lost or overtaken.
THEOREM ReplicaTypeCorrect == Spec => []TypeOK
  <1>1. ReplicaIInv => TypeOK
    BY DEF ReplicaIInv, Always
  <1> QED
    BY <1>1, ReplicaInvariant, PTL

\* What a client shows when nothing is under way, for any number of entities
\* and any interleaving of their lives with the flushes of the server, if a
\* snapshot has room for the ships; the enemies need no such room.
THEOREM ReplicaSettledInStep ==
    ASSUME ShipsFit
    PROVE  Spec => []SettledInStep
  <1>1. ReplicaIInv => SettledInStep
    <2> SUFFICES ASSUME ReplicaIInv, Settled
                 PROVE  /\ \A e \in Living : Kind[e] \in {"ship", "enemy"} => e \in known
                        /\ \A e \in known \ Living : Kind[e] = "shot"
      BY DEF SettledInStep
    <2>1. /\ InStep /\ Always /\ udp # "none"
          /\ spawns = <<>> /\ destroys = <<>> /\ net = <<>>
          /\ DOMAIN spawns = {} /\ DOMAIN destroys = {} /\ DOMAIN net = {}
      BY DEF Settled, queues, ReplicaIInv
    <2>2. \A e \in Living : Kind[e] \in {"ship", "enemy"} => e \in known
      BY <2>1 DEF InStep, Reached, Awaited, Living, Lives, In, InNet
    <2>3. ASSUME NEW e \in known \ Living, Kind[e] # "shot" PROVE FALSE
      <3>1. e \in Ids /\ life[e] \in {"unborn", "dead"}
        BY <2>1 DEF Always, TypeOK, Living
      <3>2. life[e] = "dead"
        BY <2>1, <3>1 DEF Always, Unseen
      <3> QED
        BY <2>1, <2>3, <3>1, <3>2 DEF InStep, AllBuried, Buried, In, InNet
    <2> QED
      BY <2>2, <2>3
  <1> QED
    BY <1>1, ReplicaInvariant, PTL

\* The LocalPlayer component is on one ship at most, whatever is lost; in step with
\* the server it is a living one that looks like the client's, and the client's
\* own before a look-alike has come up, if a snapshot has room for the ships.
THEOREM ReplicaOwnShipFollowed ==
    ASSUME ShipsFit
    PROVE  Spec => []OwnShipFollowed
  <1>1. ReplicaIInv => OwnShipFollowed
    <2> SUFFICES ASSUME ReplicaIInv PROVE OwnShipFollowed
      OBVIOUS
    <2>1. localShips = {own} \ {None} /\ (own # None => own \in Ids /\ LooksMine(own))
      BY DEF ReplicaIInv, Always, OneOwn
    <2>2. ASSUME Settled
          PROVE  /\ localShips \subseteq {e \in Living : LooksMine(e)}
                 /\ NoLookAlike => localShips = {e \in Living : Kind[e] = "ship" /\ Pilot[e] = Me}
      <3>1. /\ InStep /\ Always /\ udp # "none"
            /\ spawns = <<>> /\ destroys = <<>> /\ net = <<>>
            /\ DOMAIN spawns = {} /\ DOMAIN destroys = {} /\ DOMAIN net = {}
        BY <2>2 DEF Settled, queues, ReplicaIInv
      <3>2. ASSUME NoLookAlike, NEW e \in Living, Kind[e] = "ship", Pilot[e] = Me
            PROVE  own = e /\ e # None
        <4>1. e \in Ids /\ Lives(e) /\ Mine(e)
          BY <3>2 DEF Living, Lives, Mine, LooksMine
        <4>2. e \in known
          BY <3>1, <3>2, <4>1 DEF InStep, Reached, Awaited, In, InNet
        <4>3. own = e
          BY <3>1, <3>2, <4>1, <4>2 DEF InStep, LatestLast, Latest
        <4> QED
          BY <4>1, <4>3
      <3>3. ASSUME own # None
            PROVE  own \in Living /\ Kind[own] = "ship" /\ LooksMine(own)
        <4>1. own \in Ids /\ Kind[own] = "ship" /\ own \in known
          BY <2>1, <3>1, <3>3 DEF LooksMine, Always, TypeOK
        <4>2. own \in Living
          <5>1. life[own] # "unborn"
            BY <3>1, <4>1 DEF Always, Unseen
          <5>2. life[own] # "dead"
            BY <3>1, <4>1 DEF InStep, AllBuried, Buried, In, InNet
          <5> QED
            BY <3>1, <4>1, <5>1, <5>2 DEF Always, TypeOK, Living
        <4> QED
          BY <2>1, <3>3, <4>1, <4>2
      <3>4. ASSUME NoLookAlike, own # None
            PROVE  Pilot[own] = Me
        BY <3>3, <3>4 DEF NoLookAlike, Ships, Of, Living
      <3> QED
        BY <2>1, <3>2, <3>3, <3>4
    <2> QED
      BY <2>1, <2>2 DEF OwnShipFollowed
  <1> QED
    BY <1>1, ReplicaInvariant, PTL

\* The shots a client shows are on the right side while their enemies live,
\* although an owner and its shot come by different queues.
THEOREM ReplicaSidesRight == Spec => []SidesRight
  <1>1. ReplicaIInv => SidesRight
    <2> SUFFICES ASSUME ReplicaIInv, Settled, NEW e \in known \cap Living, Kind[e] = "shot",
                        life[Shooter[e]] # "dead"
                 PROVE  e \in enemyShot <=> Kind[Shooter[e]] = "enemy"
      BY DEF SidesRight
    <2>1. InStep /\ Always
      BY DEF Settled, ReplicaIInv
    <2>2. e \in Ids /\ Shooter[e] \in Ids /\ life[e] # "unborn"
      BY DEF Living, Message
    <2>3. Lives(Shooter[e])
      <3>1. life[Shooter[e]] # "unborn"
        BY <2>1, <2>2 DEF Always, Fired
      <3> QED
        BY <2>1, <2>2, <3>1 DEF Always, TypeOK, Lives
    <2>4. Kind[Shooter[e]] = "enemy" => e \in enemyShot
      BY <2>1, <2>2, <2>3 DEF InStep, SidesTold, SideTold, Hostile
    <2>5. e \in enemyShot => Kind[Shooter[e]] = "enemy"
      BY <2>1 DEF Always, KindsKept
    <2> QED
      BY <2>4, <2>5
  <1> QED
    BY <1>1, ReplicaInvariant, PTL
==============================================================================
