----------------------------- MODULE GcProofs -----------------------------
(***************************************************************************)
(* The collector, for every set of objects, whatever the program, the      *)
(* finalizers and the callbacks do between two steps of a collection.      *)
(*                                                                         *)
(* First the partition by itself: PartitionInv is inductive, and at the    *)
(* end of the walk it says that what stays is what the roots lead to.      *)
(* Then the collection: CIInv is inductive.  Its heart is Sealed: what is  *)
(* discarded is referred to only from what is discarded with it, so that   *)
(* nobody gets there again.                                                *)
(***************************************************************************)
EXTENDS Collector, GcPartition, FiniteSetTheorems, SequenceTheorems, TLAPS

(* Children are what visits lead to. *)
LEMMA ChildrenDef ==
    ASSUME NEW E \in SUBSET (Nodes \X Nodes), NEW o \in Nodes
    PROVE  /\ Children(E, o) \subseteq Nodes
           /\ \A x \in Nodes : x \in Children(E, o) <=> <<o, x>> \in E
  BY DEF Children

(* Counts that are left after the subtraction are natural numbers. *)
LEMMA SubtractedType ==
    ASSUME NEW E \in SUBSET (Nodes \X Nodes), NEW count \in [Nodes -> Nat], NEW o \in Nodes
    PROVE  Subtracted(Nodes, E, count, o) \in Nat
<1> DEFINE from == { e \in E : e[2] = o /\ e[1] \in Nodes }
<1>1. IsFiniteSet(Nodes \X Nodes)
  BY NodesAssumption, FS_Product
<1>2. IsFiniteSet(from)
  BY <1>1, FS_Subset
<1>3. Cardinality(from) \in Nat
  BY <1>2, FS_CardinalityType
<1>4. InDegree(Nodes, E, o) \in Nat
  BY <1>3 DEF InDegree
<1>5. count[o] \in Nat
  OBVIOUS
<1> HIDE DEF from
<1> QED
  BY <1>4, <1>5 DEF Subtracted

LEMMA FloatedType ==
    ASSUME NEW E, NEW r \in [Nodes -> Nat], NEW running, NEW static
    PROVE  Floated(E, r, running, static) \in [Nodes -> Nat]
  BY DEF Floated

-----------------------------------------------------------------------------

LEMMA InitPartition == PartitionInit => PartitionInv
<1> SUFFICES ASSUME PartitionInit PROVE PartitionInv
  OBVIOUS
<1>1. visits \subseteq Nodes \X Nodes
  BY DEF PartitionInit
<1>2. refs \in [Nodes -> Nat]
  <2>1. PICK count \in [Nodes -> 0 .. MaxCount], running \in SUBSET Nodes, static \in SUBSET Nodes :
            refs = Floated(visits, [o \in Nodes |-> Subtracted(Nodes, visits, count, o)],
                           running, static)
    BY DEF PartitionInit
  <2>2. count \in [Nodes -> Nat]
    OBVIOUS
  <2>3. [o \in Nodes |-> Subtracted(Nodes, visits, count, o)] \in [Nodes -> Nat]
    BY <1>1, <2>2, SubtractedType
  <2> QED
    BY <2>1, <2>3, FloatedType
<1>3. PartitionTypeOK
  BY <1>1, <1>2 DEF PartitionInit, PartitionTypeOK
<1>4. SurvivorsClosed
  BY DEF PartitionInit, SurvivorsClosed
<1>5. OnlyHeldSurvives
  BY DEF PartitionInit, OnlyHeldSurvives
<1> QED
  BY <1>3, <1>4, <1>5 DEF PartitionInv

(* Keeping a node keeps the invariant: what it visits is floated, so it is *)
(* on the young list with a count, and whatever is closed around the seeds *)
(* holds the node and so what it visits.                                   *)
LEMMA KeepPartition ==
    ASSUME PartitionInv, NEW o \in Nodes, Keep(o)
    PROVE  PartitionInv'
<1> DEFINE kids == Children(visits, o) \ reachable
<1>1. /\ PartitionTypeOK /\ SurvivorsClosed /\ OnlyHeldSurvives
      /\ visits \in SUBSET (Nodes \X Nodes)
  BY DEF PartitionInv, PartitionTypeOK
<1>2. /\ o \in young /\ refs[o] > 0
      /\ young' = (young \cup kids) \ {o}
      /\ unreachable' = unreachable \ kids
      /\ refs' = [x \in Nodes |-> IF x \in kids /\ (x \in unreachable \/ refs[x] = 0)
                                THEN 1 ELSE refs[x]]
      /\ reachable' = reachable \cup {o}
      /\ visits' = visits /\ seeds' = seeds
  BY DEF Keep
<1>3. kids \subseteq Nodes /\ \A x \in Nodes : x \in kids <=> <<o, x>> \in visits /\ x \notin reachable
  BY <1>1, ChildrenDef
<1> HIDE DEF kids
<1>4. PartitionTypeOK'
  BY <1>1, <1>2, <1>3 DEF PartitionTypeOK
<1>5. \A x \in Nodes : /\ refs[x] > 0 => refs'[x] > 0
                       /\ x \in kids => refs'[x] > 0
                       /\ x \notin kids => refs'[x] = refs[x]
  BY <1>1, <1>2 DEF PartitionTypeOK
<1>6. SurvivorsClosed'
  <2>1. ASSUME NEW e \in visits, e[1] \in reachable'
        PROVE  e[2] \in reachable' \/ (e[2] \in young' /\ refs'[e[2]] > 0)
    <3>1. e = <<e[1], e[2]>> /\ e[1] \in Nodes /\ e[2] \in Nodes
      BY <1>1
    <3>2. CASE e[1] = o
      <4>1. e[2] \in reachable \/ e[2] \in kids
        BY <1>3, <3>1, <3>2
      <4> QED
        BY <1>2, <1>5, <3>1, <4>1
    <3>3. CASE e[1] \in reachable
      <4>1. e[2] \in reachable \/ (e[2] \in young /\ refs[e[2]] > 0)
        BY <1>1, <3>3 DEF SurvivorsClosed
      <4> QED
        BY <1>2, <1>5, <3>1, <4>1
    <3> QED
      BY <1>2, <2>1, <3>2, <3>3
  <2>2. \A x \in unreachable' : refs'[x] = 0
    BY <1>1, <1>2, <1>5 DEF SurvivorsClosed, PartitionTypeOK
  <2>3. seeds' \subseteq reachable' \cup { x \in young' : refs'[x] > 0 }
    BY <1>1, <1>2, <1>5 DEF SurvivorsClosed, PartitionTypeOK
  <2> QED
    BY <1>2, <2>1, <2>2, <2>3 DEF SurvivorsClosed
<1>7. OnlyHeldSurvives'
  <2> SUFFICES ASSUME NEW T \in SUBSET Nodes, seeds \subseteq T, Closed(visits, T),
                      NEW x \in reachable' \cup { y \in young' : refs'[y] > 0 }
               PROVE  x \in T
    BY <1>2 DEF OnlyHeldSurvives
  <2>1. reachable \cup { y \in young : refs[y] > 0 } \subseteq T
    BY <1>1 DEF OnlyHeldSurvives
  <2>2. o \in T
    BY <1>2, <2>1
  <2>3. kids \subseteq T
    BY <1>3, <2>2 DEF Closed
  <2>4. CASE x \in reachable'
    BY <1>2, <2>1, <2>2, <2>4
  <2>5. CASE x \in young' /\ refs'[x] > 0
    BY <1>1, <1>2, <1>5, <2>1, <2>3, <2>5 DEF PartitionTypeOK
  <2> QED
    BY <2>4, <2>5
<1> QED
  BY <1>4, <1>6, <1>7 DEF PartitionInv

(* Setting a node aside keeps it: no survivor visits a node without count. *)
LEMMA SetAsidePartition ==
    ASSUME PartitionInv, NEW o \in Nodes, SetAside(o)
    PROVE  PartitionInv'
<1>1. /\ PartitionTypeOK /\ SurvivorsClosed /\ OnlyHeldSurvives
  BY DEF PartitionInv
<1>2. /\ o \in young /\ refs[o] = 0
      /\ young' = young \ {o} /\ unreachable' = unreachable \cup {o}
      /\ visits' = visits /\ seeds' = seeds /\ refs' = refs /\ reachable' = reachable
  BY DEF SetAside
<1>3. PartitionTypeOK'
  BY <1>1, <1>2 DEF PartitionTypeOK
<1>4. SurvivorsClosed'
  BY <1>1, <1>2 DEF SurvivorsClosed, PartitionTypeOK
<1>5. OnlyHeldSurvives'
  BY <1>1, <1>2 DEF OnlyHeldSurvives
<1> QED
  BY <1>3, <1>4, <1>5 DEF PartitionInv

LEMMA NextPartition == PartitionInv /\ [Walk]_walkVars => PartitionInv'
<1>1. ASSUME PartitionInv, Walk PROVE PartitionInv'
  BY <1>1, KeepPartition, SetAsidePartition DEF Walk
<1>2. ASSUME PartitionInv, UNCHANGED walkVars PROVE PartitionInv'
  BY <1>2 DEF PartitionInv, PartitionTypeOK, SurvivorsClosed, OnlyHeldSurvives, walkVars
<1> QED
  BY <1>1, <1>2

(* reachable.go:33-58: at every node of the walk the lists are a partition *)
(* of the candidates, no survivor visits what is put aside for good, and   *)
(* only what the roots lead to survives.                                   *)
THEOREM PartitionInvariant == PartitionSpec => []PartitionInv
  BY InitPartition, NextPartition, PTL DEF PartitionSpec

(* The invariant, once nothing is left to walk, is reachability. *)
LEMMA WalkedIsReachability == PartitionInv => PartitionIsReachability
<1> SUFFICES ASSUME PartitionInv, young = {} PROVE reachable = Closure(Nodes, visits, seeds)
  BY DEF PartitionIsReachability
<1>1. /\ visits \cap (Nodes \X Nodes) = visits /\ seeds \cap Nodes = seeds
      /\ reachable \subseteq Nodes /\ seeds \subseteq reachable
  BY DEF PartitionInv, PartitionTypeOK, SurvivorsClosed
<1>2. Closed(visits, reachable)
  BY DEF PartitionInv, SurvivorsClosed, Closed
<1>3. \A T \in SUBSET Nodes : seeds \subseteq T /\ Closed(visits, T) => reachable \subseteq T
  BY DEF PartitionInv, OnlyHeldSurvives
<1> QED
  BY <1>1, <1>2, <1>3 DEF Closure

(* reachable.go:19-32: whatever the order of the list, what survives the   *)
(* walk is what the roots lead to, and what is put aside is the rest.      *)
THEOREM PartitionCorrect == PartitionSpec => []PartitionIsReachability
  BY PartitionInvariant, WalkedIsReachability, PTL
-----------------------------------------------------------------------------
(* The collector.                                                          *)

Discarded == OnList("still") \cup OnList("gone")

(* A list is used in its phase of the collection only.                     *)
ListsOK ==
    /\ phase # "finalize" => OnList("unreachable") = {}
    /\ phase # "clear" => OnList("still") = {}
    /\ phase \in {"idle", "start"} => pending = << >>

(* Whoever has the flags has been finalized, if it has a finalizer, and    *)
(* nobody is discarded without.                                            *)
FlagsOK ==
    /\ gcFinalized \subseteq hdrFinalized
    /\ \A o \in finalizable \cap hdrFinalized : ran[o] > 0
    /\ phase = "finalize" => OnList("unreachable") \subseteq todo \cup gcFinalized
    /\ finalizable \cap Discarded \subseteq hdrFinalized

(* The callback of a weak reference is queued or was called, once.         *)
CallbacksOK ==
    /\ \A i, j \in 1 .. Len(pending) : pending[i] = pending[j] => i = j
    /\ \A o \in Obj :
          fired[o] = IF weak[o] = "dead" /\ \A i \in 1 .. Len(pending) : pending[i] # o
                     THEN 1 ELSE 0
    /\ \A i \in 1 .. Len(pending) : weak[pending[i]] = "dead"

(* What is discarded is held by nobody, and referred to only from what is  *)
(* discarded with it.                                                      *)
Sealed ==
    /\ Roots \cap Discarded = {}
    /\ \A e \in edges : e[2] \in Discarded => e[1] \in Discarded

(* What is found to be garbage, and what is discarded, has no live weak    *)
(* reference.                                                              *)
WeakCut ==
    \A o \in OnList("unreachable") \cup Discarded : weak[o] # "live"

CIInv ==
    /\ CollectorTypeOK /\ ListsOK /\ FlagsOK /\ CallbacksOK
    /\ ~LateWeakrefs /\ FinalizedOnce => Sealed /\ WeakCut
-----------------------------------------------------------------------------

(* Closure is the least closed set. *)
LEMMA ClosureLeast ==
    ASSUME NEW C, NEW E, NEW S
    PROVE  /\ Closure(C, E, S) \subseteq C /\ S \cap C \subseteq Closure(C, E, S)
           /\ \A e \in E : e \in C \X C /\ e[1] \in Closure(C, E, S) => e[2] \in Closure(C, E, S)
           /\ \A T : S \cap C \subseteq T
                     /\ (\A e \in E : e \in C \X C /\ e[1] \in T => e[2] \in T)
                     => Closure(C, E, S) \subseteq T
  <1>1. Closure(C, E, S) \subseteq C /\ S \cap C \subseteq Closure(C, E, S)
    BY DEF Closure
  <1>2. ASSUME NEW e \in E, e \in C \X C, e[1] \in Closure(C, E, S)
        PROVE  e[2] \in Closure(C, E, S)
    <2>1. SUFFICES ASSUME NEW T \in SUBSET C, S \cap C \subseteq T, Closed(E \cap (C \X C), T)
                   PROVE  e[2] \in T
      BY <1>2 DEF Closure
    <2>2. e[1] \in T
      BY <1>2, <2>1 DEF Closure
    <2> QED BY <1>2, <2>1, <2>2 DEF Closed
  <1>3. ASSUME NEW T, S \cap C \subseteq T,
               \A e \in E : e \in C \X C /\ e[1] \in T => e[2] \in T
        PROVE  Closure(C, E, S) \subseteq T
    <2>1. Closed(E \cap (C \X C), T \cap C)
      BY <1>3 DEF Closed
    <2> QED BY <1>3, <2>1 DEF Closure
  <1> QED BY <1>1, <1>2, <1>3

(* What has no reference left is held by no frame and referred to by       *)
(* nobody.                                                                 *)
LEMMA RefcntZero ==
    ASSUME NEW H, NEW S, NEW E, E \subseteq Obj \X Obj, NEW o, Refcnt(H, S, E, o) = 0
    PROVE  o \notin H /\ o \notin S /\ \A e \in E : e[2] # o
  <1> DEFINE into == { e \in E : e[2] = o }
             a == {o} \cap H
             b == {o} \cap S
  <1>1. IsFiniteSet(into)
    <2>1. IsFiniteSet(Obj \X Obj)
      BY CollectorAssumption, FS_Product
    <2> QED BY <2>1, FS_Subset
  <1>2. IsFiniteSet({o}) /\ IsFiniteSet(a) /\ IsFiniteSet(b)
    <2>1. IsFiniteSet({o})
      BY FS_Singleton
    <2> QED BY <2>1, FS_Subset
  <1>3. Cardinality(into) \in Nat /\ Cardinality(a) \in Nat /\ Cardinality(b) \in Nat
    BY <1>1, <1>2, FS_CardinalityType
  <1>4. Cardinality(a) + Cardinality(b) + Cardinality(into) = 0
    BY DEF Refcnt
  <1> HIDE DEF into, a, b
  <1>5. Cardinality(a) = 0 /\ Cardinality(b) = 0 /\ Cardinality(into) = 0
    BY <1>3, <1>4
  <1>6. a = {} /\ b = {} /\ into = {}
    BY <1>1, <1>2, <1>5, FS_EmptySet
  <1> QED BY <1>6 DEF into, a, b

(* refs.go:1-10: the count that is left is that of frames and of objects   *)
(* outside.                                                                *)
LEMMA CountLeft ==
    ASSUME edges \subseteq Obj \X Obj, NEW C \in SUBSET Obj, NEW o \in C
    PROVE  Subtracted(C, edges, [x \in Obj |-> Refcnt(held, self, edges, x)], o) > 0
             <=> o \in Roots \/ \E e \in edges : e[1] \notin C /\ e[2] = o
  <1> DEFINE into == { e \in edges : e[2] = o }
             inner == { e \in edges : e[2] = o /\ e[1] \in C }
             a == {o} \cap held
             b == {o} \cap self
             count == [x \in Obj |-> Refcnt(held, self, edges, x)]
  <1>1. IsFiniteSet(into)
    <2>1. IsFiniteSet(Obj \X Obj)
      BY CollectorAssumption, FS_Product
    <2> QED BY <2>1, FS_Subset
  <1>2. IsFiniteSet({o}) /\ IsFiniteSet(a) /\ IsFiniteSet(b)
    <2>1. IsFiniteSet({o})
      BY FS_Singleton
    <2> QED BY <2>1, FS_Subset
  <1>3. inner \in SUBSET into
    OBVIOUS
  <1>4. /\ Cardinality(inner) <= Cardinality(into) /\ IsFiniteSet(inner)
        /\ Cardinality(inner) = Cardinality(into) => inner = into
    BY <1>1, <1>3, FS_Subset
  <1>5. /\ Cardinality(into) \in Nat /\ Cardinality(inner) \in Nat
        /\ Cardinality(a) \in Nat /\ Cardinality(b) \in Nat
    BY <1>1, <1>2, <1>4, FS_CardinalityType
  <1>6. (Cardinality(a) = 0 <=> a = {}) /\ (Cardinality(b) = 0 <=> b = {})
    BY <1>2, FS_EmptySet
  <1>7. count[o] = Cardinality(a) + Cardinality(b) + Cardinality(into)
    BY DEF Refcnt
  <1>8. InDegree(C, edges, o) = Cardinality(inner)
    BY DEF InDegree
  <1>9. (o \in Roots <=> a # {} \/ b # {})
        /\ ((\E e \in edges : e[1] \notin C /\ e[2] = o) <=> inner # into)
    BY DEF Roots
  <1> HIDE DEF into, inner, a, b, count
  <1>10. Subtracted(C, edges, count, o) > 0
           <=> Cardinality(a) + Cardinality(b) + Cardinality(into) > Cardinality(inner)
    BY <1>5, <1>7, <1>8 DEF Subtracted
  <1>11. inner = into => Cardinality(inner) = Cardinality(into)
    OBVIOUS
  <1>12. Cardinality(inner) = Cardinality(into) <=> inner = into
    BY <1>4, <1>11
  <1>13. Subtracted(C, edges, count, o) > 0
           <=> \/ Cardinality(a) # 0 \/ Cardinality(b) # 0
               \/ Cardinality(inner) # Cardinality(into)
    <2> DEFINE na == Cardinality(a)
               nb == Cardinality(b)
               ni == Cardinality(into)
               nn == Cardinality(inner)
    <2>1. na \in Nat /\ nb \in Nat /\ ni \in Nat /\ nn \in Nat /\ nn <= ni
      BY <1>4, <1>5
    <2>2. Subtracted(C, edges, count, o) > 0 <=> na + nb + ni > nn
      BY <1>10
    <2> HIDE DEF na, nb, ni, nn
    <2>3. Subtracted(C, edges, count, o) > 0 <=> na # 0 \/ nb # 0 \/ nn # ni
      BY <2>1, <2>2
    <2> QED BY <2>3 DEF na, nb, ni, nn
  <1> QED BY <1>6, <1>9, <1>12, <1>13 DEF count

(* The survivors are the closure of the candidates held from outside, so   *)
(* nothing that survives, and nothing outside, refers to what does not.    *)
LEMMA SurvivorsClosure ==
    ASSUME edges \subseteq Obj \X Obj, NEW C \in SUBSET Obj, NEW R \in SUBSET Roots
    PROVE  /\ Survivors(C, R) =
              Closure(C, edges,
                      Roots \cup { o \in C : \E e \in edges : e[1] \notin C /\ e[2] = o })
           /\ Survivors(C, R) \subseteq C /\ Roots \cap C \subseteq Survivors(C, R)
           /\ \A e \in edges : e[2] \in C \ Survivors(C, R) => e[1] \in C \ Survivors(C, R)
  <1> DEFINE count == [x \in Obj |-> Refcnt(held, self, edges, x)]
             left == { o \in C : Subtracted(C, edges, count, o) > 0 }
             outside == { o \in C : \E e \in edges : e[1] \notin C /\ e[2] = o }
  <1>1. left = (Roots \cap C) \cup outside
    BY CountLeft
  <1>2. Survivors(C, R) = Closure(C, edges, R \cup left)
    BY DEF Survivors
  <1> HIDE DEF count, left
  <1>3. (R \cup left) \cap C = (Roots \cup outside) \cap C
    BY <1>1
  <1>4. Survivors(C, R) = Closure(C, edges, Roots \cup outside)
    BY <1>2, <1>3 DEF Closure
  <1>5. ASSUME NEW e \in edges, e[2] \in C \ Survivors(C, R)
        PROVE  e[1] \in C \ Survivors(C, R)
    <2>1. e[1] \in C
      <3> SUFFICES ASSUME e[1] \notin C PROVE FALSE
        OBVIOUS
      <3>1. e[2] \in (Roots \cup outside) \cap C
        BY <1>5
      <3> QED BY <1>4, <1>5, <3>1, ClosureLeast
    <2>2. e \in C \X C
      BY <1>5, <2>1
    <2>3. e[1] \in Closure(C, edges, Roots \cup outside) => e[2] \in Closure(C, edges, Roots \cup outside)
      BY <2>2, ClosureLeast
    <2> QED BY <1>4, <1>5, <2>1, <2>3
  <1>6. Survivors(C, R) \subseteq C /\ Roots \cap C \subseteq Survivors(C, R)
    BY <1>4, ClosureLeast
  <1> QED BY <1>4, <1>5, <1>6

(* Nobody gets from what is in use to what is discarded. *)
LEMMA InUseAvoids ==
    ASSUME edges \subseteq Obj \X Obj, Sealed
    PROVE  InUse \subseteq Obj /\ InUse \cap Discarded = {}
  <1> DEFINE T == Obj \ Discarded
  <1>1. Roots \cap Obj \subseteq T
    BY DEF Sealed
  <1>2. \A e \in edges : e \in Obj \X Obj /\ e[1] \in T => e[2] \in T
    BY DEF Sealed
  <1> HIDE DEF T
  <1>3. Closure(Obj, edges, Roots) \subseteq T
    BY <1>1, <1>2, ClosureLeast
  <1> QED BY <1>3 DEF InUse, T

(* The queue of callbacks has each weak reference that is cleared once. *)
LEMMA QueueOnce ==
    ASSUME NEW S \in SUBSET Obj, NEW q \in Queue(S)
    PROVE  /\ q \in Seq(Obj)
           /\ \A i, j \in 1 .. Len(q) : q[i] = q[j] => i = j
           /\ \A o : (\E i \in 1 .. Len(q) : q[i] = o) <=> o \in Cut(S)
  <1> DEFINE n == Cardinality(Cut(S))
  <1>1. IsFiniteSet(Cut(S)) /\ Cut(S) \subseteq Obj
    BY CollectorAssumption, FS_Subset DEF Cut
  <1>2. n \in Nat
    BY <1>1, FS_CardinalityType
  <1>3. /\ q \in [1 .. n -> Cut(S)] /\ \A o \in Cut(S) : \E i \in 1 .. n : q[i] = o
    BY DEF Queue
  <1> HIDE DEF n
  <1>4. q \in Seq(Obj) /\ Len(q) = n
    BY <1>1, <1>2, <1>3
  <1>5. q \in Surjection(1 .. n, Cut(S))
    BY <1>3 DEF Surjection
  <1>6. IsFiniteSet(1 .. n) /\ Cardinality(1 .. n) = n
    BY <1>2, FS_Interval
  <1>7. q \in Injection(1 .. n, Cut(S))
    BY <1>5, <1>6, FS_Surjection DEF n
  <1>8. \A i, j \in 1 .. n : q[i] = q[j] => i = j
    BY <1>3, <1>7 DEF Injection, IsInjective
  <1> QED BY <1>3, <1>4, <1>8

-----------------------------------------------------------------------------
(* What the program and the collection do.                                 *)

(* The lists are told apart by their names, and none is a generation.      *)
LEMMA ListNames ==
    ASSUME CollectorTypeOK
    PROVE  /\ \A m, n \in Lists : On(m) = On(n) => m = n
           /\ \A g \in Generations : \A n \in Lists : In(g) # On(n)
           /\ \A n : OnList(n) \subseteq Obj
           /\ \A o \in Obj : list[o].gen < NumGenerations => \A n \in Lists : list[o] # On(n)
           /\ Discarded \subseteq Obj
  BY CollectorAssumption DEF On, In, Lists, Generations, OnList, Discarded

LEMMA CollectorInit == Init => CIInv
  <1> SUFFICES ASSUME Init PROVE CIInv
    OBVIOUS
  <1>1. CollectorTypeOK
    <2>1. 0 \in Generations
      BY CollectorAssumption DEF Generations
    <2>2. list \in [Obj -> [gen : {NumGenerations}, name : Lists]
                           \cup [gen : Generations, name : {"generation"}]]
      BY DEF Init, In, On, Lists
    <2>3. edges \subseteq Obj \X Obj
      BY DEF Init
    <2>4. weak \in [Obj -> {"none", "live", "dead"}] /\ pending \in Seq(Obj)
      BY DEF Init
    <2> QED BY <2>1, <2>2, <2>3, <2>4, CollectorAssumption DEF Init, CollectorTypeOK
  <1>2. \A n \in {"unreachable", "still", "gone"} : OnList(n) = {}
    <2>1. \A o \in Obj : list[o] = On("unborn") \/ \E g \in Generations : list[o] = In(g)
      BY DEF Init
    <2> QED BY <1>1, <2>1, ListNames DEF OnList, Lists
  <1>3. pending = << >> /\ \A o \in Obj : fired[o] = 0 /\ weak[o] # "dead"
    BY DEF Init
  <1> QED BY <1>1, <1>2, <1>3
          DEF Init, CIInv, ListsOK, FlagsOK, CallbacksOK, Sealed, WeakCut, Discarded

(* A step of the program that neither finalizes anything nor moves         *)
(* anything to or from the lists of garbage.                               *)
LEMMA GraphKeeps ==
    ASSUME CIInv,
           UNCHANGED <<finalizable, gcFinalized, hdrFinalized, ran, fired, pending, phase, gen,
                       todo, self>>,
           CollectorTypeOK',
           \A n \in {"unreachable", "still", "gone"} : OnList(n)' = OnList(n),
           \A o \in Obj : weak'[o] = "dead" <=> weak[o] = "dead",
           ~LateWeakrefs /\ Sealed /\ WeakCut => Sealed' /\ WeakCut'
    PROVE  CIInv'
  <1>1. Discarded' = Discarded
    BY DEF Discarded
  <1>2. ListsOK' /\ FlagsOK'
    BY <1>1 DEF CIInv, ListsOK, FlagsOK
  <1>3. CallbacksOK'
    BY DEF CIInv, CallbacksOK, CollectorTypeOK
  <1>4. FinalizedOnce' <=> FinalizedOnce
    BY DEF FinalizedOnce
  <1> QED BY <1>2, <1>3, <1>4 DEF CIInv

LEMMA NewKeeps ==
    ASSUME CIInv, NEW o \in Obj, New(o)
    PROVE  CIInv'
  <1>1. /\ list[o] = On("unborn") /\ list' = [list EXCEPT ![o] = In(0)]
        /\ held' = held \cup {o} /\ steps' \in 0 .. MaxSteps
        /\ UNCHANGED <<finalizable, gcFinalized, hdrFinalized, ran, fired, pending, phase, gen,
                       todo, self, edges, weak>>
    BY CollectorAssumption DEF New, Step, Elsewhere, Counts, CIInv, CollectorTypeOK
  <1>2. CollectorTypeOK
    BY DEF CIInv
  <1>3. In(0) \in [gen : Generations, name : {"generation"}] /\ 0 \in Generations
    BY CollectorAssumption DEF In, Generations
  <1>4. CollectorTypeOK'
    BY <1>1, <1>2, <1>3 DEF CollectorTypeOK
  <1>5. ASSUME NEW n \in {"unreachable", "still", "gone"} PROVE OnList(n)' = OnList(n)
    <2>1. On("unborn") # On(n) /\ In(0) # On(n)
      BY <1>2, <1>3, ListNames DEF Lists
    <2> QED BY <1>1, <1>2, <2>1 DEF OnList, On, CollectorTypeOK
  <1>6. o \notin Discarded
    BY <1>1, <1>2, ListNames DEF Discarded, OnList, Lists
  <1>7. Sealed /\ WeakCut => Sealed' /\ WeakCut'
    BY <1>1, <1>5, <1>6 DEF Sealed, WeakCut, Roots, Discarded
  <1> QED BY <1>1, <1>4, <1>5, <1>7, GraphKeeps

LEMMA HoldKeeps ==
    ASSUME CIInv, NEW o \in Obj, Hold(o) \/ Deref(o)
    PROVE  CIInv'
  <1>1. /\ o \in InUse \/ weak[o] = "live"
        /\ held' = held \cup {o} /\ steps' \in 0 .. MaxSteps
        /\ UNCHANGED <<finalizable, gcFinalized, hdrFinalized, ran, fired, pending, phase, gen,
                       todo, self, edges, weak, list>>
    BY CollectorAssumption DEF Hold, Deref, Step, Elsewhere, Counts, CIInv, CollectorTypeOK
  <1>2. CollectorTypeOK'
    BY <1>1 DEF CIInv, CollectorTypeOK
  <1>3. \A n : OnList(n)' = OnList(n)
    BY <1>1 DEF OnList, On
  <1>4. Sealed /\ WeakCut => o \notin Discarded
    BY <1>1, InUseAvoids DEF WeakCut, CIInv, CollectorTypeOK
  <1>5. Sealed /\ WeakCut => Sealed' /\ WeakCut'
    BY <1>1, <1>3, <1>4 DEF Sealed, WeakCut, Roots, Discarded
  <1> QED BY <1>1, <1>2, <1>3, <1>5, GraphKeeps

LEMMA ReferKeeps ==
    ASSUME CIInv, NEW o \in Obj, NEW p \in Obj, Refer(o, p)
    PROVE  CIInv'
  <1>1. /\ o \in InUse /\ p \in InUse
        /\ edges' = edges \cup {<<o, p>>} /\ steps' \in 0 .. MaxSteps
        /\ UNCHANGED <<finalizable, gcFinalized, hdrFinalized, ran, fired, pending, phase, gen,
                       todo, self, held, weak, list>>
    BY CollectorAssumption DEF Refer, Step, Elsewhere, Counts, CIInv, CollectorTypeOK
  <1>2. CollectorTypeOK'
    BY <1>1 DEF CIInv, CollectorTypeOK
  <1>3. \A n : OnList(n)' = OnList(n)
    BY <1>1 DEF OnList, On
  <1>4. Sealed => p \notin Discarded
    BY <1>1, InUseAvoids DEF CIInv, CollectorTypeOK
  <1>5. Sealed /\ WeakCut => Sealed' /\ WeakCut'
    BY <1>1, <1>3, <1>4 DEF Sealed, WeakCut, Roots, Discarded
  <1> QED BY <1>1, <1>2, <1>3, <1>5, GraphKeeps

LEMMA MakeWeakKeeps ==
    ASSUME CIInv, NEW o \in Obj, MakeWeak(o)
    PROVE  CIInv'
  <1>1. /\ o \in InUse /\ weak[o] = "none" /\ weak' = [weak EXCEPT ![o] = "live"]
        /\ list[o] = On("unreachable") => LateWeakrefs
        /\ steps' \in 0 .. MaxSteps
        /\ UNCHANGED <<finalizable, gcFinalized, hdrFinalized, ran, fired, pending, phase, gen,
                       todo, self, held, edges, list>>
    BY CollectorAssumption DEF MakeWeak, Step, Elsewhere, Counts, CIInv, CollectorTypeOK
  <1>2. CollectorTypeOK'
    BY <1>1 DEF CIInv, CollectorTypeOK
  <1>3. \A n : OnList(n)' = OnList(n)
    BY <1>1 DEF OnList, On
  <1>4. \A x \in Obj : weak'[x] = "dead" <=> weak[x] = "dead"
    BY <1>1 DEF CIInv, CollectorTypeOK
  <1>5. ~LateWeakrefs /\ Sealed => o \notin OnList("unreachable") \cup Discarded
    BY <1>1, InUseAvoids DEF CIInv, CollectorTypeOK, OnList
  <1>6. ~LateWeakrefs /\ Sealed /\ WeakCut => Sealed' /\ WeakCut'
    <2>1. \A x \in Obj : x # o => weak'[x] = weak[x]
      BY <1>1 DEF CIInv, CollectorTypeOK
    <2>2. OnList("unreachable") \cup Discarded \subseteq Obj
      BY ListNames DEF CIInv
    <2> QED BY <1>1, <1>3, <1>5, <2>1, <2>2 DEF Sealed, WeakCut, Roots, Discarded
  <1> QED BY <1>1, <1>2, <1>3, <1>4, <1>6, GraphKeeps

(* gc.freeze and gc.unfreeze. *)
LEMMA FreezeKeeps ==
    ASSUME CIInv, Freeze \/ Unfreeze
    PROVE  CIInv'
  <1>1. /\ steps' \in 0 .. MaxSteps
        /\ UNCHANGED <<finalizable, gcFinalized, hdrFinalized, ran, fired, pending, phase, gen,
                       todo, self, held, edges, weak>>
    BY CollectorAssumption DEF Freeze, Unfreeze, Step, Elsewhere, Counts, CIInv, CollectorTypeOK
  <1>2. CollectorTypeOK /\ 0 \in Generations
    BY CollectorAssumption DEF CIInv, Generations
  <1>3. \/ list' = [o \in Obj |-> IF list[o].gen < NumGenerations THEN On("permanent")
                                  ELSE list[o]]
        \/ list' = [o \in Obj |-> IF list[o] = On("permanent") THEN In(0) ELSE list[o]]
    BY DEF Freeze, Unfreeze
  <1>4. /\ On("permanent") \in [gen : {NumGenerations}, name : Lists]
        /\ In(0) \in [gen : Generations, name : {"generation"}]
    BY <1>2 DEF On, In, Lists
  <1>5. CollectorTypeOK'
    <2> DEFINE Places == [gen : {NumGenerations}, name : Lists]
                         \cup [gen : Generations, name : {"generation"}]
    <2>1. list \in [Obj -> Places] /\ On("permanent") \in Places /\ In(0) \in Places
      BY <1>2, <1>4 DEF CollectorTypeOK
    <2> HIDE DEF Places
    <2>2. list' \in [Obj -> Places]
      BY <1>3, <2>1
    <2> QED BY <1>1, <1>2, <2>2 DEF CollectorTypeOK, Places
  <1>6. ASSUME NEW n \in {"unreachable", "still", "gone"} PROVE OnList(n)' = OnList(n)
    <2>1. On("permanent") # On(n) /\ In(0) # On(n) /\ n \in Lists
      BY <1>2, ListNames DEF Lists
    <2>2. \A o \in Obj : list[o].gen < NumGenerations => list[o] # On(n)
      BY <1>2, <2>1, ListNames
    <2> QED BY <1>3, <2>1, <2>2 DEF OnList, On
  <1>7. Sealed /\ WeakCut => Sealed' /\ WeakCut'
    BY <1>1, <1>6 DEF Sealed, WeakCut, Roots, Discarded
  <1> QED BY <1>1, <1>5, <1>6, <1>7, GraphKeeps

(* What Decref does: objects are finalized and held again, or leave the    *)
(* collector, or stay; the weak reference of what is not held is cut.      *)
LEMMA DecrefKeeps ==
    ASSUME CIInv, NEW H \in SUBSET Roots, NEW S \in SUBSET Roots, NEW E \in SUBSET edges,
           Decref(H, S, E), phase' = phase, todo' \in SUBSET Obj,
           phase = "finalize" => todo' = todo, steps' \in 0 .. MaxSteps,
           UNCHANGED <<finalizable, gcFinalized, pending, gen>>
    PROVE  CIInv'
  <1> DEFINE D == Dropped(H, S, E)
             dying == Dying(D)
  <1>1. PICK saved \in SUBSET dying :
          /\ held' = H \cup saved /\ self' = S /\ edges' = E
          /\ ran' = [o \in Obj |-> IF o \in dying THEN ran[o] + 1 ELSE ran[o]]
          /\ hdrFinalized' = hdrFinalized \cup dying
          /\ list' = [o \in Obj |-> IF o \in (D \ saved) \cap finalizable
                                    THEN On("gone") ELSE list[o]]
          /\ LET cut == { o \in D \ saved : weak[o] = "live" }
             IN  /\ weak' = [o \in Obj |-> IF o \in cut THEN "dead" ELSE weak[o]]
                 /\ fired' = [o \in Obj |-> IF o \in cut THEN fired[o] + 1 ELSE fired[o]]
    BY Zenon DEF Decref
  <1>2. CollectorTypeOK /\ Roots \subseteq Obj
    BY DEF CIInv, CollectorTypeOK, Roots
  <1>3. /\ D \subseteq Obj /\ dying = (D \cap finalizable) \ hdrFinalized
        /\ \A o \in D : o \notin H /\ o \notin S /\ \A e \in E : e[2] # o
    <2>1. ASSUME NEW o \in D PROVE o \notin H /\ o \notin S /\ \A e \in E : e[2] # o
      BY <1>2, RefcntZero DEF Dropped, CollectorTypeOK
    <2> QED BY <2>1 DEF Dropped, Alive, Dying
  <1> HIDE DEF D, dying
  <1> DEFINE dead == (D \ saved) \cap finalizable
  <1>4. /\ "gone" \in Lists /\ On("gone") \in [gen : {NumGenerations}, name : Lists]
        /\ \A n \in Lists : n # "gone" => On(n) # On("gone")
    BY <1>2, ListNames DEF On, Lists
  <1>5. CollectorTypeOK'
    <2> DEFINE Places == [gen : {NumGenerations}, name : Lists]
                         \cup [gen : Generations, name : {"generation"}]
    <2>1. list \in [Obj -> Places] /\ On("gone") \in Places
      BY <1>2, <1>4 DEF CollectorTypeOK
    <2> HIDE DEF Places
    <2>2. list' \in [Obj -> Places]
      BY <1>1, <2>1
    <2>3. held' \subseteq Obj /\ self' \subseteq Obj /\ edges' \subseteq Obj \X Obj
          /\ hdrFinalized' \subseteq Obj
      BY <1>1, <1>2, <1>3 DEF CollectorTypeOK
    <2>4. ran' \in [Obj -> Nat] /\ fired' \in [Obj -> Nat]
      BY <1>1, <1>2 DEF CollectorTypeOK
    <2>5. weak' \in [Obj -> {"none", "live", "dead"}]
      BY <1>1, <1>2 DEF CollectorTypeOK
    <2> QED BY <1>2, <2>2, <2>3, <2>4, <2>5 DEF CollectorTypeOK, Places
  <1>6. /\ OnList("gone")' = OnList("gone") \cup dead
        /\ \A n \in {"unreachable", "still"} : OnList(n)' = OnList(n) \ dead
    <2>1. \A o \in Obj : list'[o] = IF o \in dead THEN On("gone") ELSE list[o]
      BY <1>1
    <2>2. OnList("gone")' = OnList("gone") \cup dead
      BY <1>3, <2>1 DEF OnList, On
    <2>3. ASSUME NEW n \in {"unreachable", "still"} PROVE OnList(n)' = OnList(n) \ dead
      <3>1. On(n) # On("gone")
        BY <1>4 DEF Lists
      <3> QED BY <2>1, <3>1 DEF OnList, On
    <2> QED BY <2>2, <2>3
  <1>7. Discarded' = Discarded \cup dead
    BY <1>6 DEF Discarded
  <1>8. dying \subseteq finalizable /\ dying \cap hdrFinalized = {}
        /\ dead \subseteq hdrFinalized'
    BY <1>1, <1>3
  <1>9. ListsOK'
    BY <1>6 DEF CIInv, ListsOK
  <1>10. FlagsOK'
    <2>1. \A o \in finalizable \cap hdrFinalized' : ran'[o] > 0
      <3>1. \A o \in dying : o \in Obj /\ ran'[o] = ran[o] + 1 /\ ran[o] \in Nat
        BY <1>1, <1>2, <1>3 DEF CollectorTypeOK
      <3>2. \A o \in finalizable \cap hdrFinalized : ran[o] > 0 /\ ran'[o] = ran[o]
        BY <1>1, <1>2, <1>8 DEF CIInv, FlagsOK, CollectorTypeOK
      <3> QED BY <1>1, <3>1, <3>2
    <2>2. finalizable \cap Discarded' \subseteq hdrFinalized'
      BY <1>1, <1>7, <1>8 DEF CIInv, FlagsOK
    <2>3. phase = "finalize" => OnList("unreachable")' \subseteq todo \cup gcFinalized
      BY <1>6 DEF CIInv, FlagsOK
    <2> QED BY <1>1, <2>1, <2>2, <2>3 DEF CIInv, FlagsOK
  <1>11. CallbacksOK'
    <2> DEFINE cut == { o \in D \ saved : weak[o] = "live" }
    <2>1. \A o \in Obj : /\ weak'[o] = IF o \in cut THEN "dead" ELSE weak[o]
                         /\ fired'[o] = IF o \in cut THEN fired[o] + 1 ELSE fired[o]
      BY <1>1
    <2>2. \A i \in 1 .. Len(pending) : pending[i] \in Obj /\ weak[pending[i]] = "dead"
      BY <1>2 DEF CollectorTypeOK, CIInv, CallbacksOK
    <2>3. \A o \in cut : o \in Obj /\ fired[o] = 0 /\ \A i \in 1 .. Len(pending) : pending[i] # o
      BY <1>3, <2>2 DEF CIInv, CallbacksOK
    <2> HIDE DEF cut
    <2>4. \A i \in 1 .. Len(pending) : weak'[pending[i]] = "dead"
      BY <2>1, <2>2
    <2>5. \A o \in Obj :
            fired'[o] = IF weak'[o] = "dead" /\ \A i \in 1 .. Len(pending) : pending[i] # o
                        THEN 1 ELSE 0
      BY <2>1, <2>3 DEF CIInv, CallbacksOK
    <2> QED BY <2>4, <2>5 DEF CIInv, CallbacksOK
  <1>12. FinalizedOnce' => FinalizedOnce
    BY <1>1, <1>2 DEF FinalizedOnce, CollectorTypeOK
  <1>13. Sealed => Sealed'
    <2>1. saved \cap Discarded = {} /\ saved \cap dead = {}
      BY <1>8 DEF CIInv, FlagsOK
    <2>2. (H \cup S) \cap dead = {} /\ \A e \in E : e[2] \notin dead
      BY <1>3
    <2>3. ASSUME Sealed PROVE Roots' \cap Discarded' = {}
      BY <1>1, <1>7, <2>1, <2>2, <2>3 DEF Sealed, Roots
    <2>4. ASSUME Sealed PROVE \A e \in edges' : e[2] \in Discarded' => e[1] \in Discarded'
      BY <1>1, <1>7, <2>2, <2>4 DEF Sealed
    <2> QED BY <2>3, <2>4 DEF Sealed
  <1>14. WeakCut => WeakCut'
    <2>1. \A o \in Obj : weak'[o] = "live" => weak[o] = "live" /\ o \notin dead
      BY <1>1
    <2>2. OnList("unreachable")' \cup Discarded' \subseteq OnList("unreachable") \cup Discarded \cup dead
      BY <1>6, <1>7
    <2>3. OnList("unreachable")' \cup Discarded' \subseteq Obj
      BY <1>5, ListNames, <1>2, <1>3, <1>6, <1>7
    <2> QED BY <2>1, <2>2, <2>3 DEF WeakCut
  <1> QED BY <1>5, <1>9, <1>10, <1>11, <1>12, <1>13, <1>14 DEF CIInv

LEMMA DropKeeps ==
    ASSUME CIInv, NEW o \in Obj, NEW p \in Obj,
           \/ Release(o) \/ Forget(o, p)
           \/ FinalizeReturn /\ UNCHANGED finalizable
    PROVE  CIInv'
  <1>1. CASE Release(o)
    <2>1. /\ Decref(held \ {o}, self, edges) /\ steps' \in 0 .. MaxSteps /\ todo \in SUBSET Obj
          /\ UNCHANGED <<finalizable, gcFinalized, pending, phase, gen, todo>>
      BY <1>1, CollectorAssumption DEF Release, Step, Elsewhere, CIInv, CollectorTypeOK
    <2> QED BY <2>1, DecrefKeeps DEF Roots
  <1>2. CASE Forget(o, p)
    <2>1. /\ Decref(held, self, edges \ {<<o, p>>}) /\ steps' \in 0 .. MaxSteps
          /\ todo \in SUBSET Obj
          /\ UNCHANGED <<finalizable, gcFinalized, pending, phase, gen, todo>>
      BY <1>2, CollectorAssumption DEF Forget, Step, Elsewhere, CIInv, CollectorTypeOK
    <2> QED BY <2>1, DecrefKeeps DEF Roots
  <1>3. CASE FinalizeReturn /\ UNCHANGED finalizable
    <2>1. /\ Decref(held, {}, edges) /\ steps' \in 0 .. MaxSteps /\ todo \in SUBSET Obj
          /\ UNCHANGED <<finalizable, gcFinalized, pending, phase, gen, todo>>
      BY <1>3, CollectorAssumption DEF FinalizeReturn, CIInv, CollectorTypeOK
    <2> QED BY <2>1, DecrefKeeps DEF Roots
  <1> QED BY <1>1, <1>2, <1>3

(* A step of the collection that leaves objects and lists alone. *)
LEMMA PhaseKeeps ==
    ASSUME CIInv, (\E g \in Generations : CollectStart(g)) \/ CollectStop,
           UNCHANGED finalizable
    PROVE  CIInv'
  <1> DEFINE same == UNCHANGED <<finalizable, held, edges, list, gcFinalized, hdrFinalized, ran,
                                 weak, fired, pending, todo, self, steps>>
  <1>1. /\ phase # "finalize" /\ phase' # "finalize" /\ phase # "clear" /\ phase' # "clear"
        /\ phase' \in {"idle", "start"} /\ pending = << >> /\ gen' \in Generations
        /\ UNCHANGED <<finalizable, held, edges, list, gcFinalized, hdrFinalized, ran, weak,
                       fired, pending, todo, self, steps>>
    <2>1. ASSUME NEW g \in Generations, CollectStart(g)
          PROVE  /\ phase = "idle" /\ phase' = "start" /\ gen' \in Generations /\ same
                 /\ pending = << >>
      BY <2>1 DEF CollectStart, CIInv, ListsOK
    <2>2. ASSUME CollectStop
          PROVE  /\ phase = "callbacks" /\ phase' = "idle" /\ gen' \in Generations /\ same
                 /\ pending = << >>
      BY <2>2 DEF CollectStop, CIInv, CollectorTypeOK
    <2> QED BY <2>1, <2>2
  <1>2. \A n : OnList(n)' = OnList(n)
    BY <1>1 DEF OnList, On
  <1>3. Discarded' = Discarded /\ (FinalizedOnce' <=> FinalizedOnce)
    BY <1>1, <1>2 DEF Discarded, FinalizedOnce
  <1>4. CollectorTypeOK' /\ ListsOK' /\ FlagsOK' /\ CallbacksOK'
    BY <1>1, <1>2, <1>3 DEF CIInv, CollectorTypeOK, ListsOK, FlagsOK, CallbacksOK
  <1>5. Sealed /\ WeakCut => Sealed' /\ WeakCut'
    BY <1>1, <1>2, <1>3 DEF Sealed, WeakCut, Roots
  <1> QED BY <1>3, <1>4, <1>5 DEF CIInv

(* The partition: the candidates that do not survive become garbage, with  *)
(* their weak references cut.                                              *)
LEMMA CollectMainKeeps ==
    ASSUME CIInv, CollectMain, UNCHANGED finalizable
    PROVE  CIInv'
  <1> DEFINE C == Candidates(gen)
             S == Survivors(C, Roots)
             U == C \ S
  <1>1. /\ phase = "start" /\ phase' = "finalize"
        /\ list' = [o \in Obj |-> IF o \in S THEN On("young")
                                  ELSE IF o \in U THEN On("unreachable") ELSE list[o]]
        /\ todo' = U /\ pending' \in Queue(U)
        /\ weak' = [o \in Obj |-> IF o \in Cut(U) THEN "dead" ELSE weak[o]]
        /\ UNCHANGED <<held, edges, gcFinalized, hdrFinalized, ran, fired, gen, self, steps>>
    BY DEF CollectMain
  <1>2. /\ CollectorTypeOK /\ C \subseteq Obj
        /\ \A o \in C : \A n \in Lists : list[o] # On(n)
    <2>1. \A o \in C : list[o].gen < NumGenerations
      <3>1. \A o \in Obj : list[o].gen \in Nat
        BY CollectorAssumption DEF CIInv, CollectorTypeOK, Generations
      <3>2. gen \in Nat /\ gen < NumGenerations /\ NumGenerations \in Nat
        BY CollectorAssumption DEF CIInv, CollectorTypeOK, Generations
      <3> QED BY <3>1, <3>2 DEF Candidates
    <2> QED BY <2>1, ListNames DEF CIInv, Candidates
  <1>3. S \subseteq C
    BY <1>2, SurvivorsClosure DEF CollectorTypeOK
  <1> HIDE DEF C, S
  <1>4. /\ pending' \in Seq(Obj)
        /\ \A i, j \in 1 .. Len(pending') : pending'[i] = pending'[j] => i = j
        /\ \A o : (\E i \in 1 .. Len(pending') : pending'[i] = o) <=> o \in Cut(U)
    BY <1>1, <1>2, QueueOnce
  <1>5. CollectorTypeOK'
    <2> DEFINE Places == [gen : {NumGenerations}, name : Lists]
                         \cup [gen : Generations, name : {"generation"}]
    <2>1. list \in [Obj -> Places] /\ On("young") \in Places /\ On("unreachable") \in Places
      BY <1>2 DEF CollectorTypeOK, On, Lists
    <2> HIDE DEF Places
    <2>2. list' \in [Obj -> Places]
      BY <1>1, <2>1
    <2>3. weak' \in [Obj -> {"none", "live", "dead"}]
      BY <1>1, <1>2 DEF CollectorTypeOK
    <2> QED BY <1>1, <1>2, <1>4, <2>2, <2>3 DEF CollectorTypeOK, Places
  <1>6. /\ OnList("unreachable") = {} /\ OnList("still") = {}
        /\ OnList("unreachable")' = U /\ OnList("still")' = {}
        /\ OnList("gone")' = OnList("gone") /\ Discarded' = Discarded
    <2>1. OnList("unreachable") = {} /\ OnList("still") = {}
      BY <1>1 DEF CIInv, ListsOK
    <2>2. \A n \in Lists : \A m \in Lists : On(m) = On(n) => m = n
      BY <1>2, ListNames
    <2>3. \A n : \A o \in Obj : o \in OnList(n)' <=> list'[o] = On(n)
      BY DEF OnList, On
    <2>4. \A n : \A o \in Obj : o \in OnList(n) <=> list[o] = On(n)
      BY DEF OnList
    <2>5. \A n : OnList(n) \subseteq Obj /\ OnList(n)' \subseteq Obj
      BY DEF OnList
    <2>6. \A o \in Obj : list'[o] = IF o \in S THEN On("young")
                                    ELSE IF o \in U THEN On("unreachable") ELSE list[o]
      BY <1>1
    <2>7. \A o \in Obj \ C : list'[o] = list[o]
      BY <1>3, <2>6
    <2>8. \A o \in C : list'[o] = On("young") \/ (o \in U /\ list'[o] = On("unreachable"))
      BY <1>2, <1>3, <2>6
    <2>9. {"young", "unreachable", "still", "gone"} \subseteq Lists
      BY DEF Lists
    <2>10. OnList("unreachable")' = U
      <3>1. U \subseteq OnList("unreachable")'
        BY <1>2, <1>3, <2>3, <2>6
      <3>2. \A o \in C : list'[o] = On("unreachable") => o \in U
        BY <2>2, <2>8, <2>9
      <3> QED BY <2>1, <2>3, <2>4, <2>5, <2>7, <3>1, <3>2
    <2>11. ASSUME NEW n \in {"still", "gone"} PROVE OnList(n)' = OnList(n)
      <3>1. \A o \in C : list'[o] # On(n) /\ list[o] # On(n)
        BY <1>2, <2>2, <2>8, <2>9
      <3> QED BY <2>3, <2>4, <2>5, <2>7, <3>1
    <2> QED BY <2>1, <2>10, <2>11 DEF Discarded
  <1>7. ListsOK' /\ FlagsOK'
    BY <1>1, <1>6 DEF CIInv, ListsOK, FlagsOK
  <1>8. CallbacksOK'
    <2>1. pending = << >>
      BY <1>1 DEF CIInv, ListsOK
    <2>2. \A o \in Obj : fired[o] = IF weak[o] = "dead" THEN 1 ELSE 0
      BY <2>1 DEF CIInv, CallbacksOK
    <2>3. \A o \in Obj : weak'[o] = IF o \in Cut(U) THEN "dead" ELSE weak[o]
      BY <1>1
    <2>4. \A o \in Cut(U) : o \in Obj /\ weak[o] = "live"
      BY <1>2 DEF Cut
    <2>5. \A o \in Obj : fired'[o] =
            IF weak'[o] = "dead" /\ \A i \in 1 .. Len(pending') : pending'[i] # o THEN 1 ELSE 0
      <3> SUFFICES ASSUME NEW o \in Obj
                   PROVE  fired[o] = IF weak'[o] = "dead" /\ o \notin Cut(U) THEN 1 ELSE 0
        BY <1>1, <1>4
      <3> QED BY <2>2, <2>3, <2>4
    <2>6. \A i \in 1 .. Len(pending') : weak'[pending'[i]] = "dead"
      BY <1>4, <2>3, <2>4
    <2> QED BY <1>4, <2>5, <2>6 DEF CallbacksOK
  <1>9. FinalizedOnce' <=> FinalizedOnce
    BY <1>1 DEF FinalizedOnce
  <1>10. Sealed => Sealed'
    BY <1>1, <1>6 DEF Sealed, Roots
  <1>11. WeakCut => WeakCut'
    <2>1. \A o \in Obj : weak'[o] = "live" => weak[o] = "live" /\ o \notin U
      BY <1>1 DEF Cut
    <2>2. U \cup Discarded \subseteq Obj
      BY <1>2, ListNames
    <2>3. OnList("unreachable")' \cup Discarded' = U \cup Discarded
      BY <1>6
    <2> QED BY <2>1, <2>2, <2>3 DEF WeakCut
  <1> QED BY <1>5, <1>7, <1>8, <1>9, <1>10, <1>11 DEF CIInv

(* A finalizer is called.  What is discarded has been finalized before: to *)
(* hold it again would take a second call.                                 *)
LEMMA FinalizeNextKeeps ==
    ASSUME CIInv, NEW o \in Obj, FinalizeNext(o), UNCHANGED finalizable
    PROVE  CIInv'
  <1>1. /\ phase = "finalize" /\ self = {} /\ o \in todo /\ todo' = todo \ {o}
        /\ UNCHANGED <<held, edges, list, weak, fired, pending, phase, gen, steps>>
    BY DEF FinalizeNext
  <1>2. CollectorTypeOK
    BY DEF CIInv
  <1>3. \A n : OnList(n)' = OnList(n)
    BY <1>1 DEF OnList, On
  <1>4. Discarded' = Discarded
    BY <1>3 DEF Discarded
  <1>5. \/ o \in gcFinalized /\ UNCHANGED <<gcFinalized, hdrFinalized, ran, self>>
        \/ /\ gcFinalized' = gcFinalized \cup {o}
           /\ hdrFinalized' = hdrFinalized \cup {o}
           /\ ran' = [ran EXCEPT ![o] = IF o \in finalizable THEN @ + 1 ELSE @]
           /\ self' = {o} \cap finalizable
    BY DEF FinalizeNext
  <1>6. CollectorTypeOK'
    <2>1. /\ gcFinalized' \subseteq Obj /\ hdrFinalized' \subseteq Obj
          /\ self' \subseteq Obj /\ todo' \subseteq Obj
      BY <1>1, <1>2, <1>5 DEF CollectorTypeOK
    <2>2. ran' \in [Obj -> Nat]
      <3> DEFINE times == IF o \in finalizable THEN ran[o] + 1 ELSE ran[o]
      <3>1. ran \in [Obj -> Nat] /\ times \in Nat
        BY <1>2 DEF CollectorTypeOK
      <3>2. ran' = ran \/ ran' = [ran EXCEPT ![o] = times]
        BY <1>5
      <3> HIDE DEF times
      <3> QED BY <3>1, <3>2
    <2> QED BY <1>1, <1>2, <2>1, <2>2 DEF CollectorTypeOK
  <1>7. ListsOK'
    BY <1>1, <1>3 DEF CIInv, ListsOK
  <1>8. \A x \in Obj : ran'[x] \in Nat /\ ran'[x] >= ran[x]
    BY <1>2, <1>5 DEF CollectorTypeOK
  <1>9. FlagsOK'
    <2>1. ASSUME NEW x \in finalizable \cap hdrFinalized' PROVE ran'[x] > 0
      <3>1. x \in Obj
        BY <1>2, <1>5 DEF CollectorTypeOK
      <3>2. CASE x \in hdrFinalized
        <4>1. ran[x] > 0 /\ ran[x] \in Nat
          BY <2>1, <3>1, <3>2, <1>2 DEF CIInv, FlagsOK, CollectorTypeOK
        <4> QED BY <1>8, <3>1, <4>1
      <3>3. CASE x \notin hdrFinalized
        <4>1. x = o /\ ran' = [ran EXCEPT ![o] = IF o \in finalizable THEN @ + 1 ELSE @]
          BY <1>5, <2>1, <3>3
        <4>2. ran'[x] = ran[x] + 1 /\ ran[x] \in Nat
          BY <1>2, <2>1, <4>1 DEF CollectorTypeOK
        <4> QED BY <4>2
      <3> QED BY <3>2, <3>3
    <2>2. OnList("unreachable") \subseteq todo \cup gcFinalized
      BY <1>1 DEF CIInv, FlagsOK
    <2>3. OnList("unreachable")' \subseteq todo' \cup gcFinalized'
      BY <1>1, <1>3, <1>5, <2>2
    <2>4. gcFinalized' \subseteq hdrFinalized' /\ finalizable' \cap Discarded' \subseteq hdrFinalized'
      BY <1>4, <1>5 DEF CIInv, FlagsOK
    <2> QED BY <2>1, <2>3, <2>4 DEF FlagsOK
  <1>10. CallbacksOK'
    BY <1>1 DEF CIInv, CallbacksOK
  <1>11. FinalizedOnce' => FinalizedOnce
    <2>1. \A x \in Obj : ran[x] \in Nat
      BY <1>2 DEF CollectorTypeOK
    <2> QED BY <1>8, <2>1 DEF FinalizedOnce
  <1>12. FinalizedOnce' /\ Sealed => Sealed'
    <2> SUFFICES ASSUME FinalizedOnce', Sealed PROVE self' \cap Discarded = {}
      BY <1>1, <1>4 DEF Sealed, Roots
    <2>1. CASE self' = self
      BY <1>1, <2>1
    <2>2. CASE /\ self' = {o} \cap finalizable
               /\ ran' = [ran EXCEPT ![o] = IF o \in finalizable THEN @ + 1 ELSE @]
      <3>1. SUFFICES ASSUME o \in finalizable \cap Discarded PROVE FALSE
        BY <2>2
      <3>2. ran[o] > 0 /\ ran[o] \in Nat
        BY <1>2, <3>1 DEF CIInv, FlagsOK, CollectorTypeOK
      <3>3. ran'[o] = ran[o] + 1
        BY <1>2, <2>2, <3>1 DEF CollectorTypeOK
      <3> QED BY <3>2, <3>3 DEF FinalizedOnce
    <2> QED BY <1>5, <2>1, <2>2
  <1>13. WeakCut => WeakCut'
    BY <1>1, <1>3, <1>4 DEF WeakCut
  <1> QED BY <1>6, <1>7, <1>9, <1>10, <1>11, <1>12, <1>13 DEF CIInv

(* The second partition: what finalizers brought back is taken out of the  *)
(* garbage, and all that is left of it has been finalized.                 *)
LEMMA HandleResurrectedKeeps ==
    ASSUME CIInv, HandleResurrected, UNCHANGED finalizable
    PROVE  CIInv'
  <1> DEFINE C == OnList("unreachable")
             S == Survivors(C, {})
  <1>1. /\ phase = "finalize" /\ phase' = "clear" /\ todo = {} /\ todo' = C \ S
        /\ list' = [o \in Obj |-> IF o \in S THEN In(Older(gen))
                                  ELSE IF o \in C THEN On("still") ELSE list[o]]
        /\ UNCHANGED <<held, edges, gcFinalized, hdrFinalized, ran, weak, fired,
                       pending, gen, self, steps>>
    BY DEF HandleResurrected
  <1>2. CollectorTypeOK /\ C \subseteq Obj
    BY DEF CIInv, OnList
  <1>3. /\ S \subseteq C /\ Roots \cap C \subseteq S
        /\ \A e \in edges : e[2] \in C \ S => e[1] \in C \ S
    BY <1>2, SurvivorsClosure DEF CollectorTypeOK
  <1>4. \A o \in Obj : o \in C <=> list[o] = On("unreachable")
    BY DEF OnList
  <1> HIDE DEF C, S
  <1>5. Older(gen) \in Generations /\ In(Older(gen)) \in [gen : Generations, name : {"generation"}]
    BY <1>2, CollectorAssumption DEF Older, In, Generations, CollectorTypeOK
  <1>6. CollectorTypeOK'
    <2> DEFINE Places == [gen : {NumGenerations}, name : Lists]
                         \cup [gen : Generations, name : {"generation"}]
    <2>1. list \in [Obj -> Places] /\ On("still") \in Places /\ In(Older(gen)) \in Places
      BY <1>2, <1>5 DEF CollectorTypeOK, On, Lists
    <2> HIDE DEF Places
    <2>2. list' \in [Obj -> Places]
      BY <1>1, <2>1
    <2>3. todo' \subseteq Obj
      BY <1>1, <1>2
    <2> QED BY <1>1, <1>2, <2>2, <2>3 DEF CollectorTypeOK, Places
  <1>7. /\ OnList("unreachable")' = {} /\ OnList("still") = {} /\ OnList("still")' = C \ S
        /\ OnList("gone")' = OnList("gone")
    <2>1. OnList("still") = {}
      BY <1>1 DEF CIInv, ListsOK
    <2>2. \A n \in Lists : \A m \in Lists : On(m) = On(n) => m = n
      BY <1>2, ListNames
    <2>3. \A n \in Lists : In(Older(gen)) # On(n)
      BY <1>2, <1>5, ListNames
    <2>4. \A n : OnList(n) \subseteq Obj /\ OnList(n)' \subseteq Obj
      BY DEF OnList
    <2>5. \A n : \A o \in Obj : (o \in OnList(n)' <=> list'[o] = On(n))
                                /\ (o \in OnList(n) <=> list[o] = On(n))
      BY DEF OnList, On
    <2>6. \A o \in Obj : list'[o] = IF o \in S THEN In(Older(gen))
                                    ELSE IF o \in C THEN On("still") ELSE list[o]
      BY <1>1
    <2>7. {"unreachable", "still", "gone"} \subseteq Lists
      BY DEF Lists
    <2>8. OnList("unreachable")' = {}
      <3> SUFFICES ASSUME NEW o \in Obj, list'[o] = On("unreachable") PROVE FALSE
        BY <2>4, <2>5
      <3> QED BY <1>4, <2>2, <2>3, <2>6, <2>7
    <2>9. OnList("still")' = C \ S
      <3>1. \A o \in Obj : list[o] # On("still")
        BY <2>1, <2>5
      <3>2. \A o \in Obj : list'[o] = On("still") <=> o \in C \ S
        BY <2>3, <2>6, <2>7, <3>1
      <3> QED BY <1>2, <2>4, <2>5, <3>2
    <2>10. OnList("gone")' = OnList("gone")
      <3>1. \A o \in C : list[o] # On("gone")
        BY <1>2, <1>4, <2>2, <2>7
      <3>2. \A o \in Obj : list'[o] = On("gone") <=> list[o] = On("gone")
        BY <1>3, <2>2, <2>3, <2>6, <2>7, <3>1
      <3> QED BY <2>4, <2>5, <3>2
    <2> QED BY <2>1, <2>8, <2>9, <2>10
  <1>8. Discarded' = Discarded \cup (C \ S)
    BY <1>7 DEF Discarded
  <1>9. ListsOK'
    BY <1>1, <1>7 DEF ListsOK
  <1>10. FlagsOK'
    <2>1. C \subseteq hdrFinalized
      BY <1>1 DEF CIInv, FlagsOK, C
    <2> QED BY <1>1, <1>8, <2>1 DEF CIInv, FlagsOK
  <1>11. CallbacksOK'
    BY <1>1 DEF CIInv, CallbacksOK
  <1>12. FinalizedOnce' <=> FinalizedOnce
    BY <1>1 DEF FinalizedOnce
  <1>13. Sealed => Sealed'
    BY <1>1, <1>3, <1>8 DEF Sealed, Roots
  <1>14. WeakCut => WeakCut'
    BY <1>1, <1>7, <1>8 DEF WeakCut, C
  <1> QED BY <1>6, <1>9, <1>10, <1>11, <1>12, <1>13, <1>14 DEF CIInv

(* tp_clear takes references away. *)
LEMMA ClearNextKeeps ==
    ASSUME CIInv, NEW o \in Obj, ClearNext(o), UNCHANGED finalizable
    PROVE  CIInv'
  <1>1. /\ phase = "clear" /\ todo' = todo \ {o}
        /\ UNCHANGED <<gcFinalized, pending, phase, gen, steps>>
    BY DEF ClearNext
  <1>2. CollectorTypeOK /\ todo' \in SUBSET Obj
    BY <1>1 DEF CIInv, CollectorTypeOK
  <1>3. CASE UNCHANGED <<held, edges, list, hdrFinalized, ran, weak, fired, self>>
    <2>1. \A n : OnList(n)' = OnList(n)
      BY <1>3 DEF OnList, On
    <2>2. Discarded' = Discarded /\ (FinalizedOnce' <=> FinalizedOnce)
      BY <1>3, <2>1 DEF Discarded, FinalizedOnce
    <2>3. CollectorTypeOK'
      BY <1>1, <1>2, <1>3 DEF CollectorTypeOK
    <2>4. ListsOK' /\ FlagsOK' /\ CallbacksOK'
      BY <1>1, <1>3, <2>1, <2>2 DEF CIInv, ListsOK, FlagsOK, CallbacksOK
    <2>5. Sealed /\ WeakCut => Sealed' /\ WeakCut'
      BY <1>3, <2>1, <2>2 DEF Sealed, WeakCut, Roots
    <2> QED BY <2>2, <2>3, <2>4, <2>5 DEF CIInv
  <1>4. CASE Decref(held, self, edges \ ({o} \X Obj))
    <2>1. steps' \in 0 .. MaxSteps
      BY <1>1, <1>2 DEF CollectorTypeOK
    <2> QED BY <1>1, <1>2, <1>4, <2>1, DecrefKeeps DEF Roots
  <1> QED BY <1>3, <1>4 DEF ClearNext

LEMMA ReclaimKeeps ==
    ASSUME CIInv, Reclaim, UNCHANGED finalizable
    PROVE  CIInv'
  <1>1. /\ phase = "clear" /\ phase' = "callbacks"
        /\ list' = [o \in Obj |-> IF list[o] = On("still") THEN On("gone")
                                  ELSE IF list[o] = On("young") THEN In(Older(gen)) ELSE list[o]]
        /\ UNCHANGED <<held, edges, gcFinalized, hdrFinalized, ran, weak, fired,
                       pending, gen, todo, self, steps>>
    BY DEF Reclaim
  <1>2. CollectorTypeOK
    BY DEF CIInv
  <1>3. Older(gen) \in Generations /\ In(Older(gen)) \in [gen : Generations, name : {"generation"}]
    BY <1>2, CollectorAssumption DEF Older, In, Generations, CollectorTypeOK
  <1>4. CollectorTypeOK'
    <2> DEFINE Places == [gen : {NumGenerations}, name : Lists]
                         \cup [gen : Generations, name : {"generation"}]
    <2>1. list \in [Obj -> Places] /\ On("gone") \in Places /\ In(Older(gen)) \in Places
      BY <1>2, <1>3 DEF CollectorTypeOK, On, Lists
    <2> HIDE DEF Places
    <2>2. list' \in [Obj -> Places]
      BY <1>1, <2>1
    <2> QED BY <1>1, <1>2, <2>2 DEF CollectorTypeOK, Places
  <1>5. /\ OnList("unreachable") = {} /\ OnList("unreachable")' = {} /\ OnList("still")' = {}
        /\ OnList("gone")' = OnList("gone") \cup OnList("still")
    <2>1. OnList("unreachable") = {}
      BY <1>1 DEF CIInv, ListsOK
    <2>2. \A n \in Lists : \A m \in Lists : On(m) = On(n) => m = n
      BY <1>2, ListNames
    <2>3. \A n \in Lists : In(Older(gen)) # On(n)
      BY <1>2, <1>3, ListNames
    <2>4. \A n : OnList(n) \subseteq Obj /\ OnList(n)' \subseteq Obj
      BY DEF OnList
    <2>5. \A n : \A o \in Obj : (o \in OnList(n)' <=> list'[o] = On(n))
                                /\ (o \in OnList(n) <=> list[o] = On(n))
      BY DEF OnList, On
    <2>6. \A o \in Obj : list'[o] = IF list[o] = On("still") THEN On("gone")
                                    ELSE IF list[o] = On("young") THEN In(Older(gen)) ELSE list[o]
      BY <1>1
    <2>7. {"unreachable", "still", "gone", "young"} \subseteq Lists
      BY DEF Lists
    <2>8. ASSUME NEW o \in Obj
          PROVE  /\ list'[o] # On("still")
                 /\ list'[o] = On("unreachable") => list[o] = On("unreachable")
                 /\ list'[o] = On("gone") <=> list[o] = On("gone") \/ list[o] = On("still")
      <3>1. On("gone") # On("still") /\ On("gone") # On("unreachable") /\ On("young") # On("gone")
        BY <2>2, <2>7
      <3>2. /\ In(Older(gen)) # On("still") /\ In(Older(gen)) # On("unreachable")
            /\ In(Older(gen)) # On("gone")
        BY <2>3, <2>7
      <3> QED BY <2>6, <3>1, <3>2
    <2> QED BY <2>1, <2>4, <2>5, <2>8
  <1>6. Discarded' = Discarded
    BY <1>5 DEF Discarded
  <1>7. ListsOK' /\ FlagsOK'
    BY <1>1, <1>5, <1>6 DEF CIInv, ListsOK, FlagsOK
  <1>8. CallbacksOK' /\ (FinalizedOnce' <=> FinalizedOnce)
    BY <1>1 DEF CIInv, CallbacksOK, FinalizedOnce
  <1>9. Sealed /\ WeakCut => Sealed' /\ WeakCut'
    BY <1>1, <1>5, <1>6 DEF Sealed, WeakCut, Roots
  <1> QED BY <1>4, <1>7, <1>8, <1>9 DEF CIInv

(* The head of the queue is called, and is in the rest of it no more. *)
LEMMA CallbackKeeps ==
    ASSUME CIInv, Callback, UNCHANGED finalizable
    PROVE  CIInv'
  <1>1. /\ phase = "callbacks" /\ pending # << >> /\ pending' = Tail(pending)
        /\ fired' = [fired EXCEPT ![Head(pending)] = @ + 1]
        /\ UNCHANGED <<held, edges, list, gcFinalized, hdrFinalized, ran, weak, phase,
                       gen, todo, self, steps>>
    BY DEF Callback
  <1>2. CollectorTypeOK /\ CallbacksOK
    BY DEF CIInv
  <1>3. /\ pending \in Seq(Obj) /\ Head(pending) = pending[1] /\ pending[1] \in Obj
        /\ Len(pending) \in Nat /\ Len(pending) >= 1
        /\ pending' \in Seq(Obj) /\ Len(pending') = Len(pending) - 1
        /\ \A i \in 1 .. Len(pending') : pending'[i] = pending[i + 1]
    BY <1>1, <1>2, HeadTailProperties DEF CollectorTypeOK
  <1>4. CollectorTypeOK'
    BY <1>1, <1>2, <1>3 DEF CollectorTypeOK
  <1>5. \A n : OnList(n)' = OnList(n)
    BY <1>1 DEF OnList, On
  <1>6. Discarded' = Discarded /\ (FinalizedOnce' <=> FinalizedOnce)
    BY <1>1, <1>5 DEF Discarded, FinalizedOnce
  <1>7. ListsOK' /\ FlagsOK'
    BY <1>1, <1>5, <1>6 DEF CIInv, ListsOK, FlagsOK
  <1>8. CallbacksOK'
    <2>1. \A i \in 1 .. Len(pending') : i + 1 \in 1 .. Len(pending) /\ i + 1 # 1 /\ i \in Nat
      BY <1>3
    <2>2. \A i, j \in 1 .. Len(pending') : pending'[i] = pending'[j] => i = j
      <3> SUFFICES ASSUME NEW i \in 1 .. Len(pending'), NEW j \in 1 .. Len(pending'),
                          pending'[i] = pending'[j]
                   PROVE  i = j
        OBVIOUS
      <3>1. i + 1 = j + 1
        BY <1>2, <1>3, <2>1 DEF CallbacksOK
      <3> QED BY <2>1, <3>1
    <2>3. \A i \in 1 .. Len(pending') : weak'[pending'[i]] = "dead"
      BY <1>1, <1>2, <1>3, <2>1 DEF CallbacksOK
    <2>4. ASSUME NEW o \in Obj
          PROVE  fired'[o] = IF weak'[o] = "dead" /\ \A i \in 1 .. Len(pending') : pending'[i] # o
                             THEN 1 ELSE 0
      <3>1. 1 \in 1 .. Len(pending)
        BY <1>3
      <3>2. CASE o = pending[1]
        <4>1. fired[o] = 0 /\ weak[o] = "dead"
          BY <1>2, <3>1, <3>2 DEF CallbacksOK
        <4>2. \A i \in 1 .. Len(pending') : pending'[i] # o
          BY <1>2, <1>3, <2>1, <3>1, <3>2 DEF CallbacksOK
        <4>3. fired'[o] = 1
          BY <1>1, <1>2, <1>3, <3>2, <4>1 DEF CollectorTypeOK
        <4> QED BY <1>1, <4>1, <4>2, <4>3
      <3>3. CASE o # pending[1]
        <4>1. fired'[o] = fired[o]
          BY <1>1, <1>2, <1>3, <3>3 DEF CollectorTypeOK
        <4>2. (\A i \in 1 .. Len(pending) : pending[i] # o)
                <=> \A i \in 1 .. Len(pending') : pending'[i] # o
          <5>1. ASSUME NEW i \in 1 .. Len(pending), pending[i] = o
                PROVE  \E j \in 1 .. Len(pending') : pending'[j] = o
            <6>1. i # 1 /\ i - 1 \in 1 .. Len(pending') /\ (i - 1) + 1 = i
              BY <1>3, <3>3, <5>1
            <6> QED BY <1>3, <5>1, <6>1
          <5> QED BY <1>3, <2>1, <5>1
        <4> QED BY <1>1, <1>2, <4>1, <4>2 DEF CallbacksOK
      <3> QED BY <3>2, <3>3
    <2> QED BY <2>2, <2>3, <2>4 DEF CallbacksOK
  <1>9. Sealed /\ WeakCut => Sealed' /\ WeakCut'
    BY <1>1, <1>5, <1>6 DEF Sealed, WeakCut, Roots
  <1> QED BY <1>4, <1>6, <1>7, <1>8, <1>9 DEF CIInv

LEMMA CollectorNext == CIInv /\ [Next]_vars => CIInv'
  <1> SUFFICES ASSUME CIInv, [Next]_vars PROVE CIInv'
    OBVIOUS
  <1>1. CASE Program
    <2>1. CASE \E o \in Obj : New(o) \/ Hold(o) \/ Release(o) \/ MakeWeak(o) \/ Deref(o)
      BY <2>1, NewKeeps, HoldKeeps, DropKeeps, MakeWeakKeeps
    <2>2. CASE \E o, p \in Obj : Refer(o, p) \/ Forget(o, p)
      BY <2>2, ReferKeeps, DropKeeps
    <2>3. CASE Freeze \/ Unfreeze
      BY <2>3, FreezeKeeps
    <2> QED BY <1>1, <2>1, <2>2, <2>3 DEF Program
  <1>2. CASE Collecting
    <2>1. ASSUME NEW o \in Obj, FinalizeNext(o) \/ ClearNext(o), UNCHANGED finalizable
          PROVE  CIInv'
      BY <2>1, FinalizeNextKeeps, ClearNextKeeps
    <2>2. CASE FinalizeReturn /\ UNCHANGED finalizable
      <3>1. CASE Obj = {}
        BY <2>2, <3>1 DEF FinalizeReturn, CIInv, CollectorTypeOK
      <3>2. ASSUME NEW o \in Obj PROVE CIInv'
        BY <2>2, DropKeeps
      <3> QED BY <3>1, <3>2
    <2>3. CASE CollectMain \/ HandleResurrected \/ Reclaim \/ Callback \/ CollectStop
      BY <1>2, <2>3, CollectMainKeeps, HandleResurrectedKeeps, ReclaimKeeps, CallbackKeeps,
         PhaseKeeps DEF Collecting
    <2> QED BY <1>2, <2>1, <2>2, <2>3 DEF Collecting
  <1>3. CASE \E g \in Generations : CollectStart(g)
    <2>1. UNCHANGED finalizable
      BY <1>3 DEF CollectStart
    <2> QED BY <1>3, <2>1, PhaseKeeps
  <1>4. CASE UNCHANGED vars
    <2>1. UNCHANGED <<finalizable, held, edges, list, gcFinalized, hdrFinalized, ran, weak, fired,
                      pending, phase, gen, todo, self, steps>>
      BY <1>4 DEF vars
    <2>2. \A n : OnList(n)' = OnList(n)
      BY <2>1 DEF OnList, On
    <2>3. CollectorTypeOK'
      BY <2>1 DEF CIInv, CollectorTypeOK
    <2>4. Sealed /\ WeakCut => Sealed' /\ WeakCut'
      BY <2>1, <2>2 DEF Sealed, WeakCut, Roots, Discarded
    <2> QED BY <2>1, <2>2, <2>3, <2>4, GraphKeeps
  <1> QED BY <1>1, <1>2, <1>3, <1>4 DEF Next

(* The invariant of the collector, of which the theorems below are parts. *)
THEOREM CollectorInvariance == Spec => []CIInv
  BY CollectorInit, CollectorNext, PTL DEF Spec

(* finalize.go:1-6, the types, and: nothing of a cycle is cleared before   *)
(* all of it has been finalized, and what was not is not lost.             *)
THEOREM CollectorCorrect == Spec => []CollectorInv
  <1>1. CIInv => CollectorInv
    <2> SUFFICES ASSUME CIInv, NEW o \in finalizable, list[o] \in {On("still"), On("gone")}
                 PROVE  ran[o] > 0
      BY DEF CIInv, CollectorInv, FinalizedBeforeCleared
    <2>1. o \in Obj
      BY CollectorAssumption DEF CIInv, CollectorTypeOK
    <2>2. o \in Discarded
      BY <2>1 DEF Discarded, OnList
    <2> QED BY <2>2 DEF CIInv, FlagsOK
  <1> QED BY <1>1, CollectorInvariance, PTL

(* finalize.go:113-126: nothing the program can reach is cleared or        *)
(* forgotten as long as no finalizer has run for the second time, if       *)
(* finalizers make no weak references to what is being collected.          *)
THEOREM NothingInUseCleared ==
    ASSUME ~LateWeakrefs
    PROVE  Spec => []NothingFinalizedOnceIsCleared
  <1>1. CIInv => NothingFinalizedOnceIsCleared
    <2> SUFFICES ASSUME CIInv, FinalizedOnce
                 PROVE  InUse \cap (OnList("still") \cup OnList("gone")) = {}
      BY DEF NothingFinalizedOnceIsCleared, NothingInUseIsCleared
    <2> QED BY InUseAvoids DEF CIInv, CollectorTypeOK, Discarded
  <1> QED BY <1>1, CollectorInvariance, PTL

(* The callbacks called and the callbacks queued. *)
CalledBackOnce == \A o \in Obj :
    fired[o] + Cardinality({ i \in DOMAIN pending : pending[i] = o })
      = IF weak[o] = "dead" THEN 1 ELSE 0

LEMMA QueuedOrCalled == CIInv => CalledBackOnce
  <1> SUFFICES ASSUME CIInv, NEW o \in Obj
               PROVE  fired[o] + Cardinality({ i \in DOMAIN pending : pending[i] = o })
                        = IF weak[o] = "dead" THEN 1 ELSE 0
    BY DEF CalledBackOnce
  <1> DEFINE queued == { i \in DOMAIN pending : pending[i] = o }
  <1>1. CollectorTypeOK /\ CallbacksOK /\ DOMAIN pending = 1 .. Len(pending)
    BY DEF CIInv, CollectorTypeOK
  <1>2. ASSUME \A i \in 1 .. Len(pending) : pending[i] # o
        PROVE  fired[o] + Cardinality(queued) = IF weak[o] = "dead" THEN 1 ELSE 0
    <2>1. queued = {}
      BY <1>1, <1>2
    <2>2. Cardinality(queued) = 0
      BY <2>1, FS_EmptySet
    <2>3. fired[o] = IF weak[o] = "dead" THEN 1 ELSE 0
      BY <1>1, <1>2 DEF CallbacksOK
    <2> HIDE DEF queued
    <2> QED BY <2>2, <2>3
  <1>3. ASSUME NEW i \in 1 .. Len(pending), pending[i] = o
        PROVE  fired[o] + Cardinality(queued) = IF weak[o] = "dead" THEN 1 ELSE 0
    <2>1. queued = {i}
      BY <1>1, <1>3 DEF CallbacksOK
    <2>2. Cardinality(queued) = 1
      BY <2>1, FS_Singleton
    <2>3. fired[o] = 0 /\ weak[o] = "dead"
      BY <1>1, <1>3 DEF CallbacksOK
    <2> HIDE DEF queued
    <2> QED BY <2>2, <2>3
  <1> QED BY <1>2, <1>3

(* weakref.go:1-16: a weak reference that was cleared calls back once, and *)
(* one that was not does not call back, by whichever way its object dies   *)
(* and whoever makes new ones meanwhile.                                   *)
THEOREM CallbacksExact == Spec => []CalledBackOnce
  BY CollectorInvariance, QueuedOrCalled, PTL

(* weakref.go:1-16, refcount.go:78-89: besides, no weak reference hands    *)
(* out what is gone, until a finalizer has run twice, if finalizers make   *)
(* no weak references to what is being collected.                          *)
THEOREM WeakrefsCorrect ==
    ASSUME ~LateWeakrefs
    PROVE  Spec => []WeakrefsAreSound
  <1>1. CIInv => WeakrefsAreSound
    <2> SUFFICES ASSUME CIInv, NEW o \in Obj
                 PROVE  list[o] = On("gone") /\ FinalizedOnce => weak[o] # "live"
      BY QueuedOrCalled DEF WeakrefsAreSound, CalledBackOnce
    <2> QED BY DEF CIInv, WeakCut, Discarded, OnList
  <1> QED BY <1>1, CollectorInvariance, PTL

(* refs.go:1-10, reachable.go:1-6: what a collection keeps of its          *)
(* candidates is what frames, or objects outside, lead to.                 *)
THEOREM KeepsHeld == Spec => KeepsWhatIsHeld
  <1>1. ASSUME CIInv, CollectMain
        PROVE  LET C == Candidates(gen)
                   outside == { o \in C : \E e \in edges : e[1] \notin C /\ e[2] = o }
               IN  \A o \in C : list'[o] = On("young")
                                  <=> o \in Closure(C, edges, Roots \cup outside)
    <2> DEFINE C == Candidates(gen)
               S == Survivors(C, Roots)
               outside == { o \in C : \E e \in edges : e[1] \notin C /\ e[2] = o }
    <2>1. \A o \in Obj : list'[o] = IF o \in S THEN On("young")
                                    ELSE IF o \in C \ S THEN On("unreachable") ELSE list[o]
      BY <1>1 DEF CollectMain
    <2>2. C \subseteq Obj /\ S = Closure(C, edges, Roots \cup outside)
      <3>1. C \in SUBSET Obj
        BY DEF Candidates
      <3>2. edges \subseteq Obj \X Obj /\ Roots \in SUBSET Roots
        BY <1>1 DEF CIInv, CollectorTypeOK
      <3> HIDE DEF C
      <3>3. Survivors(C, Roots) = Closure(C, edges, Roots \cup outside)
        BY <3>1, <3>2, SurvivorsClosure
      <3> QED BY <3>1, <3>3
    <2>3. On("young") # On("unreachable")
      BY DEF On
    <2> HIDE DEF C, S, outside
    <2>4. \A o \in C : list'[o] = On("young") <=> o \in S
      BY <2>1, <2>2, <2>3
    <2> QED BY <2>2, <2>4 DEF C, outside
  <1>2. CIInv /\ [Next]_vars =>
          [CollectMain =>
             LET C == Candidates(gen)
                 outside == { o \in C : \E e \in edges : e[1] \notin C /\ e[2] = o }
             IN  \A o \in C : list'[o] = On("young")
                                <=> o \in Closure(C, edges, Roots \cup outside)]_vars
    BY <1>1
  <1> QED BY <1>2, CollectorInvariance, PTL DEF Spec, KeepsWhatIsHeld
=============================================================================
