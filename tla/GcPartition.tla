---------------------------- MODULE GcPartition ----------------------------
(***************************************************************************)
(* How a collection tells reachable from unreachable (refs.go,             *)
(* reachable.go): gcHead.refs is the refcount less the references of other *)
(* candidates, floored at 0 because some of gopy's containers do not count *)
(* what they hold; roots only Go can see are floated to 1; then            *)
(* moveUnreachable walks the young list once, and takes back what turns    *)
(* out to be held by a survivor.                                           *)
(*                                                                         *)
(* The lists are sets: the walk takes their nodes in any order.  One step  *)
(* is one node of the walk.  Objects that are no candidates are left out:  *)
(* the visitors pass over them.                                            *)
(***************************************************************************)
EXTENDS GcGraph

CONSTANTS
    Nodes,          \* the candidates
    MaxCount        \* bound: the largest refcount a candidate starts with

ASSUME NodesAssumption == IsFiniteSet(Nodes)

VARIABLES
    visits,         \* tp_traverse between candidates
    seeds,          \* the candidates with refs > 0 when the walk begins
    refs,           \* gcHead.refs
    young,          \* the part of the list not walked yet
    reachable,      \* the part that was walked and stays
    unreachable     \* the other list

walkVars == <<visits, seeds, refs, young, reachable, unreachable>>

PartitionTypeOK ==
    /\ visits \subseteq Nodes \X Nodes
    /\ refs \in [Nodes -> Nat]
    /\ seeds \subseteq Nodes
    /\ young \cup reachable \cup unreachable = Nodes
    /\ young \cap reachable = {} /\ young \cap unreachable = {}
    /\ reachable \cap unreachable = {}

(* pinRoots and markReachableClosure: running generators, what executing   *)
(* frames hold, and everything the loaded modules lead to.                 *)
Floated(E, r, running, static) ==
    [o \in Nodes |-> IF r[o] = 0 /\ o \in running \cup Closure(Nodes, E, static)
                   THEN 1 ELSE r[o]]

PartitionInit ==
    /\ visits \in SUBSET (Nodes \X Nodes)
    /\ \E count \in [Nodes -> 0 .. MaxCount], running, static \in SUBSET Nodes :
          refs = Floated(visits, [o \in Nodes |-> Subtracted(Nodes, visits, count, o)],
                         running, static)
    /\ seeds = { o \in Nodes : refs[o] > 0 }
    /\ young = Nodes /\ reachable = {} /\ unreachable = {}

-----------------------------------------------------------------------------

(* Mutant: a node on the other list is not taken back. *)
KeepNoReturn(o) ==
    /\ o \in young /\ refs[o] > 0
    /\ refs' = [x \in Nodes |-> IF x \in Children(visits, o) \cap young /\ refs[x] = 0
                              THEN 1 ELSE refs[x]]
    /\ young' = young \ {o}
    /\ reachable' = reachable \cup {o}
    /\ UNCHANGED <<visits, seeds, unreachable>>

(* moveUnreachable on a node that is held: it stays, and visitReachable    *)
(* takes what it visits back from the unreachable list, or floats what has *)
(* yet to be walked.                                                       *)
Keep(o) ==
    /\ o \in young /\ refs[o] > 0
    /\ LET kids == Children(visits, o) \ reachable
       IN  /\ young' = (young \cup kids) \ {o}
           /\ unreachable' = unreachable \ kids
           /\ refs' = [x \in Nodes |-> IF x \in kids /\ (x \in unreachable \/ refs[x] = 0)
                                     THEN 1 ELSE refs[x]]
    /\ reachable' = reachable \cup {o}
    /\ UNCHANGED <<visits, seeds>>

(* Mutant: a node with no more than one reference is put aside. *)
SetAsideEarly(o) ==
    /\ o \in young /\ refs[o] <= 1
    /\ young' = young \ {o}
    /\ unreachable' = unreachable \cup {o}
    /\ UNCHANGED <<visits, seeds, refs, reachable>>

(* moveUnreachable on a node nothing is known to hold. *)
SetAside(o) ==
    /\ o \in young /\ refs[o] = 0
    /\ young' = young \ {o}
    /\ unreachable' = unreachable \cup {o}
    /\ UNCHANGED <<visits, seeds, refs, reachable>>

Walk == \E o \in Nodes : Keep(o) \/ SetAside(o)

PartitionSpec == PartitionInit /\ [][Walk]_walkVars

FairPartitionSpec == PartitionSpec /\ WF_walkVars(Walk)

-----------------------------------------------------------------------------

(* What a survivor visits has survived or is still to be walked, floated;  *)
(* what was held from outside is never put aside.                          *)
SurvivorsClosed ==
    /\ \A e \in visits : e[1] \in reachable =>
          e[2] \in reachable \/ (e[2] \in young /\ refs[e[2]] > 0)
    /\ \A o \in unreachable : refs[o] = 0
    /\ seeds \subseteq reachable \cup { o \in young : refs[o] > 0 }

(* reachable.go:1-6: nothing survives but what a root leads to. *)
OnlyHeldSurvives ==
    \A T \in SUBSET Nodes :
        seeds \subseteq T /\ Closed(visits, T) =>
            reachable \cup { o \in young : refs[o] > 0 } \subseteq T

(* reachable.go:19-22: in whatever order the list is walked, the end is    *)
(* the partition by definition: the roots and all they lead to survive,    *)
(* and nothing else does.                                                  *)
PartitionIsReachability ==
    young = {} => reachable = Closure(Nodes, visits, seeds)

PartitionInv == PartitionTypeOK /\ SurvivorsClosed /\ OnlyHeldSurvives

(* The walk ends, though nodes go back to the list it walks. *)
WalkEnds == <>(young = {})
=============================================================================
