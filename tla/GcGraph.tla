------------------------------ MODULE GcGraph ------------------------------
(***************************************************************************)
(* The graph the cycle collector works on (module/gc): objects, who visits *)
(* whom in tp_traverse, and what is reachable by definition.  The          *)
(* operators are over any set of candidates C and relation E.              *)
(***************************************************************************)
EXTENDS Naturals, FiniteSets

Children(E, o) == { e[2] : e \in { x \in E : x[1] = o } }

Closed(E, T) == \A e \in E : e[1] \in T => e[2] \in T

(* What is reachable from S inside C: the least closed set around S. *)
Closure(C, E, S) ==
    LET Inner == E \cap (C \X C)
    IN  { o \in C : \A T \in SUBSET C : S \cap C \subseteq T /\ Closed(Inner, T) => o \in T }

(* Mutant: a container's reference to itself is not subtracted. *)
InDegreeNoLoop(C, E, o) == Cardinality({ e \in E : e[2] = o /\ e[1] # o /\ e[1] \in C })

(* subtractRefs: how often o is visited from the candidates. *)
InDegree(C, E, o) == Cardinality({ e \in E : e[2] = o /\ e[1] \in C })

(* Mutant: what is counted is taken off the candidates' own references.    *)
SubtractedNone(C, E, count, o) == count[o]

(* updateRefs and subtractRefs: the references that come from outside, and *)
(* never fewer than none.                                                  *)
Subtracted(C, E, count, o) ==
    IF count[o] > InDegree(C, E, o) THEN count[o] - InDegree(C, E, o) ELSE 0
=============================================================================
