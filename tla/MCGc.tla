-------------------------------- MODULE MCGc --------------------------------
(***************************************************************************)
(* Instances of Collector and of GcPartition for TLC: a collection beside  *)
(* the program, and by itself the walk over three objects that the         *)
(* collection takes for one step.  A behaviour is of one kind.             *)
(***************************************************************************)
EXTENDS Collector, GcPartition

CONSTANTS
    Kinds,          \* of Collector, GcPartition
    o1, o2, o3

VARIABLE kind

AllVars == <<kind, vars, walkVars>>

(* A walk over nothing, and a program that has done nothing. *)
NoWalk ==
    /\ visits = {} /\ seeds = {} /\ refs = [o \in Nodes |-> 0]
    /\ young = {} /\ reachable = {} /\ unreachable = Nodes

NoProgram ==
    /\ finalizable = {o1, o2} /\ held = {} /\ edges = {} /\ list = [o \in Obj |-> On("unborn")]
    /\ gcFinalized = {} /\ hdrFinalized = {} /\ ran = [o \in Obj |-> 0]
    /\ weak = [o \in Obj |-> "none"] /\ fired = [o \in Obj |-> 0]
    /\ pending = <<>> /\ phase = "idle" /\ gen = 0 /\ todo = {} /\ self = {} /\ steps = 0

GcInit ==
    /\ kind \in Kinds
    /\ \/ kind = "Collector" /\ Init /\ NoWalk
       \/ kind = "GcPartition" /\ PartitionInit /\ NoProgram

OnlyCollector == kind = "Collector" /\ UNCHANGED <<kind, walkVars>>
OnlyWalk == kind = "GcPartition" /\ UNCHANGED <<kind, vars>>

GcNext ==
    \/ OnlyCollector /\ Next
    \/ OnlyWalk /\ Walk

(* Whoever collects goes on: finalizers and callbacks return, and the GIL  *)
(* is handed out fairly.                                                   *)
GcSpec ==
    /\ GcInit /\ [][GcNext]_AllVars
    /\ WF_AllVars(OnlyCollector /\ Collecting)
    /\ WF_AllVars(OnlyWalk /\ Walk)

(* reachable.go:32-54, weakref.go:113: a walk comes to its end, though     *)
(* nodes go back to the list it walks, and a collection to the callbacks   *)
(* of all the weak references it has cleared.                              *)
CollectionsEnd == CallbacksRun /\ (kind = "GcPartition" => WalkEnds)
=============================================================================
