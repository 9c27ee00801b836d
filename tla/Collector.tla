----------------------------- MODULE Collector -----------------------------
(***************************************************************************)
(* A collection of module/gc from start to stop, beside the program that   *)
(* makes the garbage and the refcounts that reclaim most of it.            *)
(*                                                                         *)
(* Objects are instances of user classes, and what they refer to is an     *)
(* edge.  An object dies in one of two ways.  Decref takes its count to 0: *)
(* its finalizer runs at once.  Or a collection finds it on a cycle that   *)
(* nobody holds: then its weak references are cleared, all finalizers run, *)
(* what they have brought back is taken out, and the rest is cleared and   *)
(* forgotten.  Finalizers and callbacks are Python code: they may do       *)
(* anything the program may, between any two steps of the collection.      *)
(***************************************************************************)
EXTENDS GcGraph, Sequences

CONSTANTS
    Obj,            \* the objects a program can make
    Finalizables,   \* the sets of objects whose class may have __del__
    Unclearable,    \* tp_clear leaves their references alone
    LateWeakrefs,   \* finalizers of garbage make weak references to it
    NumGenerations,
    MaxSteps        \* bound: how much the program does

ASSUME CollectorAssumption ==
    /\ IsFiniteSet(Obj)
    /\ Finalizables \subseteq SUBSET Obj /\ Unclearable \subseteq Obj
    /\ LateWeakrefs \in BOOLEAN
    /\ NumGenerations \in Nat \ {0} /\ MaxSteps \in Nat

VARIABLES
    finalizable,    \* the objects whose class has __del__
    held,           \* the objects an executing frame refers to
    edges,          \* who refers to whom
    list,           \* the gc list an object is on
    gcFinalized,    \* gcHead.flags has gcFinalized
    hdrFinalized,   \* Header.finalized
    ran,            \* how often the finalizer has run
    weak,           \* the weak reference to the object: none, live or dead
    fired,          \* how often the weak reference's callback was called
    pending,        \* handleWeakrefs' callbacks, to be called later
    phase,          \* what the collection is about to do; collecting # "idle"
    gen,            \* the generation it collects
    todo,           \* the nodes a pass has yet to visit
    self,           \* the object whose finalizer the collection is running
    steps

vars == <<finalizable, held, edges, list, gcFinalized, hdrFinalized, ran, weak, fired,
          pending, phase, gen, todo, self, steps>>

Generations == 0 .. NumGenerations - 1

Lists == {"unborn", "gone", "young", "unreachable", "still", "permanent"}

CollectorTypeOK ==
    /\ finalizable \in Finalizables /\ held \subseteq Obj /\ edges \subseteq Obj \X Obj
    /\ list \in [Obj -> [gen : {NumGenerations}, name : Lists]
                        \cup [gen : Generations, name : {"generation"}]]
    /\ gcFinalized \subseteq Obj /\ hdrFinalized \subseteq Obj
    /\ ran \in [Obj -> Nat] /\ fired \in [Obj -> Nat]
    /\ weak \in [Obj -> {"none", "live", "dead"}]
    /\ pending \in Seq(Obj) /\ todo \subseteq Obj /\ self \subseteq Obj
    /\ phase \in {"idle", "start", "finalize", "clear", "callbacks"}
    /\ gen \in Generations /\ steps \in 0 .. MaxSteps

On(name) == [gen |-> NumGenerations, name |-> name]
In(g) == [gen |-> g, name |-> "generation"]

OnList(name) == { o \in Obj : list[o] = On(name) }
Candidates(g) == { o \in Obj : list[o].gen <= g }

(* A collection of everything but the oldest ages what survives it. *)
Older(g) == IF g + 1 < NumGenerations THEN g + 1 ELSE g

(* Some time in a program's life: it has made and linked objects, some     *)
(* have survived collections, and frames still hold them all.              *)
Init ==
    /\ finalizable \in Finalizables
    /\ held \in SUBSET Obj
    /\ edges \in SUBSET (held \X held)
    /\ list \in [Obj -> { In(g) : g \in Generations } \cup {On("unborn")}]
    /\ held = { o \in Obj : list[o] # On("unborn") }
    /\ weak \in [Obj -> {"none", "live"}]
    /\ \A o \in Obj : weak[o] = "live" => o \in held
    /\ gcFinalized = {} /\ hdrFinalized = {} /\ ran = [o \in Obj |-> 0]
    /\ fired = [o \in Obj |-> 0] /\ pending = <<>>
    /\ phase = "idle" /\ gen = 0 /\ todo = {} /\ self = {} /\ steps = 0

-----------------------------------------------------------------------------
(* Counts.                                                                 *)

Roots == held \cup self

Alive == Obj \ OnList("unborn")

(* Whom the program can lay its hands on without a weak reference. *)
InUse == Closure(Obj, edges, Roots)

(* Header.refcnt, if H is what the frames hold, S the object being         *)
(* finalized and E who refers to whom.                                     *)
Refcnt(H, S, E, o) ==
    Cardinality({o} \cap H) + Cardinality({o} \cap S)
    + Cardinality({ e \in E : e[2] = o })

(* The objects whose last counted reference goes when the counts become    *)
(* those of H, S and E.                                                    *)
Dropped(H, S, E) ==
    { o \in Alive : Refcnt(held, self, edges, o) > 0 /\ Refcnt(H, S, E, o) = 0 }

(* Those of them that Decref finalizes. *)
Dying(D) == (D \cap finalizable) \ hdrFinalized

(* Mutant: what dies of its count keeps its weak reference. *)
DecrefNoWeak(H, S, E) ==
    LET D == Dropped(H, S, E)
    IN  \E saved \in SUBSET Dying(D) :
          /\ held' = H \cup saved /\ self' = S /\ edges' = E
          /\ ran' = [o \in Obj |-> IF o \in Dying(D) THEN ran[o] + 1 ELSE ran[o]]
          /\ hdrFinalized' = hdrFinalized \cup Dying(D)
          /\ list' = [o \in Obj |-> IF o \in (D \ saved) \cap finalizable
                                    THEN On("gone") ELSE list[o]]
          /\ UNCHANGED <<weak, fired>>

(* Decref of everything that loses its last reference.  The finalizer runs *)
(* with the count back at 1 and may save its object.  If it does not, an   *)
(* object with a finalizer leaves the collector and its references stay as *)
(* they are; one without stays tracked.  Either way its weak reference is  *)
(* cleared and called back.                                                *)
Decref(H, S, E) ==
    LET D == Dropped(H, S, E)
    IN  \E saved \in SUBSET Dying(D) :
          /\ held' = H \cup saved /\ self' = S /\ edges' = E
          /\ ran' = [o \in Obj |-> IF o \in Dying(D) THEN ran[o] + 1 ELSE ran[o]]
          /\ hdrFinalized' = hdrFinalized \cup Dying(D)
          /\ list' = [o \in Obj |-> IF o \in (D \ saved) \cap finalizable
                                    THEN On("gone") ELSE list[o]]
          /\ LET cut == { o \in D \ saved : weak[o] = "live" }
             IN  /\ weak' = [o \in Obj |-> IF o \in cut THEN "dead" ELSE weak[o]]
                 /\ fired' = [o \in Obj |-> IF o \in cut THEN fired[o] + 1 ELSE fired[o]]

-----------------------------------------------------------------------------
(* The program: in between collections, and in the finalizers and          *)
(* callbacks of one.                                                       *)

Step == steps < MaxSteps /\ steps' = steps + 1

Elsewhere == UNCHANGED <<finalizable, gcFinalized, pending, phase, gen, todo>>

Counts == UNCHANGED <<self, hdrFinalized, ran>>

(* Track: a new object joins the youngest generation. *)
New(o) ==
    /\ Step /\ list[o] = On("unborn")
    /\ list' = [list EXCEPT ![o] = In(0)]
    /\ held' = held \cup {o}
    /\ Elsewhere /\ Counts /\ UNCHANGED <<edges, weak, fired>>

(* Incref: a frame takes a reference, or an object does. *)
Hold(o) ==
    /\ Step /\ o \in InUse \ held
    /\ held' = held \cup {o}
    /\ Elsewhere /\ Counts /\ UNCHANGED <<edges, list, weak, fired>>

Refer(o, p) ==
    /\ Step /\ o \in InUse /\ p \in InUse /\ <<o, p>> \notin edges
    /\ edges' = edges \cup {<<o, p>>}
    /\ Elsewhere /\ Counts /\ UNCHANGED <<held, list, weak, fired>>

Release(o) ==
    /\ Step /\ o \in held
    /\ Decref(held \ {o}, self, edges)
    /\ Elsewhere

Forget(o, p) ==
    /\ Step /\ o \in InUse /\ <<o, p>> \in edges
    /\ Decref(held, self, edges \ {<<o, p>>})
    /\ Elsewhere

(* weakref.ref(o, callback), and calling it. *)
MakeWeak(o) ==
    /\ Step /\ o \in InUse /\ weak[o] = "none"
    /\ list[o] = On("unreachable") => LateWeakrefs
    /\ weak' = [weak EXCEPT ![o] = "live"]
    /\ Elsewhere /\ Counts /\ UNCHANGED <<held, edges, list, fired>>

Deref(o) ==
    /\ Step /\ weak[o] = "live" /\ o \notin held
    /\ held' = held \cup {o}
    /\ Elsewhere /\ Counts /\ UNCHANGED <<edges, list, weak, fired>>

Freeze ==
    /\ Step /\ Candidates(NumGenerations - 1) # {}
    /\ list' = [o \in Obj |-> IF list[o].gen < NumGenerations THEN On("permanent") ELSE list[o]]
    /\ Elsewhere /\ Counts /\ UNCHANGED <<held, edges, weak, fired>>

Unfreeze ==
    /\ Step /\ OnList("permanent") # {}
    /\ list' = [o \in Obj |-> IF list[o] = On("permanent") THEN In(0) ELSE list[o]]
    /\ Elsewhere /\ Counts /\ UNCHANGED <<held, edges, weak, fired>>

Program ==
    \/ \E o \in Obj : New(o) \/ Hold(o) \/ Release(o) \/ MakeWeak(o) \/ Deref(o)
    \/ \E o, p \in Obj : Refer(o, p) \/ Forget(o, p)
    \/ Freeze
    \/ Unfreeze

-----------------------------------------------------------------------------
(* The collection.                                                         *)

(* runCollect: whoever asks during a collection is turned away.            *)
CollectStart(g) ==
    /\ phase = "idle" /\ phase' = "start" /\ gen' = g
    /\ UNCHANGED <<finalizable, held, edges, list, gcFinalized, hdrFinalized, ran, weak, fired,
                   pending, todo, self, steps>>

(* Mutant: what frames hold decides alone; older objects are not asked.    *)
SurvivorsOfRoots(C, R) == Closure(C, edges, R)

(* updateRefs, subtractRefs, moveUnreachable over C: what the references   *)
(* from elsewhere, and the roots in R, lead to.                            *)
Survivors(C, R) ==
    LET count == [o \in Obj |-> Refcnt(held, self, edges, o)]
    IN  Closure(C, edges, R \cup { o \in C : Subtracted(C, edges, count, o) > 0 })

(* handleWeakrefs: the weak references to S that are cleared, and their    *)
(* callbacks in some order.                                                *)
Cut(S) == { o \in S : weak[o] = "live" }

Queue(S) ==
    { q \in [1 .. Cardinality(Cut(S)) -> Cut(S)] :
        \A o \in Cut(S) : \E i \in DOMAIN q : q[i] = o }

(* collectMain up to the finalizers. *)
CollectMain ==
    /\ phase = "start" /\ phase' = "finalize"
    /\ LET C == Candidates(gen)
           S == Survivors(C, Roots)
           U == C \ S
       IN  /\ list' = [o \in Obj |-> IF o \in S THEN On("young")
                                     ELSE IF o \in U THEN On("unreachable") ELSE list[o]]
           /\ todo' = U
           /\ weak' = [o \in Obj |-> IF o \in Cut(U) THEN "dead" ELSE weak[o]]
           /\ pending' \in Queue(U)
    /\ UNCHANGED <<held, edges, gcFinalized, hdrFinalized, ran, fired, gen, self, steps>>

(* Mutant: the walk over the list ends with the node it is at. *)
FinalizeNextOnly(o) ==
    /\ phase = "finalize" /\ self = {} /\ o \in todo \ gcFinalized
    /\ todo' = {}
    /\ gcFinalized' = gcFinalized \cup {o}
    /\ hdrFinalized' = hdrFinalized \cup {o}
    /\ ran' = [ran EXCEPT ![o] = IF o \in finalizable THEN @ + 1 ELSE @]
    /\ self' = {o} \cap finalizable
    /\ UNCHANGED <<held, edges, list, weak, fired, pending, phase, gen, steps>>

(* finalizeGarbage: the next node of the snapshot, which need not be on    *)
(* the list any more.  Only the collector's own flag spares it.            *)
FinalizeNext(o) ==
    /\ phase = "finalize" /\ self = {} /\ o \in todo
    /\ todo' = todo \ {o}
    /\ IF o \in gcFinalized THEN UNCHANGED <<gcFinalized, hdrFinalized, ran, self>>
       ELSE /\ gcFinalized' = gcFinalized \cup {o}
            /\ hdrFinalized' = hdrFinalized \cup {o}
            /\ ran' = [ran EXCEPT ![o] = IF o \in finalizable THEN @ + 1 ELSE @]
            /\ self' = {o} \cap finalizable
    /\ UNCHANGED <<held, edges, list, weak, fired, pending, phase, gen, steps>>

(* The finalizer is done, and its argument's reference goes. *)
FinalizeReturn ==
    /\ phase = "finalize" /\ self # {}
    /\ Decref(held, {}, edges)
    /\ UNCHANGED <<gcFinalized, pending, phase, gen, todo, steps>>

(* Mutant: what was unreachable is taken to be so still. *)
HandleResurrectedNone ==
    /\ phase = "finalize" /\ self = {} /\ todo = {}
    /\ phase' = "clear"
    /\ todo' = OnList("unreachable")
    /\ list' = [o \in Obj |-> IF list[o] = On("unreachable") THEN On("still") ELSE list[o]]
    /\ UNCHANGED <<held, edges, gcFinalized, hdrFinalized, ran, weak, fired,
                   pending, gen, self, steps>>

(* handleResurrected: the partition again, over what is left of the        *)
(* unreachable list; what is back ages.                                    *)
HandleResurrected ==
    /\ phase = "finalize" /\ self = {} /\ todo = {}
    /\ phase' = "clear"
    /\ LET C == OnList("unreachable")
           S == Survivors(C, {})
       IN  /\ todo' = C \ S
           /\ list' = [o \in Obj |-> IF o \in S THEN In(Older(gen))
                                     ELSE IF o \in C THEN On("still") ELSE list[o]]
    /\ UNCHANGED <<held, edges, gcFinalized, hdrFinalized, ran, weak, fired,
                   pending, gen, self, steps>>

(* clearGarbage: tp_clear of the next node of the snapshot, if its type    *)
(* has one.                                                                *)
ClearNext(o) ==
    /\ phase = "clear" /\ o \in todo
    /\ todo' = todo \ {o}
    /\ IF o \in Unclearable
       THEN UNCHANGED <<held, edges, list, hdrFinalized, ran, weak, fired, self>>
       ELSE Decref(held, self, edges \ ({o} \X Obj))
    /\ UNCHANGED <<gcFinalized, pending, phase, gen, steps>>

(* reclaimUnreachable, and the survivors age. *)
Reclaim ==
    /\ phase = "clear" /\ todo = {}
    /\ phase' = "callbacks"
    /\ list' = [o \in Obj |-> IF list[o] = On("still") THEN On("gone")
                              ELSE IF list[o] = On("young") THEN In(Older(gen)) ELSE list[o]]
    /\ UNCHANGED <<held, edges, gcFinalized, hdrFinalized, ran, weak, fired,
                   pending, gen, todo, self, steps>>

(* invokeWeakrefCallbacks *)
Callback ==
    /\ phase = "callbacks" /\ pending # <<>>
    /\ pending' = Tail(pending)
    /\ fired' = [fired EXCEPT ![Head(pending)] = @ + 1]
    /\ UNCHANGED <<held, edges, list, gcFinalized, hdrFinalized, ran, weak, phase,
                   gen, todo, self, steps>>

(* Mutant: the collection ends when the garbage is reclaimed. *)
CollectStopEarly ==
    /\ phase = "callbacks" /\ phase' = "idle" /\ pending' = <<>>
    /\ UNCHANGED <<held, edges, list, gcFinalized, hdrFinalized, ran, weak, fired,
                   gen, todo, self, steps>>

CollectStop ==
    /\ phase = "callbacks" /\ pending = <<>> /\ phase' = "idle"
    /\ UNCHANGED <<held, edges, list, gcFinalized, hdrFinalized, ran, weak, fired,
                   pending, gen, todo, self, steps>>

Collecting ==
    /\ UNCHANGED finalizable
    /\ \/ \E o \in Obj : FinalizeNext(o) \/ ClearNext(o)
       \/ CollectMain \/ FinalizeReturn \/ HandleResurrected
       \/ Reclaim \/ Callback \/ CollectStop

Next ==
    \/ Program
    \/ Collecting
    \/ \E g \in Generations : CollectStart(g)

Spec == Init /\ [][Next]_vars

(* Whoever collects goes on: finalizers and callbacks return, the GIL is   *)
(* handed out fairly.                                                      *)
FairSpec == Spec /\ WF_vars(Collecting)

-----------------------------------------------------------------------------

(* finalize.go:48-49, header.go:38-44: the finalizer runs at most once per *)
(* object, even if it was brought back.                                    *)
FinalizedOnce == \A o \in Obj : ran[o] <= 1

(* finalize.go:113-126: nothing the program can reach is cleared or        *)
(* forgotten, whatever finalizers and callbacks do meanwhile.              *)
NothingInUseIsCleared ==
    InUse \cap (OnList("still") \cup OnList("gone")) = {}

(* The same, as long as no finalizer has run for the second time.          *)
NothingFinalizedOnceIsCleared == FinalizedOnce => NothingInUseIsCleared

(* weakref.go:1-16, refcount.go:78-89: a weak reference calls back no more *)
(* than once, by whichever way its object dies, never while it can still   *)
(* hand the object out, and hands out nothing that is gone for good.       *)
WeakrefsAreSound == \A o \in Obj :
    /\ fired[o] + Cardinality({ i \in DOMAIN pending : pending[i] = o })
       = IF weak[o] = "dead" THEN 1 ELSE 0
    /\ list[o] = On("gone") /\ FinalizedOnce => weak[o] # "live"

(* finalize.go:1-6: nothing of a cycle is cleared before all of it has     *)
(* been finalized, and what was not is not lost.                           *)
FinalizedBeforeCleared == \A o \in finalizable :
    list[o] \in {On("still"), On("gone")} => ran[o] > 0

(* refs.go:1-10, reachable.go:1-6: what a collection keeps of its          *)
(* candidates is what frames, or objects outside, lead to.                 *)
KeepsWhatIsHeld ==
    [][CollectMain =>
         LET C == Candidates(gen)
             outside == { o \in C : \E e \in edges : e[1] \notin C /\ e[2] = o }
         IN  \A o \in C : list'[o] = On("young") <=> o \in Closure(C, edges, Roots \cup outside)
      ]_vars

(* Types, and: the finalizers of a cycle come before its clears.           *)
CollectorInv == CollectorTypeOK /\ FinalizedBeforeCleared

(* The callback of every weak reference that was cleared is called.        *)
CallbacksRun == \A o \in Obj : weak[o] = "dead" ~> fired[o] = 1
=============================================================================
