---------------------------- MODULE ThreadHandle ----------------------------
(***************************************************************************)
(* Starting and joining threads (module/_thread/handle.go, and             *)
(* start_new_thread in module.go), on top of EvalLoop: the goroutine that  *)
(* starts another waits for its ident with the GIL held, and whoever joins *)
(* waits for the handle's `done` channel with the GIL released.            *)
(*                                                                         *)
(* The function of a thread is a Python function: it enters Eval once and  *)
(* leaves it once.  As threading.Thread does, nobody joins the handle of a *)
(* thread that is not started, or its own.                                 *)
(***************************************************************************)
EXTENDS EvalLoop

CONSTANTS
    Parents,    \* goroutines that are there from the start
    Joiners,    \* goroutines that join others
    Handles,
    Reuse       \* whether a handle is given to start_joinable_thread again

HandleAssumption ==
    /\ Parents \subseteq Goids /\ Joiners \subseteq Goids
    /\ None \notin Handles
    /\ Reuse \in BOOLEAN

VARIABLES
    life,       \* how far a started goroutine is
    handleOf,   \* its handle; None in start_new_thread
    starting,   \* the goroutine somebody waits for to publish its ident
    joining,    \* the join under way of each goroutine
    ident, done \* of each handle

threadVars == <<life, handleOf, starting, joining, ident, done>>
vars == <<evalVars, threadVars>>

(* Not started; started; has sent its ident; has called its function; has  *)
(* returned from it; has closed `done`.                                    *)
Lives == {"unborn", "born", "known", "called", "returned", "over"}
Alive(c) == life[c] \in {"born", "known", "called"}
NoJoin == [handle |-> None, forever |-> FALSE]

HandleTypeOK ==
    /\ TypeOK
    /\ life \in [Goids -> Lives]
    /\ handleOf \in [Goids -> Handles \cup {None}]
    /\ starting \in [Goids -> Goids \cup {None}]
    /\ joining \in [Goids -> [handle : Handles \cup {None}, forever : BOOLEAN]]
    /\ ident \in [Handles -> Goids \cup {None}]
    /\ done \in [Handles -> BOOLEAN]
    /\ \A g \in Goids :
          /\ life[g] # "called" => pc[g] = "out"
          /\ starting[g] # None => pc[g] = "run"
          /\ joining[g] # NoJoin => pc[g] \in {"blocked", "retake"}

HandleInit ==
    /\ Init
    /\ life = [g \in Goids |-> IF g \in Parents THEN "called" ELSE "unborn"]
    /\ handleOf = [g \in Goids |-> None]
    /\ starting = [g \in Goids |-> None]
    /\ joining = [g \in Goids |-> NoJoin]
    /\ ident = [h \in Handles |-> None]
    /\ done = [h \in Handles |-> FALSE]

Moves(c, from, to) == life[c] = from /\ life' = [life EXCEPT ![c] = to]
Runs(g) == pc[g] = "run" /\ starting[g] = None
Started(h) == \E c \in Goids : handleOf[c] = h

-----------------------------------------------------------------------------

(* start_joinable_thread with a handle, start_new_thread without: the go   *)
(* statement, and off to wait for the ident.                               *)
Start(g, c, h) ==
    /\ Runs(g)
    /\ h # None => Reuse \/ ~Started(h)
    /\ Moves(c, "unborn", "born")
    /\ handleOf' = [handleOf EXCEPT ![c] = h]
    /\ starting' = [starting EXCEPT ![g] = c]
    /\ UNCHANGED <<evalVars, joining, ident, done>>

(* Mutant: the ident is sent by a goroutine that has the GIL. *)
PublishInside(c) ==
    /\ ~locked
    /\ Moves(c, "born", "known")
    /\ ident' = IF handleOf[c] = None THEN ident
                ELSE [ident EXCEPT ![handleOf[c]] = c]
    /\ UNCHANGED <<evalVars, handleOf, starting, joining, done>>

(* The goroutine sets the ident of its handle and sends it. *)
Publish(c) ==
    /\ Moves(c, "born", "known")
    /\ ident' = IF handleOf[c] = None THEN ident
                ELSE [ident EXCEPT ![handleOf[c]] = c]
    /\ UNCHANGED <<evalVars, handleOf, starting, joining, done>>

(* <-idCh *)
ReceiveIdent(g) ==
    /\ starting[g] # None /\ life[starting[g]] \notin {"unborn", "born"}
    /\ starting' = [starting EXCEPT ![g] = None]
    /\ UNCHANGED <<evalVars, life, handleOf, joining, ident, done>>

(* objects.Call of the thread's function, and the return from it. *)
CallFunction(c) ==
    /\ c \notin Parents
    /\ Enter(c) /\ Moves(c, "known", "called")
    /\ UNCHANGED <<handleOf, starting, joining, ident, done>>

Return(c) ==
    /\ Runs(c) /\ c \notin Parents
    /\ Leave(c) /\ Moves(c, "called", "returned")
    /\ UNCHANGED <<handleOf, starting, joining, ident, done>>

(* Mutant: done is closed before the function is called. *)
SetDoneEarly(c) ==
    /\ life[c] = "known"
    /\ done' = IF handleOf[c] = None THEN done ELSE [done EXCEPT ![handleOf[c]] = TRUE]
    /\ UNCHANGED <<evalVars, life, handleOf, starting, joining, ident>>

(* setDone, deferred to the goroutine's end. *)
SetDone(c) ==
    /\ Moves(c, "returned", "over")
    /\ done' = IF handleOf[c] = None THEN done ELSE [done EXCEPT ![handleOf[c]] = TRUE]
    /\ UNCHANGED <<evalVars, handleOf, starting, joining, ident>>

(* Mutant: join without AllowThreads. *)
JoinWithGil(g, h) ==
    /\ Runs(g) /\ Started(h) /\ handleOf[g] # h
    /\ BlockWithGil(g)
    /\ \E forever \in BOOLEAN :
          joining' = [joining EXCEPT ![g] = [handle |-> h, forever |-> forever]]
    /\ UNCHANGED <<life, handleOf, starting, ident, done>>

(* join, with a timeout or for ever. *)
Join(g, h) ==
    /\ Runs(g) /\ Started(h) /\ handleOf[g] # h
    /\ BeginAllowThreads(g)
    /\ \E forever \in BOOLEAN :
          joining' = [joining EXCEPT ![g] = [handle |-> h, forever |-> forever]]
    /\ UNCHANGED <<life, handleOf, starting, ident, done>>

(* The select of join. *)
Joined(g) ==
    /\ joining[g] # NoJoin
    /\ joining[g].forever => done[joining[g].handle]
    /\ EndAllowThreads(g)
    /\ UNCHANGED threadVars

(* The GIL is taken again, on the way back from a join and otherwise. *)
TakeGil(g) ==
    /\ Acquire(g)
    /\ joining' = IF pc'[g] = "run" THEN [joining EXCEPT ![g] = NoJoin] ELSE joining
    /\ UNCHANGED <<life, handleOf, starting, ident, done>>

Eval(g) ==
    /\ \/ g \in Parents /\ Enter(g)
       \/ Runs(g) /\ (Poll(g) \/ BeginAllowThreads(g) \/ (g \in Parents /\ Leave(g)))
       \/ HandleBreaker(g)
       \/ joining[g] = NoJoin /\ EndAllowThreads(g)
    /\ UNCHANGED threadVars

HandleStep(g) ==
    \/ Eval(g) \/ TakeGil(g)
    \/ \E c \in Goids, h \in Handles \cup {None} : Start(g, c, h)
    \/ ReceiveIdent(g)
    \/ Publish(g) \/ CallFunction(g) \/ Return(g) \/ SetDone(g)
    \/ g \in Joiners /\ \E h \in Handles : Join(g, h)
    \/ Joined(g)

HandleNext == \E g \in Goids : HandleStep(g)

HandleSpec == HandleInit /\ [][HandleNext]_vars

(* As in EvalLoop, and code that runs blocks or leaves some day, without   *)
(* which a third thread may never get the GIL; Go runs what it is told to; *)
(* blocking calls return, and a thread's function that gets to run time    *)
(* and again returns in the end.                                           *)
HandleFairSpec ==
    /\ HandleSpec
    /\ \A g \in Goids :
          /\ WF_vars(Eval(g) /\ pc[g] # "out" /\ pc'[g] \notin {"out", "blocked"})
          /\ WF_vars(Eval(g) /\ Runs(g) /\ BeginAllowThreads(g))
          /\ WF_vars(TakeGil(g)) /\ SF_vars(TakeGil(g) /\ pc'[g] = "run")
          /\ WF_vars(Publish(g)) /\ WF_vars(ReceiveIdent(g))
          /\ WF_vars(CallFunction(g)) /\ SF_vars(Return(g)) /\ WF_vars(SetDone(g))
          /\ WF_vars(Joined(g))

-----------------------------------------------------------------------------

(* handle.go:81: `done` is closed when the thread finishes: a join         *)
(* without a timeout that has returned means that its threads are over.    *)
DoneMeansOver ==
    \A h \in Handles : done[h] => \A c \in Goids : handleOf[c] = h => ~Alive(c)

(* When start has returned the handle has the ident of the new thread.     *)
IdentIsKnown ==
    \A c \in Goids :
        /\ handleOf[c] # None
        /\ \A g \in Goids : starting[g] # c
        => ident[handleOf[c]] = c

(* handle.go:85: what a handle tells is true of the thread it was started  *)
(* with, at every step: its ident to who started it, done to who joins it. *)
HandleInv == HandleTypeOK /\ IdentIsKnown /\ DoneMeansOver
=============================================================================
