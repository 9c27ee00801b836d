------------------------------ MODULE DictLock ------------------------------
(***************************************************************************)
(* The lock of a dict (objects/dict_lock.go) on top of EvalLoop: a         *)
(* reentrant lock, owned by a Python thread, that is held across whole     *)
(* dict operations and the Python code they call: __eq__ of a key in the   *)
(* probe, __hash__ in a deletion, __del__ of a value that is dropped.      *)
(* That code polls the breaker, blocks, and uses dicts itself.             *)
(*                                                                         *)
(* Goroutines outside Eval (start-up, threads whose function is a dict's   *)
(* method) use dicts too, under their goroutine's number and without the   *)
(* GIL; Python code that such an operation calls enters Eval, and is a     *)
(* thread.                                                                 *)
(***************************************************************************)
EXTENDS EvalLoop, FiniteSets

CONSTANTS
    Dicts,
    Bare,       \* goroutines that use dicts outside Eval
    MaxNest     \* bound on the dict operations a goroutine is inside of

VARIABLES
    owner, depth,   \* of each dict's lock
    waiting,        \* goroutines on its cond, the longest waiting first
    signalled,      \* goroutines off it that have still to look at owner
    wants,          \* the dict each goroutine waits for
    inside          \* history: the operations a goroutine is inside of, the
                    \* innermost last: the dict, and who locked it

dictVars == <<owner, depth, waiting, signalled, wants, inside>>

InSeq(x, s) == \E i \in 1 .. Len(s) : s[i] = x
Levels(g, d) == { i \in 1 .. Len(inside[g]) : inside[g][i].dict = d }
Innermost(g) == inside[g][Len(inside[g])]

(* dictGoid *)
Self(g) == IF pc[g] = "out" THEN g ELSE ThreadOf[g]

DictTypeOK ==
    /\ owner \in [Dicts -> Threads \cup Bare \cup {None}]
    /\ depth \in [Dicts -> Nat]
    /\ waiting \in [Dicts -> Seq(Goids)]
    /\ signalled \subseteq Goids
    /\ wants \in [Goids -> Dicts \cup {None}]
    /\ inside \in [Goids -> Seq([dict : Dicts, by : Threads \cup Bare])]
    /\ \A g \in Goids :
          /\ Len(inside[g]) <= MaxNest
          /\ g \in Bare /\ inside[g] = << >> => pc[g] = "out"
          /\ wants[g] # None => pc[g] = "run" \/ (g \in Bare /\ pc[g] = "out")
          /\ wants[g] # None <=> g \in signalled \/ \E d \in Dicts : InSeq(g, waiting[d])

DictInit ==
    /\ Init
    /\ owner = [d \in Dicts |-> None]
    /\ depth = [d \in Dicts |-> 0]
    /\ waiting = [d \in Dicts |-> << >>]
    /\ signalled = {}
    /\ wants = [g \in Goids |-> None]
    /\ inside = [g \in Goids |-> << >>]

Ready(g) == wants[g] = None /\ (pc[g] = "run" \/ (g \in Bare /\ pc[g] = "out"))

Enters(g, d) == inside' = [inside EXCEPT ![g] = Append(@, [dict |-> d, by |-> Self(g)])]

-----------------------------------------------------------------------------

(* lock by the owner's own code. *)
Reenter(g, d) ==
    /\ owner[d] = Self(g)
    /\ depth' = [depth EXCEPT ![d] = @ + 1]
    /\ Enters(g, d)
    /\ UNCHANGED <<owner, waiting, signalled, wants>>

TakeDict(g, d) ==
    /\ owner[d] = None
    /\ owner' = [owner EXCEPT ![d] = Self(g)]
    /\ depth' = [depth EXCEPT ![d] = 1]
    /\ Enters(g, d)

(* cond.Wait; the GIL, if g has it, is kept. *)
WaitFor(g, d) ==
    /\ owner[d] # None
    /\ waiting' = [waiting EXCEPT ![d] = Append(@, g)]
    /\ UNCHANGED <<owner, depth, inside>>

Lock(g, d) ==
    /\ Ready(g) /\ Len(inside[g]) < MaxNest
    /\ \/ Reenter(g, d)
       \/ TakeDict(g, d) /\ UNCHANGED <<waiting, signalled, wants>>
       \/ /\ owner[d] # Self(g)
          /\ WaitFor(g, d)
          /\ wants' = [wants EXCEPT ![g] = d]
          /\ UNCHANGED signalled
    /\ UNCHANGED evalVars

(* Back from cond.Wait. *)
Woken(g) ==
    /\ g \in signalled
    /\ signalled' = signalled \ {g}
    /\ \/ /\ TakeDict(g, wants[g])
          /\ wants' = [wants EXCEPT ![g] = None]
          /\ UNCHANGED waiting
       \/ WaitFor(g, wants[g]) /\ UNCHANGED wants
    /\ UNCHANGED evalVars

(* Mutant: the outermost frees the lock and tells nobody. *)
UnlockSilently(g) ==
    /\ Ready(g) /\ inside[g] # << >> /\ Innermost(g).by = Self(g)
    /\ LET d == Innermost(g).dict
       IN  /\ depth' = [depth EXCEPT ![d] = @ - 1]
           /\ owner' = IF depth[d] = 1 THEN [owner EXCEPT ![d] = None] ELSE owner
    /\ inside' = [inside EXCEPT ![g] = SubSeq(@, 1, Len(@) - 1)]
    /\ UNCHANGED <<evalVars, waiting, signalled, wants>>

(* The end of the innermost operation; the outermost frees the lock.       *)
Unlock(g) ==
    /\ Ready(g) /\ inside[g] # << >> /\ Innermost(g).by = Self(g)
    /\ LET d == Innermost(g).dict
       IN  /\ depth' = [depth EXCEPT ![d] = @ - 1]
           /\ IF depth[d] = 1
              THEN /\ owner' = [owner EXCEPT ![d] = None]
                   /\ IF waiting[d] = << >> THEN UNCHANGED <<waiting, signalled>>
                      ELSE /\ waiting' = [waiting EXCEPT ![d] = Tail(@)]
                           /\ signalled' = signalled \cup {Head(waiting[d])}
              ELSE UNCHANGED <<owner, waiting, signalled>>
    /\ inside' = [inside EXCEPT ![g] = SubSeq(@, 1, Len(@) - 1)]
    /\ UNCHANGED <<evalVars, wants>>

(* Python code, inside a dict operation or not; it leaves Eval when the    *)
(* operations it began are over.  Outside Eval it is what they call.       *)
Eval(g) ==
    /\ wants[g] = None
    /\ \/ (g \in Bare => inside[g] # << >>) /\ Enter(g)
       \/ Acquire(g) \/ Poll(g) \/ HandleBreaker(g)
       \/ BeginAllowThreads(g) \/ EndAllowThreads(g)
       \/ (inside[g] # << >> => Innermost(g).by # ThreadOf[g]) /\ Leave(g)
    /\ UNCHANGED dictVars

DictStep(g) ==
    Eval(g) \/ Unlock(g) \/ Woken(g) \/ \E d \in Dicts : Lock(g, d)

DictNext == \E g \in Goids : DictStep(g)

DictSpec == DictInit /\ [][DictNext]_<<evalVars, dictVars>>

-----------------------------------------------------------------------------

(* One goroutine at a time is in the operations on a dict, and the owner   *)
(* and depth of its lock are that goroutine's and how often it is inside.  *)
OneInside ==
    \A d \in Dicts :
        IF owner[d] = None
        THEN depth[d] = 0 /\ \A g \in Goids : Levels(g, d) = {}
        ELSE \E g \in Goids :
                /\ owner[d] \in {g, ThreadOf[g]}
                /\ Levels(g, d) # {}
                /\ depth[d] = Cardinality(Levels(g, d))
                /\ \A h \in Goids \ {g} : Levels(h, d) = {}

(* Nobody sleeps on a free dict: there is an owner who will signal, or one *)
(* that was signalled and is about to look.                                *)
NobodyForgotten ==
    \A d \in Dicts :
        waiting[d] # << >> => owner[d] # None \/ \E g \in signalled : wants[g] = d

DictInv == DictTypeOK /\ OneInside /\ NobodyForgotten
=============================================================================
