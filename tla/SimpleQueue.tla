---------------------------- MODULE SimpleQueue ----------------------------
(***************************************************************************)
(* _queue.SimpleQueue (module/_queue/module.go) on top of EvalLoop: a      *)
(* slice under a Go mutex, and a sync.Cond for those who find it empty.    *)
(*                                                                         *)
(* Every method but a get that waits is one step: it runs under q.mu.      *)
(* Goroutines whose function is q.put or q.get itself call it outside Eval *)
(* (start_joinable_thread, handle.go:300) and never touch the GIL.  An     *)
(* item is the number of its put.                                          *)
(***************************************************************************)
EXTENDS EvalLoop, FiniteSets

CONSTANTS
    Bare,       \* goroutines that call put and get outside Eval
    MaxPuts     \* bound on the items put

VARIABLES
    buf,        \* q.buf
    waiting,    \* goroutines on q.cond, the longest waiting first
    signalled,  \* goroutines off q.cond that have still to take q.mu
    puts,       \* items put so far
    got         \* history: the items taken, in the order they were

queueVars == <<buf, waiting, signalled, puts, got>>
vars == <<evalVars, queueVars>>

Waits(g) == \E i \in 1 .. Len(waiting) : waiting[i] = g
InGet(g) == Waits(g) \/ g \in signalled

(* Goroutines on q.cond are there once; only running ones or bare ones are. *)
QueueTypeOK ==
    /\ puts \in 0 .. MaxPuts
    /\ buf \in Seq(1 .. MaxPuts) /\ got \in Seq(1 .. MaxPuts)
    /\ waiting \in Seq(Goids) /\ signalled \subseteq Goids
    /\ \A i, j \in 1 .. Len(waiting) : waiting[i] = waiting[j] => i = j
    /\ \A g \in Goids : InGet(g) => pc[g] = IF g \in Bare THEN "out" ELSE "run"
    /\ \A g \in signalled : ~Waits(g)

QueueInit ==
    /\ Init
    /\ buf = << >> /\ waiting = << >> /\ signalled = {}
    /\ puts = 0 /\ got = << >>

(* Can call a method: runs Python code, or is outside Eval for good. *)
Ready(g) ==
    /\ ~InGet(g)
    /\ pc[g] = IF g \in Bare THEN "out" ELSE "run"

-----------------------------------------------------------------------------

(* Mutant: a put signals only when the queue was empty. *)
PutSignalsOnce(g) ==
    /\ Ready(g) /\ puts < MaxPuts
    /\ puts' = puts + 1
    /\ buf' = Append(buf, puts + 1)
    /\ IF waiting = << >> \/ buf # << >> THEN UNCHANGED <<waiting, signalled>>
       ELSE waiting' = Tail(waiting) /\ signalled' = signalled \cup {Head(waiting)}
    /\ UNCHANGED <<evalVars, got>>

Put(g) ==
    /\ Ready(g) /\ puts < MaxPuts
    /\ puts' = puts + 1
    /\ buf' = Append(buf, puts + 1)
    /\ IF waiting = << >> THEN UNCHANGED <<waiting, signalled>>
       ELSE waiting' = Tail(waiting) /\ signalled' = signalled \cup {Head(waiting)}
    /\ UNCHANGED <<evalVars, got>>

TakeItem ==
    /\ buf # << >>
    /\ got' = Append(got, Head(buf))
    /\ buf' = Tail(buf)
    /\ UNCHANGED puts

(* get and get_nowait with something there. *)
Get(g) == Ready(g) /\ TakeItem /\ UNCHANGED <<evalVars, waiting, signalled>>

(* get with nothing there: cond.Wait, and whatever lock g holds it keeps.  *)
(* get_nowait raises Empty instead and changes nothing.                    *)
GetWaits(g) ==
    /\ Ready(g) /\ buf = << >>
    /\ waiting' = Append(waiting, g)
    /\ UNCHANGED <<evalVars, buf, signalled, puts, got>>

(* Back from cond.Wait: the queue is looked at again. *)
Woken(g) ==
    /\ g \in signalled
    /\ signalled' = signalled \ {g}
    /\ \/ TakeItem /\ UNCHANGED waiting
       \/ /\ buf = << >>
          /\ waiting' = Append(waiting, g)
          /\ UNCHANGED <<buf, puts, got>>
    /\ UNCHANGED evalVars

QueueStep(g) ==
    \/ Put(g) \/ Get(g) \/ GetWaits(g) \/ Woken(g)
    \/ g \notin Bare /\ ~InGet(g) /\ Step(g) /\ UNCHANGED queueVars

QueueNext == \E g \in Goids : QueueStep(g)

QueueSpec == QueueInit /\ [][QueueNext]_vars

-----------------------------------------------------------------------------

(* As many are awake as there are items, as long as somebody sleeps: no    *)
(* put is lost on a waiter, also when others take what it was woken for.   *)
EnoughWoken == waiting # << >> => Cardinality(signalled) >= Len(buf)

(* Items come out in the order they were put in, each once.                *)
FirstInFirstOut ==
    LET all == got \o buf
    IN  Len(all) = puts /\ \A i \in 1 .. Len(all) : all[i] = i

QueueInv == QueueTypeOK /\ EnoughWoken /\ FirstInFirstOut
=============================================================================
