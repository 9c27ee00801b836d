------------------------------ MODULE Generator ------------------------------
(***************************************************************************)
(* Generators and coroutines (objects/generator.go, objects/coroutine.go,  *)
(* vm/eval_gen.go): every body is a goroutine of its own, registered for   *)
(* the thread that created it.  Send, Throw and Close post a message on    *)
(* the body's SendCh and wait on its YieldCh, both of capacity one.  The   *)
(* driver's hold of the GIL passes to the body with the message and comes  *)
(* back before the answer (genGILResume, genGILSuspend): in baton mode by  *)
(* Handoff, in genuine mode, for a driver that does not hold the lock, by  *)
(* AcquireReentrant and ReleaseGoid.                                       *)
(*                                                                         *)
(* Forwarding to the target of a yield from is not modelled: a body that   *)
(* drives another does so by Send or Throw.                                *)
(***************************************************************************)
EXTENDS EvalLoop, FiniteSets

CONSTANTS
    Bodies,     \* goroutines of generator bodies
    Bare,       \* goroutines outside Eval (start_joinable_thread of a builtin)
    MayDrive,   \* <<d, b>>: d calls b's Send
    MayThrow    \* <<d, b>>: d calls b's Throw or Close

Mains == Goids \ (Bodies \cup Bare)

ASSUME GenAssumption ==
    /\ Bodies \cup Bare \subseteq Goids
    /\ Bodies \cap Bare = {}
    /\ MayDrive \cup MayThrow \subseteq Goids \X Bodies

VARIABLES
    started, closed, executing,  \* of each body: g.started, g.closed, g.Running
    driver,     \* genDriverGoid, genDriverHolds of each body
    sendCh,
    yieldCh,
    call        \* the body each goroutine drives, and for which method

genVars == <<started, closed, executing, driver, sendCh, yieldCh, call>>
vars == <<evalVars, genVars>>

GenPCs == EvalPCs \cup {"send", "await"} \cup
          {"fresh", "parked", "resume", "woke", "dismiss",
           "suspend", "answer", "finish", "last", "dead"}

Methods == {"", "Send", "Throw", "Close"}
NoCall == [body |-> None, method |-> ""]
NoDriver == [goid |-> None, holds |-> FALSE, err |-> FALSE]
Msgs == [goid : Goids, holds : BOOLEAN, err : BOOLEAN]

GenTypeOK ==
    /\ GilTypeOK
    /\ pc \in [Goids -> GenPCs]
    /\ armed \in [Threads -> BOOLEAN]
    /\ {started, closed, executing} \subseteq [Bodies -> BOOLEAN]
    /\ driver \in [Bodies -> Msgs \cup {NoDriver}]
    /\ sendCh \in [Bodies -> Msgs \cup {NoDriver}]
    /\ yieldCh \in [Bodies -> {"", "value", "stop"}]
    /\ call \in [Goids -> [body : Bodies \cup {None}, method : Methods]]

GenInit ==
    /\ GilInit
    /\ pc = [g \in Goids |-> IF g \in Bodies THEN "fresh" ELSE "out"]
    /\ armed = [t \in Threads |-> FALSE]
    /\ started = [b \in Bodies |-> FALSE]
    /\ closed = [b \in Bodies |-> FALSE]
    /\ executing = [b \in Bodies |-> FALSE]
    /\ driver = [b \in Bodies |-> NoDriver]
    /\ sendCh = [b \in Bodies |-> NoDriver]
    /\ yieldCh = [b \in Bodies |-> ""]
    /\ call = [g \in Goids |-> NoCall]

-----------------------------------------------------------------------------

(* Where a driver is while it drives nobody. *)
Home(d) == IF d \in Bare THEN "out" ELSE "run"

(* CurrentHoldsGILHook: FALSE when no thread is active on the goroutine.   *)
HoldsGIL(d) == d \notin Bare /\ HeldByGoid(d)

(* Mutant: Send does not look at Running. *)
SendUnchecked(d, b) ==
    /\ <<d, b>> \in MayDrive
    /\ Goto(d, Home(d), "send")
    /\ ~closed[b]
    /\ started' = [started EXCEPT ![b] = TRUE]
    /\ call' = [call EXCEPT ![d] = [body |-> b, method |-> "Send"]]
    /\ UNCHANGED <<gilVars, armed, closed, executing, driver, sendCh, yieldCh>>

(* Send, up to the message: a closed body is answered StopIteration and an *)
(* executing one ValueError, and nothing changes.                          *)
Send(d, b) ==
    /\ <<d, b>> \in MayDrive
    /\ Goto(d, Home(d), "send")
    /\ ~closed[b] /\ ~executing[b]
    /\ started' = [started EXCEPT ![b] = TRUE]
    /\ call' = [call EXCEPT ![d] = [body |-> b, method |-> "Send"]]
    /\ UNCHANGED <<gilVars, armed, closed, executing, driver, sendCh, yieldCh>>

(* Throw and Close on a body that has been started do not look at Running. *)
Throw(d, b) ==
    /\ <<d, b>> \in MayThrow
    /\ ~closed[b] /\ started[b]
    /\ Goto(d, Home(d), "send")
    /\ \E m \in {"Throw", "Close"} : call' = [call EXCEPT ![d] = [body |-> b, method |-> m]]
    /\ UNCHANGED <<gilVars, armed, started, closed, executing, driver, sendCh, yieldCh>>

(* Throw and Close on one that has not: it is marked closed and never run. *)
ThrowUnstarted(d, b) ==
    /\ <<d, b>> \in MayThrow
    /\ ~closed[b] /\ ~started[b]
    /\ pc[d] = Home(d)
    /\ closed' = [closed EXCEPT ![b] = TRUE]
    /\ UNCHANGED <<evalVars, started, executing, driver, sendCh, yieldCh, call>>

(* SendCh <- GenMsg, when there is room; the driver goes on to wait. *)
Post(d) ==
    LET b == call[d].body IN
    /\ Goto(d, "send", "await")
    /\ sendCh[b] = NoDriver
    /\ sendCh' = [sendCh EXCEPT ![b] = [goid |-> d, holds |-> HoldsGIL(d),
                                       err |-> call[d].method # "Send"]]
    /\ UNCHANGED <<gilVars, armed, started, closed, executing, driver, yieldCh, call>>

(* <-YieldCh: an error closes the generator, and so does any answer to a   *)
(* Close.                                                                  *)
Collect(d) ==
    LET b == call[d].body IN
    /\ Goto(d, "await", Home(d))
    /\ yieldCh[b] # ""
    /\ yieldCh' = [yieldCh EXCEPT ![b] = ""]
    /\ closed' = [closed EXCEPT ![b] = @ \/ yieldCh[b] = "stop" \/ call[d].method = "Close"]
    /\ call' = [call EXCEPT ![d] = NoCall]
    /\ UNCHANGED <<gilVars, armed, started, executing, driver, sendCh>>

-----------------------------------------------------------------------------

(* The body wakes up with a message.  One that has overtaken the first     *)
(* Send and is an exception ends a body that has not begun.                *)
Receive(b) ==
    /\ \/ Goto(b, "parked", "resume")
       \/ Goto(b, "fresh", IF sendCh[b].err THEN "dismiss" ELSE "resume")
    /\ sendCh[b] # NoDriver
    /\ driver' = [driver EXCEPT ![b] = sendCh[b]]
    /\ sendCh' = [sendCh EXCEPT ![b] = NoDriver]
    /\ UNCHANGED <<gilVars, armed, started, closed, executing, yieldCh, call>>

(* genGILResume *)
Resume(b) ==
    /\ \/ /\ Goto(b, "resume", "woke") \/ Goto(b, "dismiss", "finish")
          /\ IF driver[b].holds
             THEN Handoff(ThreadOf[b], b)
             ELSE Acquired(ThreadOf[b], b)
       \/ /\ ~driver[b].holds
          /\ pc[b] \in {"resume", "dismiss"}
          /\ Wait(ThreadOf[b], b)
          /\ UNCHANGED pc
    /\ UNCHANGED <<armed, genVars>>

SetRunning(b) ==
    /\ Goto(b, "woke", "run")
    /\ executing' = [executing EXCEPT ![b] = TRUE]
    /\ UNCHANGED <<gilVars, armed, started, closed, driver, sendCh, yieldCh, call>>

(* YIELD_VALUE, and the end of the body: no longer executing, and at the   *)
(* end closed.                                                             *)
Yield(b) ==
    /\ Goto(b, "run", "suspend")
    /\ executing' = [executing EXCEPT ![b] = FALSE]
    /\ UNCHANGED <<gilVars, armed, started, closed, driver, sendCh, yieldCh, call>>

Finish(b) ==
    /\ Goto(b, "run", "finish")
    /\ executing' = [executing EXCEPT ![b] = FALSE]
    /\ closed' = [closed EXCEPT ![b] = TRUE]
    /\ UNCHANGED <<gilVars, armed, started, driver, sendCh, yieldCh, call>>

(* Mutants: genGILSuspend leaves the lock with the parked body; it always  *)
(* releases it.                                                            *)
SuspendKeepsGil(b) ==
    /\ Goto(b, "suspend", "answer") \/ Goto(b, "finish", "last")
    /\ UNCHANGED <<gilVars, armed, genVars>>

SuspendReleases(b) ==
    /\ Goto(b, "suspend", "answer") \/ Goto(b, "finish", "last")
    /\ ReleaseGoid(b)
    /\ UNCHANGED <<armed, genVars>>

(* genGILSuspend *)
Suspend(b) ==
    /\ Goto(b, "suspend", "answer") \/ Goto(b, "finish", "last")
    /\ IF driver[b].holds THEN Handoff(ThreadOf[b], driver[b].goid)
                          ELSE ReleaseGoid(b)
    /\ UNCHANGED <<armed, genVars>>

(* Mutant: a body that ends does not say so. *)
AnswerValues(b) ==
    /\ yieldCh[b] = ""
    /\ \/ Goto(b, "answer", "parked") /\ yieldCh' = [yieldCh EXCEPT ![b] = "value"]
       \/ Goto(b, "last", "dead") /\ UNCHANGED yieldCh
    /\ UNCHANGED <<gilVars, armed, started, closed, executing, driver, sendCh, call>>

(* YieldCh <- GenMsg, when there is room. *)
Answer(b) ==
    /\ yieldCh[b] = ""
    /\ \/ Goto(b, "answer", "parked") /\ yieldCh' = [yieldCh EXCEPT ![b] = "value"]
       \/ Goto(b, "last", "dead") /\ yieldCh' = [yieldCh EXCEPT ![b] = "stop"]
    /\ UNCHANGED <<gilVars, armed, started, closed, executing, driver, sendCh, call>>

-----------------------------------------------------------------------------

(* Python code of a main goroutine or of a body. *)
Eval(g) ==
    /\ \/ Acquire(g) \/ Poll(g) \/ HandleBreaker(g)
       \/ BeginAllowThreads(g) \/ EndAllowThreads(g)
    /\ UNCHANGED genVars

Main(g) == (Enter(g) \/ Leave(g)) /\ UNCHANGED genVars

Drive(d) ==
    \/ Post(d) \/ Collect(d)
    \/ \E b \in Bodies : Send(d, b) \/ Throw(d, b) \/ ThrowUnstarted(d, b)

Body(b) ==
    Receive(b) \/ Resume(b) \/ SetRunning(b) \/ Yield(b) \/ Finish(b) \/ Suspend(b) \/ Answer(b)

GenNext ==
    \/ \E g \in Mains : Main(g)
    \/ \E g \in Mains \cup Bodies : Eval(g)
    \/ \E d \in Goids : Drive(d)
    \/ \E b \in Bodies : Body(b)

GenSpec == GenInit /\ [][GenNext]_vars

(* As in EvalLoop; and a body that runs yields or ends some day, a         *)
(* blocking call returns, and channels deliver.                            *)
GenFairSpec ==
    /\ GenSpec
    /\ \A g \in Mains \cup Bodies :
          /\ WF_vars(Eval(g) /\ (Poll(g) \/ HandleBreaker(g) \/ EndAllowThreads(g)))
          /\ WF_vars(Eval(g) /\ Acquire(g))
          /\ SF_vars(Eval(g) /\ Acquire(g) /\ pc'[g] = "run")
    /\ \A d \in Goids : WF_vars(Post(d)) /\ WF_vars(Collect(d))
    /\ \A b \in Bodies :
          /\ WF_vars(Receive(b) \/ SetRunning(b) \/ Suspend(b) \/ Answer(b))
          /\ WF_vars(Resume(b)) /\ SF_vars(Yield(b) \/ Finish(b))

-----------------------------------------------------------------------------

(* eval_gen.go:362: the body genuinely holds the GIL while it runs, so it  *)
(* can release it around a blocking call and yield it at a poll.           *)
RunnerHoldsGil == \A g \in Running : HeldByGoid(g)

(* A body that is not running has given the lock back: it never stays with *)
(* a goroutine that waits for a message.                                   *)
ParkedBodyHasNoGil ==
    \A b \in Bodies :
        pc[b] \in {"answer", "last", "fresh", "parked", "dead"} => holderGoid # b

(* The goroutine that drives a body is the one the body answers, and there *)
(* is only one: nobody collects an answer meant for somebody else.         *)
OneDriver ==
    /\ \A d, e \in Goids :
          pc[d] = "await" /\ pc[e] = "await" /\ call[d].body = call[e].body => d = e
    /\ \A b \in Bodies :
          pc[b] \in {"resume", "woke", "dismiss", "run", "suspend", "answer", "finish", "last"}
              => call[driver[b].goid].body = b

(* eval_gen.go:31-60: the lock follows whoever runs: a body that runs has  *)
(* it, for itself, and one that waits for a message has not.  And a body   *)
(* has one driver, however throw, close and send meet.                     *)
GenInv == GenTypeOK /\ OneRuns /\ RunnerHoldsGil /\ ParkedBodyHasNoGil /\ OneDriver

(* A driver finds the lock where it left it: it waits for the answer and   *)
(* runs on without taking the GIL again.                                   *)
AnsweredDriverHolds ==
    \A d \in Goids \ Bare :
        pc[d] = "await" /\ yieldCh[call[d].body] # "" => HeldByGoid(d)

(* No answer gets lost: whoever waits for one has a message on its way to  *)
(* a body that will take it, or drives a body that goes on, or is answered.*)
AnswerIsComing ==
    \A d \in Goids : pc[d] = "await" =>
        LET b == call[d].body IN
        \/ sendCh[b].goid = d /\ pc[b] \in {"fresh", "parked"}
        \/ driver[b].goid = d /\ pc[b] \notin {"fresh", "parked", "dead"}
        \/ yieldCh[b] # ""

(* A generator that is driven by Python code answers.  (One driven from    *)
(* outside Eval contends for the lock, and may never get it.)              *)
DriverIsAnswered == \A d \in Goids \ Bare : (pc[d] = "await") ~> (pc[d] = Home(d))
=============================================================================
