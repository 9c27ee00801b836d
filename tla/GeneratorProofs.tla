-------------------------- MODULE GeneratorProofs --------------------------
(***************************************************************************)
(* Proofs about Generator, for any number of threads and of bodies that    *)
(* drive one another in any way the two relations allow, under three       *)
(* assumptions about the program:                                          *)
(*  - outside bodies, goroutines run for threads of their own (OneRoot);   *)
(*  - a body is driven for the thread that created it;                     *)
(*  - nobody throws into, or closes, a body that drives it in turn, be it  *)
(*    through others (ThrowsDown).  Sending to one is allowed: Send looks  *)
(*    at Running and raises ValueError.                                    *)
(*                                                                         *)
(* None of the properties is inductive.  Control is handed around within a *)
(* thread: exactly one of its goroutines, if any, has it (OneControl), and *)
(* all others are idle or wait for one another in a chain that starts      *)
(* outside the bodies (Rooted) and ends with the one in control (Leads).   *)
(* That is why a body sent to by whoever has control is not at work        *)
(* already, and why AcquireReentrant never finds the lock held for the     *)
(* thread of its caller.                                                   *)
(***************************************************************************)
EXTENDS Generator, GilProofs

OneRoot == \A g, h \in Goids \ Bodies : ThreadOf[g] = ThreadOf[h] => g = h

Edges == MayDrive \cup MayThrow

BodiesOfDriver == \A p \in Edges : ThreadOf[p[1]] = ThreadOf[p[2]]

(* A set that is closed under driving keeps the thrower out.               *)
ThrowsDown ==
    \A p \in MayThrow :
        \E S \in SUBSET Goids :
            /\ p[2] \in S /\ p[1] \notin S
            /\ \A q \in Edges : q[1] \in S => q[2] \in S

WellDriven == OneRoot /\ BodiesOfDriver /\ ThrowsDown

-----------------------------------------------------------------------------

IdlePCs == {"fresh", "parked", "dead"}
WorkPCs == {"enter", "run", "breaker", "retake", "blocked",
            "resume", "woke", "suspend", "answer", "finish", "last"}

MainPCs == {"out", "enter", "run", "breaker", "retake", "blocked", "send", "await"}
BodyPCs == IdlePCs \cup (WorkPCs \ {"enter"}) \cup {"send", "await"}

Places ==
    /\ \A g \in Mains : pc[g] \in MainPCs
    /\ \A g \in Bare : pc[g] \in {"out", "send", "await"}
    /\ \A g \in Bodies : pc[g] \in BodyPCs

Drives(d, b) == pc[d] = "await" /\ call[d].body = b
Pending(b) == sendCh[b] # NoDriver
Answered(b) == yieldCh[b] # ""
Busy(b) == pc[b] \notin IdlePCs \/ Pending(b)

(* The message a body will take, or works on. *)
Message(b) == IF Pending(b) THEN sendCh[b] ELSE driver[b]

Calls ==
    \A g \in Goids :
        /\ pc[g] \in {"send", "await"} <=> call[g].body # None
        /\ call[g].body # None => <<g, call[g].body>> \in Edges

(* Who waits for a body, and for what. *)
BusyDriven ==
    \A b \in Bodies : Busy(b) =>
        /\ Message(b) \in Msgs /\ Drives(Message(b).goid, b)
        /\ Message(b).holds <=> Message(b).goid \notin Bare

Channels ==
    \A b \in Bodies :
        /\ Pending(b) => pc[b] \in {"fresh", "parked"} /\ ~Answered(b)
        /\ Answered(b) => pc[b] \in {"parked", "dead"} /\ \E d \in Goids : Drives(d, b)

Awaits ==
    \A d \in Goids, b \in Bodies : Drives(d, b) =>
        /\ Answered(b) \/ (Busy(b) /\ Message(b).goid = d)
        /\ \A e \in Goids : Drives(e, b) => d = e

(* A body that is about to be sent to is idle, and has been started.  The  *)
(* first message to a body is the first Send's: no exception overtakes it. *)
Sends ==
    /\ \A d \in Goids : pc[d] = "send" =>
          LET b == call[d].body IN
          pc[b] \in {"fresh", "parked"} /\ ~Pending(b) /\ ~Answered(b) /\ started[b]
    /\ \A b \in Bodies : ~started[b] => pc[b] = "fresh" /\ ~Pending(b)
    /\ \A b \in Bodies : pc[b] = "fresh" /\ started[b] =>
          \/ Pending(b) /\ ~sendCh[b].err
          \/ \E d \in Goids : pc[d] = "send" /\ call[d] = [body |-> b, method |-> "Send"]

Flags ==
    \A b \in Bodies :
        /\ pc[b] \in {"run", "breaker", "retake", "blocked", "send", "await"} => executing[b]
        /\ pc[b] \in {"finish", "last", "dead"} => closed[b]

(* The goroutine goes on by itself, or when it gets the lock. *)
Ctl(g) ==
    \/ pc[g] \in WorkPCs \cup {"send"}
    \/ g \in Bodies /\ Pending(g)
    \/ pc[g] = "await" /\ Answered(call[g].body)

OneControl ==
    \A g, h \in Goids : Ctl(g) /\ Ctl(h) /\ ThreadOf[g] = ThreadOf[h] => g = h

Rooted ==
    \A b \in Bodies : Busy(b) =>
        \A S \in SUBSET Bodies :
            b \in S => \E c \in S : Busy(c) /\ Message(c).goid \notin S

Leads ==
    \A g \in Goids : pc[g] = "await" =>
        \A S \in SUBSET Goids :
            g \in S => \E c \in S :
                /\ ThreadOf[c] = ThreadOf[g]
                /\ Ctl(c) \/ (pc[c] = "await" /\ call[c].body \notin S)

Linked == Calls /\ BusyDriven /\ Channels /\ Awaits /\ Sends
Control == Places /\ Linked /\ Flags /\ OneControl /\ Rooted /\ Leads

(* Who has the lock: whoever runs, and a driver from its answer until the  *)
(* body it drives has woken up with the next message. *)
HoldsNow(g) ==
    \/ pc[g] \in {"run", "breaker", "send", "woke", "suspend", "finish"}
    \/ pc[g] = "await" /\ pc[call[g].body] \in IdlePCs \cup {"resume", "answer", "last"}

Baton ==
    /\ \A g \in Goids : HeldByGoid(g) <=> g \notin Bare /\ HoldsNow(g)
    /\ IF locked THEN holderGoid \in Goids /\ holder = ThreadOf[holderGoid]
                 ELSE holderGoid = None

(* In AcquireReentrant: a body only when its driver does not hold the lock. *)
Acquiring(g) ==
    \/ pc[g] \in {"enter", "retake"}
    \/ g \in Bodies /\ pc[g] = "resume" /\ ~driver[g].holds

Queued == \A g \in Goids : InCond(g) \/ g \in woken => Acquiring(g)

GenIInv == GenTypeOK /\ Queued /\ Baton /\ Control

-----------------------------------------------------------------------------

(* None is no goroutine, so no body, and neither is the driver of nobody. *)
LEMMA Nobody ==
    /\ None \notin Goids /\ None \notin Bodies /\ Bodies \subseteq Goids /\ Bare \subseteq Goids
    /\ NoDriver \notin Msgs /\ NoDriver.goid = None
    /\ \A p \in Edges : p[1] \in Goids /\ p[2] \in Bodies
  <1>1. NoDriver.goid \notin Goids
    BY GilAssumption DEF NoDriver
  <1> QED BY <1>1, GilAssumption, GenAssumption DEF Edges, NoDriver, Msgs

(* At first everybody is outside, and no body has been started. *)
LEMMA GenInitIInv == GenInit => GenIInv
  <1> SUFFICES ASSUME GenInit PROVE GenIInv
    OBVIOUS
  <1> USE Nobody
  <1>0. /\ pc = [g \in Goids |-> IF g \in Bodies THEN "fresh" ELSE "out"]
        /\ started = [b \in Bodies |-> FALSE] /\ closed = [b \in Bodies |-> FALSE]
        /\ executing = [b \in Bodies |-> FALSE]
        /\ driver = [b \in Bodies |-> NoDriver] /\ sendCh = [b \in Bodies |-> NoDriver]
        /\ yieldCh = [b \in Bodies |-> ""] /\ call = [g \in Goids |-> NoCall]
        /\ armed = [t \in Threads |-> FALSE]
    BY DEF GenInit
  <1>1. locked = FALSE /\ holder = None /\ holderGoid = None /\ requestDrop = FALSE
        /\ condq = << >> /\ woken = {}
    BY DEF GenInit, GilInit
  <1>2. GilTypeOK
    <2>1. condq \in Seq(Goids) /\ 1 .. Len(condq) = {}
      BY <1>1
    <2>2. /\ \A i, j \in 1 .. Len(condq) : condq[i] = condq[j] => i = j
          /\ \A i \in 1 .. Len(condq) : condq[i] \notin woken
      BY ONLY <2>1
    <2> QED BY <1>1, <2>1, <2>2 DEF GilTypeOK
  <1>3. GenTypeOK
    <2>1. NoCall \in [body : Bodies \cup {None}, method : Methods]
      BY DEF NoCall, Methods
    <2> QED BY <1>0, <1>2, <2>1 DEF GenTypeOK, GenPCs, EvalPCs
  <1>4. Queued
    BY <1>1 DEF Queued, InCond
  <1>5. Baton
    BY <1>0, <1>1 DEF Baton, HeldByGoid, HoldsNow
  <1>6. \A b \in Bodies : ~Busy(b) /\ ~Pending(b) /\ ~Answered(b) /\ ~started[b] /\ pc[b] = "fresh"
    BY <1>0 DEF Busy, Pending, Answered, IdlePCs
  <1>7. \A g \in Goids : pc[g] \notin {"send", "await"} /\ call[g].body = None /\ ~Ctl(g)
    <2>1. \A g \in Goids : pc[g] \in {"fresh", "out"} /\ call[g].body = None
      BY <1>0 DEF NoCall
    <2> QED BY <2>1, <1>6 DEF Ctl, WorkPCs
  <1>8. Places
    BY <1>0, GenAssumption DEF Places, Mains, MainPCs, BodyPCs, IdlePCs
  <1>9. Calls
    BY <1>7 DEF Calls
  <1>10. BusyDriven /\ Channels /\ Awaits /\ Sends
    BY <1>6, <1>7 DEF BusyDriven, Channels, Awaits, Sends, Drives
  <1>11. Flags /\ OneControl /\ Rooted /\ Leads
    BY <1>6, <1>7 DEF Flags, OneControl, Rooted, Leads
  <1> QED BY <1>3, <1>4, <1>5, <1>8, <1>9, <1>10, <1>11 DEF GenIInv, Control, Linked

-----------------------------------------------------------------------------

(* Who drives and what: the thread, and the body. *)
LEMMA CallKnown ==
    ASSUME BodiesOfDriver, Calls, NEW g \in Goids, pc[g] \in {"send", "await"}
    PROVE  call[g].body \in Bodies /\ ThreadOf[call[g].body] = ThreadOf[g]
  <1>1. <<g, call[g].body>> \in Edges
    BY DEF Calls
  <1> QED BY <1>1, Nobody DEF BodiesOfDriver

(* A goroutine that works is driven from outside the bodies in the end,    *)
(* by one of its thread that waits.                                        *)
LEMMA RootWaits ==
    ASSUME BodiesOfDriver, Control, NEW b \in Bodies, Busy(b)
    PROVE  \E r \in Goids \ Bodies :
              ThreadOf[r] = ThreadOf[b] /\ pc[r] = "await" /\ ~Answered(call[r].body)
  <1> DEFINE S == { c \in Bodies : ThreadOf[c] = ThreadOf[b] }
  <1>1. S \in SUBSET Bodies /\ b \in S
    OBVIOUS
  <1>2. PICK c \in S : Busy(c) /\ Message(c).goid \notin S
    BY <1>1 DEF Control, Rooted
  <1>3. Message(c) \in Msgs /\ Drives(Message(c).goid, c)
    BY <1>2 DEF Control, Linked, BusyDriven
  <1>4. Message(c).goid \in Goids
    BY <1>3 DEF Msgs
  <1>5. ThreadOf[Message(c).goid] = ThreadOf[c]
    BY <1>3, <1>4, CallKnown DEF Control, Linked, Drives
  <1>6. ~Answered(c)
    BY <1>2 DEF Control, Linked, Channels, Busy, IdlePCs
  <1> QED BY <1>2, <1>3, <1>4, <1>5, <1>6 DEF Drives

(* When the one outside the bodies does not wait, its bodies are all idle. *)
LEMMA RootAlone ==
    ASSUME OneRoot, BodiesOfDriver, Control, NEW r \in Goids \ Bodies,
           pc[r] # "await" \/ Answered(call[r].body),
           NEW h \in Goids, h # r, ThreadOf[h] = ThreadOf[r]
    PROVE  h \in Bodies /\ ~Busy(h) /\ pc[h] \in IdlePCs /\ ~Ctl(h)
  <1>1. h \in Bodies
    BY DEF OneRoot
  <1>2. ~Busy(h)
    BY <1>1, RootWaits DEF OneRoot
  <1> QED BY <1>1, <1>2 DEF Busy, Ctl, IdlePCs, WorkPCs

(* A body that may be sent to, or thrown into, by one that is not itself   *)
(* driving is idle.                                                        *)
LEMMA TargetIdle ==
    ASSUME WellDriven, Control, NEW d \in Goids, NEW b \in Bodies, pc[d] = Home(d),
           ~closed[b],
           \/ <<d, b>> \in MayDrive /\ ~executing[b]
           \/ <<d, b>> \in MayThrow /\ started[b]
    PROVE  /\ pc[b] \in {"fresh", "parked"} /\ ~Pending(b) /\ ~Answered(b)
           /\ pc[b] = "fresh" => ~started[b]
           /\ \A e \in Goids : pc[e] \in {"send", "await"} => call[e].body # b
           /\ b # d
           /\ \A h \in Goids : Ctl(h) /\ ThreadOf[h] = ThreadOf[d] => h = d
  <1>0. <<d, b>> \in Edges /\ ThreadOf[b] = ThreadOf[d]
    BY DEF Edges, WellDriven, BodiesOfDriver
  <1>1. pc[b] # "dead"
    BY DEF Control, Flags
  <1>2. pc[b] \in BodyPCs /\ d \in Mains \cup Bare \cup Bodies
    BY DEF Control, Places, Mains
  <1>3. \A h \in Goids : Ctl(h) /\ ThreadOf[h] = ThreadOf[d] => h = d
    <2>1. CASE d \in Bare
      BY <2>1, RootAlone, GenAssumption DEF Home, WellDriven
    <2>2. CASE d \notin Bare
      BY <2>2 DEF Home, Ctl, WorkPCs, Control, OneControl
    <2> QED BY <2>1, <2>2
  <1>4. b # d \/ pc[b] = "run"
    BY GenAssumption DEF Home
  <1>5. pc[b] \notin {"await", "send"} \cup WorkPCs
    <2>1. CASE <<d, b>> \in MayDrive /\ ~executing[b]
      <3>1. pc[b] \notin {"run", "breaker", "retake", "blocked", "send", "await"}
        BY <2>1 DEF Control, Flags
      <3>2. pc[b] \in WorkPCs => b = d
        BY <1>0, <1>3, Nobody DEF Ctl
      <3> QED BY <3>1, <3>2, <1>4
    <2>2. CASE <<d, b>> \in MayThrow
      <3>1. PICK S \in SUBSET Goids : /\ b \in S /\ d \notin S
                                      /\ \A q \in Edges : q[1] \in S => q[2] \in S
        BY <2>2 DEF WellDriven, ThrowsDown
      <3>2. pc[b] \notin WorkPCs \cup {"send"}
        BY <1>0, <1>3, <3>1, Nobody DEF Ctl
      <3>3. ASSUME pc[b] = "await" PROVE FALSE
        <4>1. PICK c \in S : /\ ThreadOf[c] = ThreadOf[b]
                             /\ Ctl(c) \/ (pc[c] = "await" /\ call[c].body \notin S)
          BY <3>1, <3>3, Nobody DEF Control, Leads
        <4>2. ~Ctl(c)
          BY <4>1, <1>0, <1>3, <3>1
        <4>3. <<c, call[c].body>> \in Edges
          BY <4>1, <4>2, Nobody DEF Control, Linked, Calls
        <4> QED BY <4>1, <4>2, <4>3, <3>1
      <3> QED BY <3>2, <3>3
    <2> QED BY <2>1, <2>2
  <1>6. pc[b] \in {"fresh", "parked"}
    BY <1>1, <1>2, <1>5 DEF BodyPCs, IdlePCs
  <1>7. b # d
    BY <1>4, <1>6
  <1>8. ~Pending(b)
    BY <1>0, <1>3, <1>7, Nobody DEF Ctl
  <1>9. \A e \in Goids : pc[e] \in {"send", "await"} => call[e].body # b
    <2> SUFFICES ASSUME NEW e \in Goids, pc[e] \in {"send", "await"}, call[e].body = b PROVE FALSE
      OBVIOUS
    <2>1. ThreadOf[e] = ThreadOf[d]
      BY <1>0, CallKnown DEF Control, Linked, WellDriven
    <2>2. e # d
      BY DEF Home
    <2>3. pc[e] = "await"
      BY <1>3, <2>1, <2>2 DEF Ctl
    <2>4. Answered(b)
      BY <1>6, <1>8, <2>3 DEF Control, Linked, Awaits, Drives, Busy, IdlePCs
    <2> QED BY <1>3, <2>1, <2>2, <2>3, <2>4 DEF Ctl
  <1>10. ~Answered(b)
    BY <1>9 DEF Control, Linked, Channels, Drives
  <1>11. pc[b] = "fresh" => ~started[b]
    <2>1. \A e \in Goids : pc[e] = "send" => call[e] # [body |-> b, method |-> "Send"]
      BY <1>9
    <2> QED BY <1>8, <2>1 DEF Control, Linked, Sends
  <1> QED BY <1>3, <1>6, <1>7, <1>8, <1>9, <1>10, <1>11

-----------------------------------------------------------------------------

(* Control under each kind of step.                                        *)

CallVars == <<sendCh, yieldCh, driver, call>>

(* A goroutine that has control goes on with its own work. *)
LEMMA WorkKeeps ==
    ASSUME GenTypeOK, Control, NEW g \in Mains \cup Bodies, NEW q \in WorkPCs,
           g \in Mains => q \in MainPCs, g \in Bodies => q \in BodyPCs,
           pc[g] \in WorkPCs, pc' = [pc EXCEPT ![g] = q],
           UNCHANGED <<CallVars, started>>, Flags'
    PROVE  Control'
  <1>0. g \in Goids
    BY Nobody DEF Mains
  <1>1. /\ \A h \in Goids : \A p \in IdlePCs \cup {"send", "await"} : pc'[h] = p <=> pc[h] = p
        /\ \A h \in Goids : pc'[h] \in IdlePCs <=> pc[h] \in IdlePCs
        /\ \A h \in Goids : pc'[h] \in WorkPCs <=> pc[h] \in WorkPCs
    BY <1>0 DEF GenTypeOK, IdlePCs, WorkPCs
  <1>2. \A b : /\ Pending(b)' <=> Pending(b)
               /\ Answered(b)' <=> Answered(b)
               /\ Message(b)' = Message(b)
    BY DEF Pending, Answered, Message, CallVars
  <1>3. \A b \in Bodies : Busy(b)' <=> Busy(b)
    BY <1>1, <1>2, Nobody DEF Busy
  <1>4. \A h \in Goids : \A b : Drives(h, b)' <=> Drives(h, b)
    BY <1>1 DEF Drives, CallVars
  <1>5. \A h \in Goids : Ctl(h)' <=> Ctl(h)
    BY <1>1, <1>2 DEF Ctl, CallVars
  <1>6. call' = call /\ sendCh' = sendCh /\ started' = started
    BY DEF CallVars
  <1>7. Places'
    BY <1>0, GenAssumption DEF Control, Places, Mains, GenTypeOK
  <1>8. Calls'
    BY <1>1, <1>6 DEF Control, Linked, Calls
  <1>9. BusyDriven'
    BY <1>2, <1>3, <1>4 DEF Control, Linked, BusyDriven, Msgs
  <1>10. Channels'
    BY <1>1, <1>2, <1>4, Nobody DEF Control, Linked, Channels, IdlePCs
  <1>11. Awaits'
    BY <1>2, <1>3, <1>4 DEF Control, Linked, Awaits
  <1>12. Sends'
    <2>1. \A d \in Goids : pc[d] = "send" => call[d].body \in Goids
      BY Nobody DEF Control, Linked, Calls
    <2>2. \A h \in Goids : /\ pc'[h] = "send" <=> pc[h] = "send"
                           /\ pc'[h] = "fresh" <=> pc[h] = "fresh"
                           /\ pc'[h] = "parked" <=> pc[h] = "parked"
      BY <1>1 DEF IdlePCs
    <2> QED BY <2>1, <2>2, <1>2, <1>6, Nobody DEF Control, Linked, Sends
  <1>13. OneControl'
    BY <1>5 DEF Control, OneControl
  <1>14. Rooted'
    BY <1>2, <1>3 DEF Control, Rooted
  <1>15. Leads'
    BY <1>1, <1>5, <1>6 DEF Control, Leads
  <1> QED BY <1>7, <1>8, <1>9, <1>10, <1>11, <1>12, <1>13, <1>14, <1>15 DEF Control, Linked

(* A main goroutine enters Eval, or leaves it: its bodies are all idle.    *)
LEMMA RootKeeps ==
    ASSUME WellDriven, GenTypeOK, Control, NEW g \in Mains, NEW q \in {"enter", "out"},
           pc[g] \in {"out", "run"}, pc' = [pc EXCEPT ![g] = q],
           UNCHANGED <<CallVars, started, closed, executing>>
    PROVE  Control'
  <1>0. g \in Goids \ Bodies /\ Mains \subseteq Goids
    BY DEF Mains
  <1>1. \A h \in Goids : h # g => pc'[h] = pc[h]
    BY <1>0 DEF GenTypeOK
  <1>2. pc'[g] = q /\ pc[g] \notin {"send", "await"} /\ q \notin {"send", "await"}
    BY <1>0 DEF GenTypeOK
  <1>3. \A b : /\ Pending(b)' <=> Pending(b)
               /\ Answered(b)' <=> Answered(b)
               /\ Message(b)' = Message(b)
    BY DEF Pending, Answered, Message, CallVars
  <1>4. \A b \in Bodies : Busy(b)' <=> Busy(b)
    BY <1>0, <1>1, <1>3, Nobody DEF Busy
  <1>5. \A h \in Goids : \A b : Drives(h, b)' <=> Drives(h, b)
    BY <1>1, <1>2 DEF Drives, CallVars
  <1>6. \A h \in Goids : h # g => (Ctl(h)' <=> Ctl(h))
    BY <1>1, <1>3 DEF Ctl, CallVars
  <1>7. \A h \in Goids : h # g /\ ThreadOf[h] = ThreadOf[g] => h \in Bodies /\ pc[h] \in IdlePCs /\ ~Ctl(h)
    BY <1>0, <1>2, RootAlone DEF WellDriven
  <1>8. call' = call /\ sendCh' = sendCh /\ started' = started
    BY DEF CallVars
  <1>9. Places'
    BY <1>0, <1>1, <1>2, GenAssumption DEF Control, Places, Mains, MainPCs
  <1>10. Calls'
    BY <1>1, <1>2, <1>8 DEF Control, Linked, Calls
  <1>11. BusyDriven'
    BY <1>3, <1>4, <1>5 DEF Control, Linked, BusyDriven, Msgs
  <1>12. Channels'
    BY <1>0, <1>1, <1>3, <1>5, Nobody DEF Control, Linked, Channels
  <1>13. Awaits'
    BY <1>3, <1>4, <1>5 DEF Control, Linked, Awaits
  <1>14. Sends'
    <2>1. \A d \in Goids : pc[d] = "send" => call[d].body \in Bodies
      BY Nobody DEF Control, Linked, Calls
    <2>2. \A h \in Goids : pc'[h] = "send" <=> pc[h] = "send"
      BY <1>1, <1>2
    <2>3. \A b \in Bodies : pc'[b] = pc[b]
      BY <1>0, <1>1, Nobody
    <2> QED BY <2>1, <2>2, <2>3, <1>3, <1>8 DEF Control, Linked, Sends
  <1>15. Flags'
    BY <1>0, <1>1, Nobody DEF Control, Flags
  <1>16. OneControl'
    BY <1>6, <1>7 DEF Control, OneControl
  <1>17. Rooted'
    BY <1>3, <1>4 DEF Control, Rooted
  <1>18. Leads'
    <2> SUFFICES ASSUME NEW h \in Goids, pc'[h] = "await", NEW S \in SUBSET Goids, h \in S
                 PROVE  \E c \in S : /\ ThreadOf[c] = ThreadOf[h]
                                     /\ Ctl(c)' \/ (pc'[c] = "await" /\ call'[c].body \notin S)
      BY DEF Leads
    <2>1. h # g /\ pc[h] = "await" /\ ThreadOf[h] # ThreadOf[g]
      BY <1>1, <1>2, <1>7 DEF IdlePCs
    <2>2. PICK c \in S : /\ ThreadOf[c] = ThreadOf[h]
                         /\ Ctl(c) \/ (pc[c] = "await" /\ call[c].body \notin S)
      BY <2>1 DEF Control, Leads
    <2> QED BY <2>1, <2>2, <1>1, <1>6, <1>8
  <1> QED BY <1>9, <1>10, <1>11, <1>12, <1>13, <1>14, <1>15, <1>16, <1>17, <1>18 DEF Control, Linked

(* Whoever has control begins to drive an idle body. *)
LEMMA BeginKeeps ==
    ASSUME WellDriven, GenTypeOK, Control, NEW d \in Goids, NEW b \in Bodies, NEW m \in Methods,
           pc[d] = Home(d), ~closed[b],
           \/ <<d, b>> \in MayDrive /\ ~executing[b] /\ m = "Send"
           \/ <<d, b>> \in MayThrow /\ started[b],
           pc' = [pc EXCEPT ![d] = "send"],
           call' = [call EXCEPT ![d] = [body |-> b, method |-> m]],
           started' = [started EXCEPT ![b] = TRUE],
           UNCHANGED <<sendCh, yieldCh, driver, closed, executing>>
    PROVE  Control'
  <1>0. /\ pc[b] \in {"fresh", "parked"} /\ ~Pending(b) /\ ~Answered(b)
        /\ pc[b] = "fresh" => m = "Send"
        /\ \A e \in Goids : pc[e] \in {"send", "await"} => call[e].body # b
        /\ b # d /\ b \in Goids
        /\ \A h \in Goids : Ctl(h) /\ ThreadOf[h] = ThreadOf[d] => h = d
    BY TargetIdle, Nobody
  <1>1. \A h \in Goids : h # d => pc'[h] = pc[h] /\ call'[h] = call[h]
    BY DEF GenTypeOK
  <1>2. /\ pc'[d] = "send" /\ pc[d] \in {"out", "run"} /\ call'[d] = [body |-> b, method |-> m]
        /\ started'[b] = TRUE /\ \A c \in Bodies : c # b => started'[c] = started[c]
    BY DEF GenTypeOK, Home
  <1>3. \A c : /\ Pending(c)' <=> Pending(c)
               /\ Answered(c)' <=> Answered(c)
               /\ Message(c)' = Message(c)
    BY DEF Pending, Answered, Message
  <1>4. d \in Bodies => pc[d] = "run"
    BY GenAssumption DEF Home
  <1>5. \A c \in Bodies : Busy(c)' <=> Busy(c)
    BY <1>1, <1>2, <1>3, <1>4, Nobody DEF Busy, IdlePCs
  <1>6. \A h \in Goids : \A c : Drives(h, c)' <=> Drives(h, c)
    BY <1>1, <1>2 DEF Drives
  <1>7. \A h \in Goids : h # d => (Ctl(h)' <=> Ctl(h))
    BY <1>1, <1>3 DEF Ctl
  <1>8. Ctl(d)'
    BY <1>2 DEF Ctl
  <1>9. Places'
    BY <1>1, <1>2, GenAssumption DEF Control, Places, Mains, MainPCs, BodyPCs
  <1>10. Calls'
    <2>1. <<d, b>> \in Edges /\ b # None
      BY Nobody DEF Edges
    <2> QED BY <1>1, <1>2, <2>1 DEF Control, Linked, Calls
  <1>11. BusyDriven'
    BY <1>3, <1>5, <1>6 DEF Control, Linked, BusyDriven, Msgs
  <1>12. Channels'
    <2>1. \A c \in Bodies : pc[c] \in {"fresh", "parked", "dead"} => pc'[c] = pc[c]
      BY <1>1, <1>4, Nobody
    <2> QED BY <2>1, <1>3, <1>6, Nobody DEF Control, Linked, Channels
  <1>13. Awaits'
    BY <1>3, <1>5, <1>6 DEF Control, Linked, Awaits
  <1>14. Sends'
    <2>1. \A c \in Bodies : /\ pc'[c] = "fresh" <=> pc[c] = "fresh"
                            /\ pc'[c] = "parked" <=> pc[c] = "parked"
      BY <1>1, <1>2, <1>4, Nobody
    <2>2. \A e \in Goids : pc[e] = "send" =>
             /\ call[e].body \in Bodies /\ pc[call[e].body] \in {"fresh", "parked"}
             /\ sendCh[call[e].body] = NoDriver /\ yieldCh[call[e].body] = "" /\ started[call[e].body] = TRUE
      BY Nobody DEF Control, Linked, Sends, Calls, Pending, Answered, GenTypeOK
    <2>3. \A e \in Goids : pc'[e] = "send" =>
             /\ pc'[call'[e].body] \in {"fresh", "parked"} /\ started'[call'[e].body] = TRUE
             /\ sendCh'[call'[e].body] = NoDriver /\ yieldCh'[call'[e].body] = ""
      <3>1. /\ call'[d].body = b /\ pc'[b] \in {"fresh", "parked"} /\ started'[b] = TRUE
            /\ sendCh'[b] = NoDriver /\ yieldCh'[b] = ""
        <4>1. pc'[b] \in {"fresh", "parked"} /\ call'[d].body = b
          BY <2>1, <1>0, <1>2
        <4>2. sendCh'[b] = NoDriver /\ yieldCh'[b] = ""
          BY <1>0 DEF Pending, Answered
        <4> QED BY <4>1, <4>2, <1>2
      <3>2. ASSUME NEW e \in Goids, e # d, pc'[e] = "send"
            PROVE  /\ pc'[call'[e].body] \in {"fresh", "parked"} /\ started'[call'[e].body] = TRUE
                   /\ sendCh'[call'[e].body] = NoDriver /\ yieldCh'[call'[e].body] = ""
        <4>1. pc[e] = "send" /\ call'[e] = call[e]
          BY <3>2, <1>1
        <4>2. call[e].body \in Bodies /\ pc'[call[e].body] \in {"fresh", "parked"}
          BY <4>1, <2>1, <2>2
        <4>3. started'[call[e].body] = TRUE
          BY <4>1, <4>2, <2>2, <1>2
        <4> QED BY <4>1, <4>2, <4>3, <2>2
      <3> QED BY <3>1, <3>2
    <2>4. \A c \in Bodies : ~started'[c] => pc'[c] = "fresh" /\ ~Pending(c)'
      BY <2>1, <1>2, <1>3 DEF Control, Linked, Sends
    <2>5. ASSUME NEW c \in Bodies, pc'[c] = "fresh", started'[c]
          PROVE  \/ Pending(c)' /\ ~sendCh'[c].err
                 \/ \E e \in Goids : pc'[e] = "send" /\ call'[e] = [body |-> c, method |-> "Send"]
      <3>1. CASE c = b
        BY <3>1, <2>1, <2>5, <1>0, <1>2
      <3>2. CASE c # b
        <4>1. pc[c] = "fresh" /\ started[c]
          BY <3>2, <2>1, <2>5, <1>2
        <4>2. CASE Pending(c) /\ ~sendCh[c].err
          BY <4>2, <1>3
        <4>3. CASE ~(Pending(c) /\ ~sendCh[c].err)
          <5>1. PICK e \in Goids : pc[e] = "send" /\ call[e] = [body |-> c, method |-> "Send"]
            BY <4>1, <4>3 DEF Control, Linked, Sends
          <5>2. e # d
            BY <5>1, <1>2
          <5> QED BY <5>1, <5>2, <1>1
        <4> QED BY <4>2, <4>3
      <3> QED BY <3>1, <3>2
    <2> QED BY <2>3, <2>4, <2>5 DEF Sends, Pending, Answered
  <1>15. Flags'
    BY <1>1, <1>2, <1>4, Nobody DEF Control, Flags
  <1>16. OneControl'
    BY <1>0, <1>7, <1>8 DEF Control, OneControl
  <1>17. Rooted'
    BY <1>3, <1>5 DEF Control, Rooted
  <1>18. Leads'
    BY <1>1, <1>2, <1>7, <1>8 DEF Control, Leads
  <1> QED BY <1>9, <1>10, <1>11, <1>12, <1>13, <1>14, <1>15, <1>16, <1>17, <1>18 DEF Control, Linked

(* The message is posted: control goes from the driver to the body. *)
LEMMA PostKeeps ==
    ASSUME WellDriven, GenTypeOK, Control, NEW d \in Goids, Post(d),
           HoldsGIL(d) <=> d \notin Bare
    PROVE  Control'
  <1>a. PICK b : b = call[d].body
    OBVIOUS
  <1>b. PICK m : m = [goid |-> d, holds |-> HoldsGIL(d), err |-> call[d].method # "Send"]
    OBVIOUS
  <1>0. /\ pc[d] = "send" /\ pc' = [pc EXCEPT ![d] = "await"]
        /\ sendCh' = [sendCh EXCEPT ![b] = m]
        /\ UNCHANGED <<started, closed, executing, driver, yieldCh, call>>
    BY <1>a, <1>b DEF Post, Goto
  <1>1. b \in Bodies /\ b \in Goids /\ ThreadOf[b] = ThreadOf[d]
    BY <1>0, <1>a, CallKnown, Nobody DEF Control, Linked, WellDriven
  <1>2. /\ pc[b] \in {"fresh", "parked"} /\ ~Pending(b) /\ ~Answered(b) /\ started[b] = TRUE
        /\ b # d
    BY <1>0, <1>1, <1>a DEF Control, Linked, Sends, GenTypeOK
  <1>3. m \in Msgs /\ m # NoDriver /\ m.goid = d /\ (m.holds <=> d \notin Bare)
    <2>1. HoldsGIL(d) \in BOOLEAN /\ (call[d].method # "Send") \in BOOLEAN
      BY DEF HoldsGIL, HeldByGoid
    <2>2. m \in Msgs
      BY <2>1, <1>b DEF Msgs
    <2> QED BY <2>1, <2>2, <1>b, Nobody
  <1>4. \A e \in Goids : e # d /\ pc[e] \in {"send", "await"} => call[e].body # b
    <2> SUFFICES ASSUME NEW e \in Goids, e # d, pc[e] \in {"send", "await"}, call[e].body = b
                 PROVE  FALSE
      OBVIOUS
    <2>1. ThreadOf[e] = ThreadOf[d]
      BY <1>1, CallKnown DEF Control, Linked, WellDriven
    <2>2. Ctl(d) /\ (pc[e] = "send" => Ctl(e))
      BY <1>0 DEF Ctl
    <2>3. pc[e] = "await"
      BY <2>1, <2>2 DEF Control, OneControl
    <2> QED BY <2>3, <1>1, <1>2 DEF Control, Linked, Awaits, Drives, Busy, IdlePCs
  <1>5. pc[b] = "fresh" => ~m.err
    <2> SUFFICES ASSUME pc[b] = "fresh" PROVE call[d].method = "Send"
      BY <1>b
    <2>1. PICK e \in Goids : pc[e] = "send" /\ call[e] = [body |-> b, method |-> "Send"]
      BY <1>1, <1>2 DEF Control, Linked, Sends
    <2>2. call[e].body = b /\ call[e].method = "Send"
      BY <2>1
    <2> QED BY <2>1, <2>2, <1>4
  <1>6. /\ \A h \in Goids : h # d => pc'[h] = pc[h]
        /\ pc'[d] = "await"
    BY <1>0 DEF GenTypeOK
  <1>7. /\ Pending(b)' /\ Message(b)' = m /\ Busy(b)' /\ sendCh'[b] = m
        /\ \A c \in Bodies : c # b => /\ Pending(c)' <=> Pending(c)
                                      /\ Message(c)' = Message(c)
                                      /\ sendCh'[c] = sendCh[c]
        /\ \A c : Answered(c)' <=> Answered(c)
    <2>1. sendCh'[b] = m /\ \A c \in Bodies : c # b => sendCh'[c] = sendCh[c]
      BY <1>0, <1>1 DEF GenTypeOK
    <2> QED BY <2>1, <1>0, <1>3 DEF Pending, Message, Answered, Busy
  <1>8. \A c \in Bodies : c # b => (Busy(c)' <=> Busy(c))
    BY <1>0, <1>6, <1>7, Nobody DEF Busy, IdlePCs
  <1>9. \A h \in Goids : \A c : Drives(h, c)' <=> Drives(h, c) \/ (h = d /\ c = b)
    BY <1>0, <1>6, <1>a DEF Drives
  <1>10. \A h \in Goids : Drives(h, b)' => h = d
    BY <1>0, <1>4, <1>6 DEF Drives
  <1>11. call' = call /\ started' = started /\ call[d].body = b
    BY <1>0, <1>a
  <1>12. ~Ctl(d)' /\ Ctl(b)' /\ \A h \in Goids : h \notin {d, b} => (Ctl(h)' <=> Ctl(h))
    <2>1. d \in Bodies => ~Pending(d)
      BY <1>0 DEF Control, Linked, Channels
    <2> QED BY <2>1, <1>1, <1>2, <1>6, <1>7, <1>11 DEF Ctl, WorkPCs
  <1>13. Ctl(d)
    BY <1>0 DEF Ctl
  <1>14. Places'
    BY <1>0, <1>6, GenAssumption DEF Control, Places, Mains, MainPCs, BodyPCs, GenTypeOK
  <1>15. Calls'
    BY <1>0, <1>6, <1>11 DEF Control, Linked, Calls
  <1>16. BusyDriven'
    <2>1. ASSUME NEW c \in Bodies, c # b, Busy(c)'
          PROVE  /\ Message(c)' \in Msgs /\ Drives(Message(c).goid, c)'
                 /\ Message(c).holds' <=> Message(c).goid' \notin Bare
      <3>1. /\ Message(c) \in Msgs /\ Drives(Message(c).goid, c)
            /\ Message(c).holds <=> Message(c).goid \notin Bare
        BY <2>1, <1>8 DEF Control, Linked, BusyDriven
      <3>2. Message(c).goid \in Goids /\ Message(c)' = Message(c)
        BY <3>1, <2>1, <1>7 DEF Msgs
      <3> QED BY <3>1, <3>2, <1>0, <1>6 DEF Drives
    <2>2. Drives(Message(b).goid, b)'
      BY <1>3, <1>6, <1>7, <1>11 DEF Drives
    <2> QED BY <2>1, <2>2, <1>3, <1>7 DEF BusyDriven, Msgs
  <1>17. Channels'
    <2>1. \A c \in Bodies : pc[c] \in {"fresh", "parked", "dead"} => pc'[c] = pc[c]
      BY <1>0, <1>6, Nobody
    <2>2. \A c \in Bodies : Answered(c) => \E h \in Goids : Drives(h, c)'
      BY <1>9 DEF Control, Linked, Channels
    <2> QED BY <2>1, <2>2, <1>2, <1>7 DEF Control, Linked, Channels
  <1>18. Awaits'
    <2> SUFFICES ASSUME NEW h \in Goids, NEW c \in Bodies, Drives(h, c)'
                 PROVE  /\ (Answered(c) \/ (Busy(c) /\ Message(c).goid = h))'
                        /\ \A e \in Goids : Drives(e, c)' => h = e
      BY DEF Awaits
    <2>1. CASE c = b
      BY <2>1, <1>3, <1>7, <1>10
    <2>2. CASE c # b
      <3>1. Drives(h, c) /\ \A e \in Goids : Drives(e, c)' => Drives(e, c)
        BY <2>2, <1>9
      <3> QED BY <2>2, <3>1, <1>7, <1>8 DEF Control, Linked, Awaits
    <2> QED BY <2>1, <2>2
  <1>19. Sends'
    <2>1. \A c \in Bodies : /\ pc'[c] = "fresh" <=> pc[c] = "fresh"
                            /\ pc'[c] = "parked" <=> pc[c] = "parked"
      BY <1>0, <1>6, Nobody
    <2>2. \A e \in Goids : pc[e] = "send" =>
             /\ call[e].body \in Bodies /\ pc[call[e].body] \in {"fresh", "parked"}
             /\ sendCh[call[e].body] = NoDriver /\ yieldCh[call[e].body] = ""
             /\ started[call[e].body] = TRUE
      BY Nobody DEF Control, Linked, Sends, Calls, Pending, Answered, GenTypeOK
    <2>3. ASSUME NEW e \in Goids, pc'[e] = "send"
          PROVE  /\ pc'[call[e].body] \in {"fresh", "parked"}
                 /\ sendCh'[call[e].body] = NoDriver /\ yieldCh'[call[e].body] = ""
                 /\ started[call[e].body] = TRUE
      <3>1. pc[e] = "send" /\ e # d
        BY <2>3, <1>6
      <3>2. call[e].body # b
        BY <3>1, <1>4
      <3> QED BY <3>1, <3>2, <2>1, <2>2, <1>0, <1>7
    <2>4. \A c \in Bodies : ~started[c] => pc'[c] = "fresh" /\ ~Pending(c)'
      BY <2>1, <1>2, <1>7 DEF Control, Linked, Sends
    <2>5. ASSUME NEW c \in Bodies, pc'[c] = "fresh", started[c]
          PROVE  \/ Pending(c)' /\ ~sendCh'[c].err
                 \/ \E e \in Goids : pc'[e] = "send" /\ call[e] = [body |-> c, method |-> "Send"]
      <3>1. CASE c = b
        BY <3>1, <2>1, <2>5, <1>5, <1>7
      <3>2. CASE c # b /\ Pending(c) /\ ~sendCh[c].err
        BY <3>2, <1>7
      <3>3. CASE c # b /\ ~(Pending(c) /\ ~sendCh[c].err)
        <4>1. PICK e \in Goids : pc[e] = "send" /\ call[e] = [body |-> c, method |-> "Send"]
          BY <3>3, <2>1, <2>5 DEF Control, Linked, Sends
        <4>2. call[e].body = c
          BY <4>1
        <4>3. e # d
          BY <4>2, <3>3, <1>11
        <4> QED BY <4>1, <4>3, <1>6
      <3> QED BY <3>1, <3>2, <3>3
    <2> QED BY <2>3, <2>4, <2>5, <1>11 DEF Sends, Pending, Answered
  <1>20. Flags'
    BY <1>0, <1>6, Nobody DEF Control, Flags
  <1>21. OneControl'
    BY <1>1, <1>12, <1>13 DEF Control, OneControl
  <1>22. Rooted'
    <2> SUFFICES ASSUME NEW a \in Bodies, Busy(a)', NEW S \in SUBSET Bodies, a \in S
                 PROVE  \E c \in S : Busy(c)' /\ Message(c)'.goid \notin S
      BY DEF Rooted
    <2>1. \A c \in S : Busy(c) => c # b
      BY <1>2 DEF Busy, IdlePCs
    <2>2. \A a2 \in S : Busy(a2) => \E c \in S : Busy(c)' /\ Message(c)'.goid \notin S
      BY <2>1, <1>7, <1>8 DEF Control, Rooted
    <2>3. CASE a # b
      BY <2>2, <2>3, <1>8
    <2>4. CASE a = b /\ d \notin S
      BY <2>4, <1>3, <1>7
    <2>5. CASE a = b /\ d \in S
      <3>1. Busy(d)
        BY <1>0 DEF Busy, IdlePCs
      <3> QED BY <2>2, <2>5, <3>1
    <2> QED BY <2>3, <2>4, <2>5
  <1>23. Leads'
    <2> SUFFICES ASSUME NEW h \in Goids, pc'[h] = "await", NEW S \in SUBSET Goids, h \in S
                 PROVE  \E c \in S : /\ ThreadOf[c] = ThreadOf[h]
                                     /\ Ctl(c)' \/ (pc'[c] = "await" /\ call[c].body \notin S)
      BY <1>11 DEF Leads
    <2>1. CASE d \in S /\ ThreadOf[d] = ThreadOf[h]
      BY <2>1, <1>1, <1>6, <1>11, <1>12
    <2>2. CASE ~(d \in S /\ ThreadOf[d] = ThreadOf[h])
      <3>1. pc[h] = "await"
        BY <2>2, <1>6
      <3>2. PICK c \in S : /\ ThreadOf[c] = ThreadOf[h]
                           /\ Ctl(c) \/ (pc[c] = "await" /\ call[c].body \notin S)
        BY <3>1 DEF Control, Leads
      <3>3. c # d
        BY <2>2, <3>2
      <3> QED BY <3>2, <3>3, <1>6, <1>12
    <2> QED BY <2>1, <2>2
  <1> QED BY <1>14, <1>15, <1>16, <1>17, <1>18, <1>19, <1>20, <1>21, <1>22, <1>23 DEF Control, Linked

(* The answer is collected: the driver goes on where it was. *)
LEMMA CollectKeeps ==
    ASSUME WellDriven, GenTypeOK, Control, NEW d \in Goids, Collect(d)
    PROVE  Control'
  <1>a. PICK b : b = call[d].body
    OBVIOUS
  <1>0. /\ pc[d] = "await" /\ pc' = [pc EXCEPT ![d] = Home(d)]
        /\ Answered(b) /\ yieldCh' = [yieldCh EXCEPT ![b] = ""]
        /\ call' = [call EXCEPT ![d] = NoCall]
        /\ UNCHANGED <<started, executing, driver, sendCh>>
    BY <1>a DEF Collect, Goto, Answered
  <1>1. b \in Bodies /\ b \in Goids /\ ThreadOf[b] = ThreadOf[d]
    BY <1>0, <1>a, CallKnown, Nobody DEF Control, Linked, WellDriven
  <1>2. pc[b] \in {"parked", "dead"} /\ ~Pending(b) /\ ~Busy(b) /\ b # d
    BY <1>0, <1>1 DEF Control, Linked, Channels, Busy, IdlePCs
  <1>3. \A e \in Goids : pc[e] = "await" /\ call[e].body = b => e = d
    BY <1>0, <1>1, <1>a DEF Control, Linked, Awaits, Drives
  <1>4. /\ \A h \in Goids : h # d => pc'[h] = pc[h] /\ call'[h] = call[h]
        /\ pc'[d] = Home(d) /\ call'[d] = NoCall
        /\ \A c \in Bodies : closed[c] => closed'[c]
    <2>1. closed \in [Bodies -> BOOLEAN]
      BY DEF GenTypeOK
    <2>2. PICK x : closed' = [closed EXCEPT ![b] = closed[b] \/ x]
      BY <1>a DEF Collect
    <2>3. \A c \in Bodies : closed[c] => closed'[c]
      BY <1>1, <2>1, <2>2
    <2> QED BY <2>3, <1>0 DEF GenTypeOK
  <1>5. Home(d) \in {"out", "run"} /\ (d \in Bodies => Home(d) = "run") /\ NoCall.body = None
    BY GenAssumption DEF Home, NoCall
  <1>6. /\ \A c : /\ Pending(c)' <=> Pending(c)
                  /\ Message(c)' = Message(c)
        /\ \A c \in Bodies : Answered(c)' <=> Answered(c) /\ c # b
    BY <1>0, <1>1 DEF Pending, Message, Answered, GenTypeOK
  <1>7. \A c \in Bodies : Busy(c)' <=> Busy(c)
    BY <1>0, <1>4, <1>5, <1>6, Nobody DEF Busy, IdlePCs
  <1>8. \A h \in Goids : \A c : Drives(h, c)' <=> Drives(h, c) /\ h # d
    BY <1>0, <1>4, <1>5 DEF Drives
  <1>9. Ctl(d)
    BY <1>0, <1>a DEF Ctl
  <1>10. \A h \in Goids : h # d => (Ctl(h)' <=> Ctl(h))
    <2> SUFFICES ASSUME NEW h \in Goids, h # d PROVE Ctl(h)' <=> Ctl(h)
      OBVIOUS
    <2>1. CASE pc[h] = "await"
      <3>1. call[h].body \in Bodies /\ call[h].body # b
        BY <2>1, <1>3, CallKnown DEF Control, Linked, WellDriven
      <3>2. yieldCh'[call[h].body] # "" <=> yieldCh[call[h].body] # ""
        BY <3>1, <1>6 DEF Answered
      <3> QED BY <3>2, <1>4, <1>6 DEF Ctl, Answered
    <2>2. CASE pc[h] # "await"
      BY <2>2, <1>4, <1>6 DEF Ctl
    <2> QED BY <2>1, <2>2
  <1>11. d \notin Bare => Ctl(d)'
    BY <1>4 DEF Home, Ctl, WorkPCs
  <1>12. Places'
    BY <1>4, GenAssumption DEF Control, Places, Mains, MainPCs, BodyPCs, Home, WorkPCs
  <1>13. Calls'
    BY <1>4, <1>5 DEF Control, Linked, Calls
  <1>14. BusyDriven'
    <2> SUFFICES ASSUME NEW c \in Bodies, Busy(c)'
                 PROVE  /\ Message(c)' \in Msgs' /\ Drives(Message(c).goid, c)'
                        /\ (Message(c).holds <=> Message(c).goid \notin Bare)'
      BY DEF BusyDriven
    <2>1. /\ Message(c) \in Msgs /\ Drives(Message(c).goid, c)
          /\ Message(c).holds <=> Message(c).goid \notin Bare
      BY <1>7 DEF Control, Linked, BusyDriven
    <2>2. Message(c).goid \in Goids /\ Message(c)' = Message(c) /\ c # b
      BY <2>1, <1>2, <1>6, <1>7 DEF Msgs
    <2>3. Message(c).goid # d
      BY <2>1, <2>2, <1>a DEF Drives
    <2>4. Drives(Message(c).goid, c)'
      BY <2>1, <2>2, <2>3, <1>4 DEF Drives
    <2> QED BY <2>1, <2>2, <2>4 DEF Msgs
  <1>15. Channels'
    <2>1. \A c \in Bodies : pc[c] \in {"fresh", "parked", "dead"} => pc'[c] = pc[c]
      BY <1>0, <1>4, Nobody
    <2>2. ASSUME NEW c \in Bodies, Answered(c), c # b PROVE \E h \in Goids : Drives(h, c)'
      <3>1. PICK h \in Goids : Drives(h, c)
        BY <2>2 DEF Control, Linked, Channels
      <3>2. h # d
        BY <2>2, <3>1, <1>a DEF Drives
      <3> QED BY <3>1, <3>2, <1>8
    <2> QED BY <2>1, <2>2, <1>6 DEF Control, Linked, Channels
  <1>16. Awaits'
    <2> SUFFICES ASSUME NEW h \in Goids, NEW c \in Bodies, Drives(h, c)'
                 PROVE  /\ (Answered(c) \/ (Busy(c) /\ Message(c).goid = h))'
                        /\ \A e \in Goids : Drives(e, c)' => h = e
      BY DEF Awaits
    <2>1. Drives(h, c) /\ h # d
      BY <1>8
    <2>2. c # b
      BY <2>1, <1>3 DEF Drives
    <2> QED BY <2>1, <2>2, <1>6, <1>7, <1>8 DEF Control, Linked, Awaits
  <1>17. Sends'
    <2>1. \A c \in Bodies : /\ pc'[c] = "fresh" <=> pc[c] = "fresh"
                            /\ pc'[c] = "parked" <=> pc[c] = "parked"
      BY <1>0, <1>4, <1>5, Nobody
    <2>2. \A e \in Goids : pc[e] = "send" =>
             /\ call[e].body \in Bodies /\ pc[call[e].body] \in {"fresh", "parked"}
             /\ sendCh[call[e].body] = NoDriver /\ ~Answered(call[e].body)
             /\ started[call[e].body] = TRUE
      BY Nobody DEF Control, Linked, Sends, Calls, Pending, GenTypeOK
    <2>3. ASSUME NEW e \in Goids, pc'[e] = "send"
          PROVE  /\ pc'[call'[e].body] \in {"fresh", "parked"}
                 /\ sendCh'[call'[e].body] = NoDriver /\ yieldCh'[call'[e].body] = ""
                 /\ started[call'[e].body] = TRUE
      <3>1. e # d /\ pc[e] = "send" /\ call'[e] = call[e]
        BY <2>3, <1>4, <1>5
      <3>2. yieldCh'[call[e].body] = ""
        BY <3>1, <2>2, <1>6 DEF Answered
      <3> QED BY <3>1, <3>2, <2>1, <2>2, <1>0
    <2>4. \A c \in Bodies : ~started[c] => pc'[c] = "fresh" /\ ~Pending(c)'
      BY <2>1, <1>6 DEF Control, Linked, Sends
    <2>5. ASSUME NEW c \in Bodies, pc'[c] = "fresh", started[c]
          PROVE  \/ Pending(c)' /\ ~sendCh[c].err
                 \/ \E e \in Goids : pc'[e] = "send" /\ call'[e] = [body |-> c, method |-> "Send"]
      <3>1. CASE Pending(c) /\ ~sendCh[c].err
        BY <3>1, <1>6
      <3>2. CASE ~(Pending(c) /\ ~sendCh[c].err)
        <4>1. PICK e \in Goids : pc[e] = "send" /\ call[e] = [body |-> c, method |-> "Send"]
          BY <3>2, <2>1, <2>5 DEF Control, Linked, Sends
        <4>2. e # d
          BY <4>1, <1>0
        <4> QED BY <4>1, <4>2, <1>4
      <3> QED BY <3>1, <3>2
    <2>6. started' = started /\ sendCh' = sendCh
      BY <1>0
    <2> QED BY <2>3, <2>4, <2>5, <2>6 DEF Sends, Pending, Answered
  <1>18. Flags'
    <2>1. executing' = executing
      BY <1>0
    <2> QED BY <2>1, <1>0, <1>4, <1>5, Nobody DEF Control, Flags
  <1>19. OneControl'
    BY <1>9, <1>10 DEF Control, OneControl
  <1>20. Rooted'
    BY <1>6, <1>7 DEF Control, Rooted
  <1>21. Leads'
    <2> SUFFICES ASSUME NEW h \in Goids, pc'[h] = "await", NEW S \in SUBSET Goids, h \in S
                 PROVE  \E c \in S : /\ ThreadOf[c] = ThreadOf[h]
                                     /\ Ctl(c)' \/ (pc'[c] = "await" /\ call'[c].body \notin S)
      BY DEF Leads
    <2>1. h # d /\ pc[h] = "await"
      BY <1>4, <1>5
    <2>2. PICK c \in S : /\ ThreadOf[c] = ThreadOf[h]
                         /\ Ctl(c) \/ (pc[c] = "await" /\ call[c].body \notin S)
      BY <2>1 DEF Control, Leads
    <2>3. CASE c # d
      BY <2>2, <2>3, <1>4, <1>10
    <2>4. CASE c = d /\ d \notin Bare
      BY <2>2, <2>4, <1>11
    <2>5. CASE c = d /\ d \in Bare
      <3>1. d \in Goids \ Bodies /\ Answered(call[d].body)
        BY <2>5, <1>0, <1>a, GenAssumption
      <3>2. pc[h] \in IdlePCs
        BY <3>1, <2>1, <2>2, <2>5, RootAlone DEF WellDriven
      <3> QED BY <3>2, <2>1 DEF IdlePCs
    <2> QED BY <2>3, <2>4, <2>5
  <1> QED BY <1>12, <1>13, <1>14, <1>15, <1>16, <1>17, <1>18, <1>19, <1>20, <1>21 DEF Control, Linked

(* The first message to a body is no exception. *)
LEMMA FirstIsValue ==
    ASSUME Control, NEW b \in Bodies, Pending(b), pc[b] = "fresh"
    PROVE  ~sendCh[b].err
  <1>1. started[b]
    BY DEF Control, Linked, Sends
  <1>2. ~ \E d \in Goids : pc[d] = "send" /\ call[d] = [body |-> b, method |-> "Send"]
    <2> SUFFICES ASSUME NEW d \in Goids, pc[d] = "send", call[d] = [body |-> b, method |-> "Send"]
                 PROVE  FALSE
      OBVIOUS
    <2>1. call[d].body = b
      OBVIOUS
    <2> QED BY <2>1 DEF Control, Linked, Sends
  <1> QED BY <1>1, <1>2 DEF Control, Linked, Sends

(* The body takes the message. *)
LEMMA ReceiveKeeps ==
    ASSUME GenTypeOK, Control, NEW b \in Bodies, Receive(b)
    PROVE  Control'
  <1>0. /\ pc[b] \in {"fresh", "parked"} /\ Pending(b)
        /\ driver' = [driver EXCEPT ![b] = sendCh[b]]
        /\ sendCh' = [sendCh EXCEPT ![b] = NoDriver]
        /\ UNCHANGED <<started, closed, executing, yieldCh, call>>
    BY DEF Receive, Goto, Pending
  <1>1. pc' = [pc EXCEPT ![b] = "resume"]
    BY <1>0, FirstIsValue DEF Receive, Goto
  <1>2. b \in Goids /\ ~Answered(b) /\ Busy(b) /\ started[b]
    BY <1>0, Nobody DEF Control, Linked, Channels, Sends, Busy
  <1>3. pc'[b] = "resume" /\ \A h \in Goids : h # b => pc'[h] = pc[h]
    BY <1>1, <1>2 DEF GenTypeOK
  <1>4. /\ \A c \in Bodies : Pending(c)' <=> Pending(c) /\ c # b
        /\ \A c \in Bodies : c # b => sendCh'[c] = sendCh[c]
        /\ \A c \in Bodies : Message(c)' = Message(c)
        /\ \A c : Answered(c)' <=> Answered(c)
    <2>1. /\ \A c \in Bodies : c # b => sendCh'[c] = sendCh[c] /\ driver'[c] = driver[c]
          /\ sendCh'[b] = NoDriver /\ driver'[b] = sendCh[b] /\ yieldCh' = yieldCh
      BY <1>0 DEF GenTypeOK
    <2> QED BY <2>1, <1>0 DEF Pending, Message, Answered
  <1>5. \A c \in Bodies : Busy(c)' <=> Busy(c)
    BY <1>2, <1>3, <1>4, Nobody DEF Busy, IdlePCs
  <1>6. \A h \in Goids : \A c : Drives(h, c)' <=> Drives(h, c)
    BY <1>0, <1>3 DEF Drives
  <1>7. call' = call /\ started' = started /\ closed' = closed /\ executing' = executing
    BY <1>0
  <1>8. \A h \in Goids : Ctl(h)' <=> Ctl(h)
    BY <1>0, <1>3, <1>4, <1>7 DEF Ctl, WorkPCs
  <1>9. Places'
    BY <1>3, GenAssumption DEF Control, Places, Mains, BodyPCs, WorkPCs
  <1>10. Calls'
    BY <1>0, <1>3, <1>7 DEF Control, Linked, Calls
  <1>11. BusyDriven'
    BY <1>4, <1>5, <1>6 DEF Control, Linked, BusyDriven, Msgs
  <1>12. Channels'
    <2>1. \A c \in Bodies : c # b => pc'[c] = pc[c]
      BY <1>3, Nobody
    <2> QED BY <2>1, <1>2, <1>4, <1>6 DEF Control, Linked, Channels
  <1>13. Awaits'
    BY <1>4, <1>5, <1>6 DEF Control, Linked, Awaits
  <1>14. Sends'
    <2>1. \A c \in Bodies : c # b => pc'[c] = pc[c]
      BY <1>3, Nobody
    <2>2. \A e \in Goids : pc[e] = "send" =>
             /\ call[e].body \in Bodies /\ pc[call[e].body] \in {"fresh", "parked"}
             /\ ~Pending(call[e].body) /\ yieldCh[call[e].body] = ""
             /\ started[call[e].body] = TRUE
      BY Nobody DEF Control, Linked, Sends, Calls, Answered, GenTypeOK
    <2>3. ASSUME NEW e \in Goids, pc'[e] = "send"
          PROVE  /\ pc'[call[e].body] \in {"fresh", "parked"}
                 /\ sendCh'[call[e].body] = NoDriver /\ yieldCh[call[e].body] = ""
                 /\ started[call[e].body] = TRUE
      <3>1. pc[e] = "send"
        BY <2>3, <1>3
      <3>2. call[e].body # b
        BY <3>1, <2>2, <1>0
      <3> QED BY <3>1, <3>2, <2>1, <2>2, <1>4 DEF Pending
    <2>4. \A c \in Bodies : ~started[c] => pc'[c] = "fresh" /\ ~Pending(c)'
      BY <2>1, <1>2, <1>4 DEF Control, Linked, Sends
    <2>5. ASSUME NEW c \in Bodies, pc'[c] = "fresh", started[c]
          PROVE  \/ Pending(c)' /\ ~sendCh'[c].err
                 \/ \E e \in Goids : pc'[e] = "send" /\ call[e] = [body |-> c, method |-> "Send"]
      <3>1. c # b /\ pc[c] = "fresh"
        BY <2>1, <2>5, <1>3
      <3>2. CASE Pending(c) /\ ~sendCh[c].err
        BY <3>1, <3>2, <1>4
      <3>3. CASE ~(Pending(c) /\ ~sendCh[c].err)
        <4>1. PICK e \in Goids : pc[e] = "send" /\ call[e] = [body |-> c, method |-> "Send"]
          BY <3>1, <3>3, <2>5 DEF Control, Linked, Sends
        <4>2. e # b
          BY <4>1, <1>0
        <4> QED BY <4>1, <4>2, <1>3
      <3> QED BY <3>2, <3>3
    <2>6. yieldCh' = yieldCh
      BY <1>0
    <2> QED BY <2>3, <2>4, <2>5, <2>6, <1>7 DEF Sends, Pending, Answered
  <1>15. Flags'
    BY <1>3, <1>7, Nobody DEF Control, Flags
  <1>16. OneControl'
    BY <1>8 DEF Control, OneControl
  <1>17. Rooted'
    BY <1>4, <1>5 DEF Control, Rooted
  <1>18. Leads'
    BY <1>0, <1>3, <1>7, <1>8 DEF Control, Leads
  <1> QED BY <1>9, <1>10, <1>11, <1>12, <1>13, <1>14, <1>15, <1>16, <1>17, <1>18 DEF Control, Linked

(* The body answers: control goes back to the one driver it has. *)
LEMMA AnswerKeeps ==
    ASSUME WellDriven, GenTypeOK, Control, NEW b \in Bodies, Answer(b)
    PROVE  Control'
  <1>0. /\ pc[b] \in {"answer", "last"} /\ ~Answered(b)
        /\ UNCHANGED <<started, closed, executing, driver, sendCh, call>>
    BY DEF Answer, Goto, Answered
  <1>1. PICK q \in {"parked", "dead"}, v \in {"value", "stop"} :
           /\ pc' = [pc EXCEPT ![b] = q] /\ yieldCh' = [yieldCh EXCEPT ![b] = v]
           /\ q = "dead" => pc[b] = "last"
    BY DEF Answer, Goto
  <1>2. b \in Goids /\ Busy(b) /\ ~Pending(b) /\ started[b] = TRUE
    BY <1>0, Nobody DEF Control, Linked, Channels, Sends, Busy, IdlePCs, GenTypeOK
  <1>3. PICK d \in Goids : d = Message(b).goid /\ Drives(d, b)
    BY <1>2 DEF Control, Linked, BusyDriven, Msgs
  <1>4. \A e \in Goids : Drives(e, b) => e = d
    BY <1>3 DEF Control, Linked, Awaits
  <1>5. d # b /\ ThreadOf[d] = ThreadOf[b] /\ call[d].body = b /\ pc[d] = "await"
    BY <1>0, <1>3, CallKnown DEF Control, Linked, Drives, WellDriven
  <1>6. pc'[b] = q /\ \A h \in Goids : h # b => pc'[h] = pc[h]
    BY <1>1, <1>2 DEF GenTypeOK
  <1>7. /\ \A c : Pending(c)' <=> Pending(c)
        /\ \A c : Message(c)' = Message(c)
        /\ \A c \in Bodies : Answered(c)' <=> Answered(c) \/ c = b
    BY <1>0, <1>1 DEF Pending, Message, Answered, GenTypeOK
  <1>8. \A c \in Bodies : Busy(c)' <=> Busy(c) /\ c # b
    BY <1>2, <1>6, <1>7, Nobody DEF Busy, IdlePCs
  <1>9. \A h \in Goids : \A c : Drives(h, c)' <=> Drives(h, c)
    BY <1>0, <1>1, <1>6 DEF Drives
  <1>10. call' = call /\ started' = started /\ closed' = closed /\ executing' = executing
         /\ sendCh' = sendCh
    BY <1>0
  <1>11. Ctl(d)' /\ ~Ctl(b)' /\ Ctl(b)
    <2>1. Ctl(d)'
      BY <1>5, <1>6, <1>7, <1>10 DEF Ctl
    <2> QED BY <2>1, <1>0, <1>1, <1>2, <1>6, <1>7 DEF Ctl, WorkPCs
  <1>12. \A h \in Goids : h \notin {b, d} => (Ctl(h)' <=> Ctl(h))
    <2> SUFFICES ASSUME NEW h \in Goids, h \notin {b, d} PROVE Ctl(h)' <=> Ctl(h)
      OBVIOUS
    <2>1. CASE pc[h] = "await"
      <3>1. call[h].body \in Bodies /\ call[h].body # b
        BY <2>1, <1>4, CallKnown DEF Control, Linked, WellDriven, Drives
      <3>2. yieldCh'[call[h].body] # "" <=> yieldCh[call[h].body] # ""
        BY <3>1, <1>7 DEF Answered
      <3> QED BY <3>2, <1>6, <1>7, <1>10 DEF Ctl, Answered
    <2>2. CASE pc[h] # "await"
      BY <2>2, <1>6, <1>7 DEF Ctl
    <2> QED BY <2>1, <2>2
  <1>13. Places'
    BY <1>1, <1>6, GenAssumption DEF Control, Places, Mains, BodyPCs, IdlePCs
  <1>14. Calls'
    BY <1>0, <1>1, <1>6, <1>10 DEF Control, Linked, Calls
  <1>15. BusyDriven'
    BY <1>7, <1>8, <1>9 DEF Control, Linked, BusyDriven, Msgs
  <1>16. Channels'
    <2>1. \A c \in Bodies : c # b => pc'[c] = pc[c]
      BY <1>6, Nobody
    <2>2. \E h \in Goids : Drives(h, b)'
      BY <1>3, <1>9
    <2> QED BY <2>1, <2>2, <1>1, <1>2, <1>6, <1>7, <1>9 DEF Control, Linked, Channels
  <1>17. Awaits'
    <2> SUFFICES ASSUME NEW h \in Goids, NEW c \in Bodies, Drives(h, c)'
                 PROVE  /\ (Answered(c) \/ (Busy(c) /\ Message(c).goid = h))'
                        /\ \A e \in Goids : Drives(e, c)' => h = e
      BY DEF Awaits
    <2>1. CASE c = b
      BY <2>1, <1>4, <1>7, <1>9
    <2>2. CASE c # b
      BY <2>2, <1>7, <1>8, <1>9 DEF Control, Linked, Awaits
    <2> QED BY <2>1, <2>2
  <1>18. Sends'
    <2>1. \A c \in Bodies : c # b => pc'[c] = pc[c]
      BY <1>6, Nobody
    <2>2. \A e \in Goids : pc[e] = "send" =>
             /\ call[e].body \in Bodies /\ pc[call[e].body] \in {"fresh", "parked"}
             /\ sendCh[call[e].body] = NoDriver /\ ~Answered(call[e].body)
             /\ started[call[e].body] = TRUE
      <3> SUFFICES ASSUME NEW e \in Goids, pc[e] = "send"
                   PROVE  /\ call[e].body \in Bodies /\ pc[call[e].body] \in {"fresh", "parked"}
                          /\ sendCh[call[e].body] = NoDriver /\ ~Answered(call[e].body)
                          /\ started[call[e].body] = TRUE
        OBVIOUS
      <3>1. <<e, call[e].body>> \in Edges
        BY DEF Control, Linked, Calls
      <3>2. call[e].body \in Bodies
        BY <3>1, Nobody
      <3>3. /\ pc[call[e].body] \in {"fresh", "parked"} /\ ~Pending(call[e].body)
            /\ ~Answered(call[e].body) /\ started[call[e].body]
        BY DEF Control, Linked, Sends
      <3>4. started[call[e].body] = TRUE
        BY <3>2, <3>3 DEF GenTypeOK
      <3> QED BY <3>2, <3>3, <3>4 DEF Pending
    <2>3. ASSUME NEW e \in Goids, pc'[e] = "send"
          PROVE  /\ pc'[call[e].body] \in {"fresh", "parked"}
                 /\ sendCh[call[e].body] = NoDriver /\ yieldCh'[call[e].body] = ""
                 /\ started[call[e].body] = TRUE
      <3>1. pc[e] = "send"
        BY <2>3, <1>1, <1>6
      <3>2. call[e].body # b
        BY <3>1, <2>2, <1>0
      <3>3. yieldCh'[call[e].body] = ""
        BY <3>1, <3>2, <2>2, <1>7 DEF Answered
      <3> QED BY <3>1, <3>2, <3>3, <2>1, <2>2
    <2>4. \A c \in Bodies : ~started[c] => pc'[c] = "fresh" /\ ~Pending(c)'
      BY <2>1, <1>2, <1>7 DEF Control, Linked, Sends
    <2>5. ASSUME NEW c \in Bodies, pc'[c] = "fresh", started[c]
          PROVE  \/ Pending(c)' /\ ~sendCh[c].err
                 \/ \E e \in Goids : pc'[e] = "send" /\ call[e] = [body |-> c, method |-> "Send"]
      <3>1. c # b /\ pc[c] = "fresh"
        BY <2>1, <2>5, <1>1, <1>6
      <3>2. CASE Pending(c) /\ ~sendCh[c].err
        BY <3>1, <3>2, <1>7
      <3>3. CASE ~(Pending(c) /\ ~sendCh[c].err)
        <4>1. PICK e \in Goids : pc[e] = "send" /\ call[e] = [body |-> c, method |-> "Send"]
          BY <3>1, <3>3, <2>5 DEF Control, Linked, Sends
        <4>2. e # b
          BY <4>1, <1>0
        <4> QED BY <4>1, <4>2, <1>6
      <3> QED BY <3>2, <3>3
    <2> QED BY <2>3, <2>4, <2>5, <1>10 DEF Sends, Pending, Answered
  <1>19. Flags'
    <2>1. q = "dead" => closed[b]
      BY <1>1 DEF Control, Flags
    <2> QED BY <2>1, <1>1, <1>6, <1>10, Nobody DEF Control, Flags
  <1>20. OneControl'
    BY <1>2, <1>5, <1>11, <1>12 DEF Control, OneControl
  <1>21. Rooted'
    <2> SUFFICES ASSUME NEW a \in Bodies, Busy(a)', NEW S \in SUBSET Bodies, a \in S
                 PROVE  \E c \in S : Busy(c)' /\ Message(c)'.goid \notin S
      BY DEF Rooted
    <2>1. Busy(a) /\ a # b
      BY <1>8
    <2>2. S \ {b} \in SUBSET Bodies /\ a \in S \ {b}
      BY <2>1
    <2>3. PICK c \in S \ {b} : Busy(c) /\ Message(c).goid \notin S \ {b}
      BY <2>1, <2>2 DEF Control, Rooted
    <2>4. Message(c).goid # b
      <3>1. Drives(Message(c).goid, c)
        BY <2>3 DEF Control, Linked, BusyDriven
      <3> QED BY <3>1, <1>0 DEF Drives
    <2> QED BY <2>3, <2>4, <1>7, <1>8
  <1>22. Leads'
    <2> SUFFICES ASSUME NEW h \in Goids, pc'[h] = "await", NEW S \in SUBSET Goids, h \in S
                 PROVE  \E c \in S : /\ ThreadOf[c] = ThreadOf[h]
                                     /\ Ctl(c)' \/ (pc'[c] = "await" /\ call'[c].body \notin S)
      BY DEF Leads
    <2>1. h # b /\ pc[h] = "await"
      BY <1>1, <1>6
    <2>2. CASE d \in S /\ ThreadOf[d] = ThreadOf[h]
      BY <2>2, <1>11
    <2>3. CASE ~(d \in S /\ ThreadOf[d] = ThreadOf[h])
      <3>1. S \ {b} \in SUBSET Goids /\ h \in S \ {b}
        BY <2>1
      <3>2. PICK c \in S \ {b} : /\ ThreadOf[c] = ThreadOf[h]
                                 /\ Ctl(c) \/ (pc[c] = "await" /\ call[c].body \notin S \ {b})
        BY <2>1, <3>1 DEF Control, Leads
      <3>3. c # d /\ c # b /\ c \in Goids
        BY <3>2, <2>3
      <3>4. pc[c] = "await" => call[c].body # b
        BY <3>3, <1>4 DEF Drives
      <3> QED BY <3>2, <3>3, <3>4, <1>6, <1>10, <1>12
    <2> QED BY <2>2, <2>3
  <1> QED BY <1>13, <1>14, <1>15, <1>16, <1>17, <1>18, <1>19, <1>20, <1>21, <1>22 DEF Control, Linked

(* A body that was never started is closed. *)
LEMMA UnstartedKeeps ==
    ASSUME GenTypeOK, Control, NEW d \in Goids, NEW b \in Bodies, ThrowUnstarted(d, b)
    PROVE  Control'
  <1>1. /\ UNCHANGED <<pc, started, executing, driver, sendCh, yieldCh, call>>
        /\ closed' = [closed EXCEPT ![b] = TRUE]
    BY DEF ThrowUnstarted, evalVars
  <1>2. \A c \in Bodies : closed[c] => closed'[c]
    <2>1. closed \in [Bodies -> BOOLEAN]
      BY DEF GenTypeOK
    <2> QED BY <2>1, <1>1
  <1>3. Flags'
    BY <1>1, <1>2 DEF Control, Flags
  <1>4. /\ \A c : Pending(c)' <=> Pending(c)
        /\ \A c : Answered(c)' <=> Answered(c)
        /\ \A c : Message(c)' = Message(c)
        /\ \A c : Busy(c)' <=> Busy(c)
        /\ \A h, c : Drives(h, c)' <=> Drives(h, c)
        /\ \A h : Ctl(h)' <=> Ctl(h)
    BY <1>1 DEF Pending, Answered, Message, Busy, Drives, Ctl
  <1>5. Linked'
    BY <1>1, <1>4 DEF Control, Linked, Calls, BusyDriven, Channels, Awaits, Sends
  <1>6. Places' /\ OneControl' /\ Rooted' /\ Leads'
    BY <1>1, <1>4 DEF Control, Places, OneControl, Rooted, Leads
  <1> QED BY <1>3, <1>5, <1>6 DEF Control

-----------------------------------------------------------------------------

(* The lock under each kind of step.                                       *)

HotPCs == {"run", "breaker", "send", "woke", "suspend", "finish"}
WarmPCs == IdlePCs \cup {"resume", "answer", "last"}

GilOK == GilTypeOK /\ Queued /\ Baton

(* A step of g touches nobody else's hold, except that of its driver. *)
LEMMA OthersHold ==
    ASSUME GenTypeOK, Control, BodiesOfDriver, NEW g \in Goids, NEW q,
           pc' = [pc EXCEPT ![g] = q],
           \A h \in Goids : h # g => call'[h] = call[h],
           NEW h \in Goids, h # g,
           Drives(h, g) => (q \in WarmPCs <=> pc[g] \in WarmPCs)
    PROVE  HoldsNow(h)' <=> HoldsNow(h)
  <1>1. pc'[h] = pc[h] /\ pc'[g] = q /\ call'[h] = call[h]
    BY DEF GenTypeOK
  <1>2. CASE pc[h] = "await"
    <2>1. call[h].body \in Goids
      BY <1>2, CallKnown, Nobody DEF Control, Linked
    <2>2. call[h].body # g => pc'[call[h].body] = pc[call[h].body]
      BY <2>1 DEF GenTypeOK
    <2> QED BY <1>1, <1>2, <2>1, <2>2 DEF HoldsNow, Drives, WarmPCs
  <1>3. CASE pc[h] # "await"
    BY <1>1, <1>3 DEF HoldsNow
  <1> QED BY <1>2, <1>3

(* A step that leaves the lock alone. *)
LEMMA QuietKeepsGil ==
    ASSUME GenTypeOK, Control, BodiesOfDriver, GilOK, NEW g \in Goids, NEW q,
           pc' = [pc EXCEPT ![g] = q],
           \A h \in Goids : h # g => call'[h] = call[h],
           \A h \in Bodies : h # g => driver'[h] = driver[h],
           UNCHANGED gilVars,
           pc[g] \notin {"enter", "retake", "resume"},
           g \in Bodies => (q \in WarmPCs <=> pc[g] \in WarmPCs),
           g \notin Bare => (HoldsNow(g)' <=> HoldsNow(g))
    PROVE  GilOK'
  <1>1. /\ locked' = locked /\ holder' = holder /\ holderGoid' = holderGoid
        /\ requestDrop' = requestDrop /\ condq' = condq /\ woken' = woken
    BY DEF gilVars
  <1>2. GilTypeOK'
    BY <1>1 DEF GilOK, GilTypeOK
  <1>3. Queued'
    BY <1>1 DEF GilOK, Queued, Acquiring, InCond, GenTypeOK
  <1>4. \A h \in Goids : Drives(h, g) => g \in Bodies
    BY CallKnown DEF Control, Linked, Drives
  <1>5. \A h \in Goids : h # g => (HoldsNow(h)' <=> HoldsNow(h))
    BY <1>4, OthersHold
  <1>6. Baton'
    BY <1>1, <1>5 DEF GilOK, Baton, HeldByGoid
  <1> QED BY <1>2, <1>3, <1>6 DEF GilOK

(* The owner releases the lock. *)
LEMMA ReleaseKeepsGil ==
    ASSUME GenTypeOK, Control, BodiesOfDriver, GilOK, NEW g \in Goids, NEW q,
           HeldByGoid(g), ReleaseGoid(g),
           pc' = [pc EXCEPT ![g] = q], call' = call, driver' = driver,
           pc[g] \in HotPCs, q \notin HotPCs \cup {"await"},
           \A h \in Goids : Drives(h, g) /\ h \notin Bare => q \notin WarmPCs
    PROVE  GilOK'
  <1>1. /\ locked' = FALSE /\ holder' = None /\ holderGoid' = None
        /\ SignalOne /\ requestDrop' = requestDrop
    BY DEF ReleaseGoid
  <1>2. /\ condq' \in Seq(Goids) /\ woken' \subseteq Goids
        /\ \A i, j \in 1 .. Len(condq') : condq'[i] = condq'[j] => i = j
        /\ \A i \in 1 .. Len(condq') : condq'[i] \notin woken'
        /\ \A h : InCond(h)' => InCond(h)
        /\ \A h \in woken' : h \in woken \/ InCond(h)
    BY <1>1, SignalOneEffect DEF GilOK
  <1>3. GilTypeOK'
    BY <1>1, <1>2 DEF GilOK, GilTypeOK
  <1>4. Queued'
    <2> SUFFICES ASSUME NEW h \in Goids, InCond(h)' \/ h \in woken'
                 PROVE  Acquiring(h)'
      BY DEF Queued
    <2>1. InCond(h) \/ h \in woken
      BY <1>2
    <2>2. Acquiring(h)
      BY <2>1 DEF GilOK, Queued
    <2>3. h # g
      BY <2>2 DEF HotPCs, Acquiring
    <2> QED BY <2>2, <2>3 DEF GenTypeOK, Acquiring
  <1>5. \A h \in Goids \ Bare : h # g => ~HoldsNow(h)
    BY DEF GilOK, Baton, HeldByGoid
  <1>6. \A h \in Goids \ Bare : h # g => ~HoldsNow(h)'
    <2> SUFFICES ASSUME NEW h \in Goids \ Bare, h # g PROVE ~HoldsNow(h)'
      OBVIOUS
    <2>1. CASE Drives(h, g)
      <3>1. call'[h].body = g /\ pc'[g] = q /\ pc'[h] = "await"
        BY <2>1 DEF Drives, GenTypeOK
      <3> QED BY <2>1, <3>1 DEF HoldsNow, WarmPCs
    <2>2. CASE ~Drives(h, g)
      BY <2>2, <1>5, OthersHold
    <2> QED BY <2>1, <2>2
  <1>7. ~HoldsNow(g)'
    <2>1. pc'[g] = q
      BY DEF GenTypeOK
    <2> QED BY <2>1 DEF HoldsNow, HotPCs
  <1>8. Baton'
    BY <1>1, <1>6, <1>7 DEF Baton, HeldByGoid
  <1> QED BY <1>3, <1>4, <1>8 DEF GilOK

(* A goroutine whose driver, if any, does not hold the lock takes it. *)
LEMMA TakeKeepsGil ==
    ASSUME GenTypeOK, Control, BodiesOfDriver, GilOK, NEW g \in Goids \ Bare, NEW q \in {"run", "woke"},
           Take(ThreadOf[g], g),
           pc' = [pc EXCEPT ![g] = q], call' = call, driver' = driver
    PROVE  GilOK'
  <1>1. /\ ~locked /\ locked' = TRUE /\ holder' = ThreadOf[g] /\ holderGoid' = g
        /\ requestDrop' = FALSE /\ woken' = woken \ {g} /\ condq' = condq /\ ~InCond(g)
    BY DEF Take
  <1>2. GilTypeOK'
    BY <1>1, ThreadOfAssumption DEF GilOK, GilTypeOK
  <1>3. Queued'
    BY <1>1 DEF GilOK, Queued, Acquiring, InCond, GenTypeOK
  <1>4. \A h \in Goids \ Bare : ~HoldsNow(h)
    BY <1>1 DEF GilOK, Baton, HeldByGoid
  <1>5. \A h \in Goids \ Bare : h # g => ~HoldsNow(h)'
    <2> SUFFICES ASSUME NEW h \in Goids \ Bare, h # g PROVE ~HoldsNow(h)'
      OBVIOUS
    <2>1. CASE Drives(h, g)
      <3>1. call'[h].body = g /\ pc'[g] = q /\ pc'[h] = "await"
        BY <2>1 DEF Drives, GenTypeOK
      <3> QED BY <3>1 DEF HoldsNow, IdlePCs
    <2>2. CASE ~Drives(h, g)
      BY <2>2, <1>4, OthersHold
    <2> QED BY <2>1, <2>2
  <1>6. HoldsNow(g)'
    BY DEF HoldsNow, GenTypeOK
  <1>7. Baton'
    BY <1>1, <1>5, <1>6 DEF Baton, HeldByGoid
  <1> QED BY <1>2, <1>3, <1>7 DEF GilOK

(* AcquireReentrant never finds the lock held for the thread of its        *)
(* caller: only the one in control could hold it.                          *)
LEMMA NeverHeldAlready ==
    ASSUME WellDriven, GenTypeOK, Control, GilOK, NEW g \in Goids, Acquiring(g)
    PROVE  ~AlreadyHeld(ThreadOf[g], g)
  <1> SUFFICES ASSUME locked, holder = ThreadOf[g] PROVE FALSE
    BY DEF AlreadyHeld
  <1>1. PICK h \in Goids : h = holderGoid /\ ThreadOf[h] = ThreadOf[g] /\ h \notin Bare /\ HoldsNow(h)
    BY DEF GilOK, Baton, HeldByGoid
  <1>2. Ctl(g)
    BY DEF Acquiring, Ctl, WorkPCs
  <1>3. h # g
    BY <1>1 DEF HoldsNow, Acquiring
  <1>4. pc[h] = "await" /\ pc[call[h].body] \in WarmPCs /\ ~Answered(call[h].body)
    BY <1>1, <1>2, <1>3 DEF HoldsNow, Ctl, WorkPCs, WarmPCs, Control, OneControl
  <1>5. PICK c \in Bodies : c = call[h].body /\ ThreadOf[c] = ThreadOf[g] /\ c \in Goids
    BY <1>1, <1>4, CallKnown, Nobody DEF Control, Linked, WellDriven
  <1>6. Busy(c) /\ Message(c).goid = h
    BY <1>4, <1>5 DEF Control, Linked, Awaits, Drives
  <1>7. Ctl(c)
    BY <1>4, <1>5, <1>6 DEF Busy, Ctl, WarmPCs, WorkPCs
  <1>8. c = g
    BY <1>2, <1>5, <1>7 DEF Control, OneControl
  <1>9. pc[g] = "resume" /\ ~Pending(g) /\ Message(g) = driver[g]
    BY <1>4, <1>5, <1>8 DEF Acquiring, WarmPCs, IdlePCs, Control, Linked, Channels, Message
  <1>10. driver[g].holds
    BY <1>1, <1>6, <1>8, <1>9 DEF Control, Linked, BusyDriven
  <1> QED BY <1>9, <1>10 DEF Acquiring

(* A goroutine waits for the lock. *)
LEMMA WaitKeepsGil ==
    ASSUME GilOK, NEW g \in Goids, Wait(ThreadOf[g], g),
           Acquiring(g), UNCHANGED <<pc, call, driver>>
    PROVE  GilOK'
  <1>1. GilTypeOK' /\ woken' \subseteq woken /\ \A h : InCond(h)' => h = g \/ InCond(h)
    BY WaitEffect DEF GilOK
  <1>2. UNCHANGED <<locked, holder, holderGoid>>
    BY DEF Wait
  <1>3. Queued'
    BY <1>1 DEF GilOK, Queued, Acquiring
  <1>4. Baton'
    BY <1>2 DEF GilOK, Baton, HeldByGoid, HoldsNow
  <1> QED BY <1>1, <1>3, <1>4 DEF GilOK

(* Handoff between a driver and the body it drives, either way. *)
LEMMA HandoffKeepsGil ==
    ASSUME GenTypeOK, Control, BodiesOfDriver, GilOK, NEW b \in Bodies, NEW d \in Goids \ Bare,
           Drives(d, b), NEW from \in {b, d}, NEW to \in {b, d},
           HeldByGoid(from), Handoff(ThreadOf[b], to), NEW q,
           pc' = [pc EXCEPT ![b] = q], call' = call, driver' = driver,
           \/ to = b /\ q = "woke"
           \/ to = d /\ q \in {"answer", "last"},
           from # to, ~Acquiring(b)
    PROVE  GilOK'
  <1>1. b \in Goids \ Bare /\ ThreadOf[d] = ThreadOf[b] /\ pc[d] = "await" /\ call[d].body = b
    BY CallKnown, Nobody, GenAssumption DEF Control, Linked, Drives
  <1>2. locked /\ holderGoid = from /\ holder = ThreadOf[b]
    BY <1>1 DEF HeldByGoid, GilOK, Baton
  <1>3. /\ locked' = locked /\ holder' = holder /\ holderGoid' = to
        /\ requestDrop' = requestDrop /\ condq' = condq /\ woken' = woken
    BY <1>2 DEF Handoff
  <1>4. GilTypeOK'
    BY <1>1, <1>3 DEF GilOK, GilTypeOK
  <1>5. b # d /\ pc'[b] = q /\ pc'[d] = "await"
    <2>1. b # d
      BY <1>2 DEF GilOK
    <2> QED BY <2>1, <1>1 DEF GenTypeOK
  <1>6. Queued'
    BY <1>3 DEF GilOK, Queued, Acquiring, InCond, GenTypeOK
  <1>7. \A h \in Goids : h \notin {b, d} => (HoldsNow(h)' <=> HoldsNow(h))
    <2>1. \A h \in Goids : h # d => ~Drives(h, b)
      BY DEF Control, Linked, Awaits
    <2> QED BY <2>1, <1>1, OthersHold
  <1>8. \A h \in Goids \ Bare : h # from => ~HoldsNow(h)
    BY <1>2 DEF GilOK, Baton, HeldByGoid
  <1>9. HoldsNow(to)' /\ ~HoldsNow(from)'
    BY <1>1, <1>5 DEF HoldsNow, IdlePCs
  <1>10. Baton'
    BY <1>1, <1>2, <1>3, <1>5, <1>7, <1>8, <1>9 DEF Baton, HeldByGoid
  <1> QED BY <1>4, <1>6, <1>10 DEF GilOK

-----------------------------------------------------------------------------

(* The steps.                                                              *)

(* The lock's part of the invariant together. *)
LEMMA Parts == GenIInv <=> GenTypeOK /\ GilOK /\ Control
  BY DEF GenIInv, GilOK, GenTypeOK

(* Whoever works holds the lock as its place says. *)
LEMMA HotHolds ==
    ASSUME GilOK, NEW g \in Goids \ Bare, pc[g] \in HotPCs
    PROVE  HeldByGoid(g)
  BY DEF GilOK, Baton, HoldsNow, HotPCs

(* Where a goroutine works is one of the places it can be in. *)
LEMMA PCs == WorkPCs \subseteq GenPCs /\ MainPCs \subseteq GenPCs /\ BodyPCs \subseteq GenPCs
  BY DEF WorkPCs, MainPCs, BodyPCs, IdlePCs, GenPCs, EvalPCs

(* A goroutine moves on within its work, and the driven and drivers stay.  *)
LEMMA WorkStep ==
    ASSUME WellDriven, GenIInv, NEW g \in Mains \cup Bodies, NEW q \in WorkPCs,
           g \in Mains => q \in MainPCs, g \in Bodies => q \in BodyPCs,
           pc[g] \in WorkPCs, pc' = [pc EXCEPT ![g] = q],
           UNCHANGED genVars, armed' \in [Threads -> BOOLEAN], GilOK',
           q \in {"run", "breaker", "retake", "blocked"} =>
               g \in Mains \/ pc[g] \in {"run", "breaker", "retake", "blocked"},
           q = "last" => pc[g] = "finish",
           q # "finish"
    PROVE  GenIInv'
  <1>0. g \in Goids /\ GenTypeOK /\ Control /\ (g \in Mains => g \notin Bodies)
    BY Nobody DEF Mains, GenIInv
  <1>1. /\ started' = started /\ closed' = closed /\ executing' = executing
        /\ sendCh' = sendCh /\ yieldCh' = yieldCh /\ driver' = driver /\ call' = call
    BY DEF genVars
  <1>2. GenTypeOK'
    BY <1>0, <1>1, PCs DEF GenTypeOK, GilOK
  <1>3. Flags'
    <2> SUFFICES ASSUME NEW b \in Bodies
                 PROVE  /\ pc'[b] \in {"run", "breaker", "retake", "blocked", "send", "await"} => executing[b]
                        /\ pc'[b] \in {"finish", "last", "dead"} => closed[b]
      BY <1>1 DEF Flags
    <2>1. CASE b = g
      <3>1. pc'[b] = q
        BY <2>1, <1>0 DEF GenTypeOK
      <3> QED BY <2>1, <3>1, <1>0 DEF Control, Flags, WorkPCs
    <2>2. CASE b # g
      BY <2>2, <1>0, Nobody DEF Control, Flags, GenTypeOK
    <2> QED BY <2>1, <2>2
  <1>4. Control'
    BY <1>0, <1>1, <1>3, WorkKeeps DEF CallVars
  <1> QED BY <1>2, <1>4 DEF GenIInv, GilOK

(* Python code polls, drops the lock, makes a blocking call, comes back. *)
LEMMA EvalStep ==
    ASSUME WellDriven, GenIInv, NEW g \in Mains \cup Bodies, Eval(g)
    PROVE  GenIInv'
  <1>0. /\ g \in Goids \ Bare /\ ThreadOf[g] \in Threads /\ GenTypeOK /\ GilOK /\ Control
        /\ BodiesOfDriver /\ WellDriven
    BY Nobody, Parts, ThreadOfAssumption, GenAssumption DEF Mains, WellDriven
  <1>1. UNCHANGED genVars /\ call' = call /\ driver' = driver
    BY DEF Eval, genVars
  <1>2. CASE Acquire(g)
    <2>1. pc[g] \in {"enter", "retake"}
      BY <1>2 DEF Acquire, Goto
    <2>2. ~AlreadyHeld(ThreadOf[g], g)
      BY <1>0, <2>1, NeverHeldAlready DEF Acquiring
    <2>3. CASE /\ pc' = [pc EXCEPT ![g] = "run"]
               /\ Take(ThreadOf[g], g)
               /\ armed' = [armed EXCEPT ![ThreadOf[g]] = @ /\ pc[g] = "enter" /\ locked]
      <3>1. armed' \in [Threads -> BOOLEAN]
        <4>1. (armed[ThreadOf[g]] /\ pc[g] = "enter" /\ locked) \in BOOLEAN
          OBVIOUS
        <4> QED BY <4>1, <2>3, <1>0 DEF GenTypeOK
      <3>2. GilOK'
        BY <1>0, <1>1, <2>3, TakeKeepsGil
      <3>3. g \in Bodies => pc[g] = "retake"
        BY <1>0, <2>1 DEF Control, Places, BodyPCs, WorkPCs, IdlePCs
      <3> QED BY <3>1, <3>2, <3>3, <2>1, <2>3, <1>1, WorkStep DEF WorkPCs, MainPCs, BodyPCs, IdlePCs
    <2>4. CASE Wait(ThreadOf[g], g) /\ UNCHANGED <<pc, armed>>
      <3>1. GilOK'
        BY <1>0, <1>1, <2>1, <2>4, WaitKeepsGil DEF Acquiring
      <3>2. pc' = [pc EXCEPT ![g] = pc[g]]
        BY <1>0, <2>4 DEF GenTypeOK
      <3>3. armed' \in [Threads -> BOOLEAN]
        BY <1>0, <2>4 DEF GenTypeOK
      <3>4. g \in Bodies => pc[g] = "retake"
        BY <1>0, <2>1 DEF Control, Places, BodyPCs, WorkPCs, IdlePCs
      <3> QED BY <3>1, <3>2, <3>3, <3>4, <2>1, <1>1, WorkStep DEF WorkPCs, MainPCs, BodyPCs, IdlePCs
    <2> QED BY <1>2, <2>2, <2>3, <2>4 DEF Acquire, Acquired, Goto
  <1>3. CASE Poll(g)
    <2>1. /\ pc[g] = "run" /\ pc' = [pc EXCEPT ![g] = "breaker"] /\ UNCHANGED gilVars
          /\ armed' = [armed EXCEPT ![ThreadOf[g]] = TRUE]
      BY <1>3 DEF Poll, Goto
    <2>2. armed' \in [Threads -> BOOLEAN]
      BY <2>1, <1>0 DEF GenTypeOK
    <2>3. HoldsNow(g)' <=> HoldsNow(g)
      BY <2>1, <1>0 DEF HoldsNow, GenTypeOK
    <2>4. GilOK'
      BY <2>1, <2>3, <1>0, <1>1, QuietKeepsGil DEF WarmPCs, IdlePCs
    <2> QED BY <2>1, <2>2, <2>4, <1>1, WorkStep DEF WorkPCs, MainPCs, BodyPCs, IdlePCs
  <1>4. ASSUME NEW q \in {"retake", "blocked"}, pc[g] \in {"run", "breaker"},
               pc' = [pc EXCEPT ![g] = q], ReleaseGoid(g), UNCHANGED armed
        PROVE  GenIInv'
    <2>1. HeldByGoid(g)
      BY <1>0, <1>4, HotHolds DEF HotPCs
    <2>2. GilOK'
      BY <2>1, <1>0, <1>1, <1>4, ReleaseKeepsGil DEF HotPCs, WarmPCs, IdlePCs
    <2>3. armed' \in [Threads -> BOOLEAN]
      BY <1>0, <1>4 DEF GenTypeOK
    <2> QED BY <2>2, <2>3, <1>1, <1>4, WorkStep DEF WorkPCs, MainPCs, BodyPCs, IdlePCs
  <1>5. CASE HandleBreaker(g)
    <2>1. HeldByGoid(g)
      BY <1>0, <1>5, HotHolds DEF HotPCs, HandleBreaker, Goto
    <2> QED BY <2>1, <1>4, <1>5 DEF HandleBreaker, Goto
  <1>6. CASE BeginAllowThreads(g)
    <2>1. HeldByGoid(g)
      BY <1>0, <1>6, HotHolds DEF HotPCs, BeginAllowThreads, Goto
    <2> QED BY <2>1, <1>4, <1>6 DEF BeginAllowThreads, Goto
  <1>7. CASE EndAllowThreads(g)
    <2>1. pc[g] # "pinned"
      BY <1>0 DEF Control, Places, MainPCs, BodyPCs, WorkPCs, IdlePCs
    <2>2. pc[g] = "blocked" /\ pc' = [pc EXCEPT ![g] = "retake"] /\ UNCHANGED gilVars /\ armed' = armed
      BY <1>7, <2>1 DEF EndAllowThreads, Goto
    <2>3. HoldsNow(g)' <=> HoldsNow(g)
      BY <2>2, <1>0 DEF HoldsNow, GenTypeOK
    <2>4. GilOK'
      BY <2>2, <2>3, <1>0, <1>1, QuietKeepsGil DEF WarmPCs, IdlePCs
    <2>5. armed' \in [Threads -> BOOLEAN]
      BY <2>2, <1>0 DEF GenTypeOK
    <2> QED BY <2>2, <2>4, <2>5, <1>1, WorkStep DEF WorkPCs, MainPCs, BodyPCs, IdlePCs
  <1> QED BY <1>2, <1>3, <1>5, <1>6, <1>7 DEF Eval

(* A main goroutine enters Eval, or leaves it. *)
LEMMA MainStep ==
    ASSUME WellDriven, GenIInv, NEW g \in Mains, Main(g)
    PROVE  GenIInv'
  <1>0. /\ g \in Goids \ Bare /\ g \notin Bodies /\ GenTypeOK /\ GilOK /\ Control /\ BodiesOfDriver
    BY Parts DEF Mains, WellDriven
  <1>1. /\ started' = started /\ closed' = closed /\ executing' = executing
        /\ sendCh' = sendCh /\ yieldCh' = yieldCh /\ driver' = driver /\ call' = call
        /\ armed' = armed
    BY DEF Main, Enter, Leave, genVars
  <1>2. PICK q \in {"enter", "out"} :
           /\ pc[g] \in {"out", "run"} /\ pc' = [pc EXCEPT ![g] = q]
           /\ IF q = "enter" THEN pc[g] = "out" /\ UNCHANGED gilVars
                             ELSE pc[g] = "run" /\ ReleaseGoid(g)
    BY DEF Main, Enter, Leave, Goto
  <1>3. GilOK'
    <2>1. \A h \in Goids : ~Drives(h, g)
      BY <1>0, CallKnown DEF Control, Linked, Drives
    <2>2. CASE q = "enter"
      <3>1. HoldsNow(g)' <=> HoldsNow(g)
        BY <2>2, <1>0, <1>2 DEF HoldsNow, GenTypeOK
      <3> QED BY <2>2, <3>1, <1>0, <1>1, <1>2, QuietKeepsGil
    <2>3. CASE q = "out"
      <3>1. HeldByGoid(g)
        BY <2>3, <1>0, <1>2, HotHolds DEF HotPCs
      <3> QED BY <2>1, <2>3, <3>1, <1>0, <1>1, <1>2, ReleaseKeepsGil DEF HotPCs
    <2> QED BY <2>2, <2>3
  <1>4. Control'
    BY <1>0, <1>1, <1>2, RootKeeps DEF CallVars
  <1>5. GenTypeOK'
    BY <1>0, <1>1, <1>2, <1>3 DEF GenTypeOK, GilOK, GenPCs, EvalPCs
  <1> QED BY <1>3, <1>4, <1>5 DEF GenIInv, GilOK

(* next, send, throw or close is called: the guards of Send and Throw. *)
LEMMA BeginStep ==
    ASSUME WellDriven, GenIInv, NEW d \in Goids, NEW b \in Bodies, Send(d, b) \/ Throw(d, b)
    PROVE  GenIInv'
  <1>0. /\ GenTypeOK /\ GilOK /\ Control /\ BodiesOfDriver /\ Bodies \cap Bare = {}
    BY Parts, GenAssumption DEF WellDriven
  <1>1. PICK m \in Methods : /\ call' = [call EXCEPT ![d] = [body |-> b, method |-> m]]
                             /\ Send(d, b) => m = "Send"
    BY DEF Send, Throw, Methods
  <1>2. /\ pc[d] = Home(d) /\ pc' = [pc EXCEPT ![d] = "send"] /\ ~closed[b]
        /\ UNCHANGED <<gilVars, armed, closed, executing, driver, sendCh, yieldCh>>
    BY DEF Send, Throw, Goto
  <1>3. /\ started' = [started EXCEPT ![b] = TRUE]
        /\ \/ <<d, b>> \in MayDrive /\ ~executing[b] /\ m = "Send"
           \/ <<d, b>> \in MayThrow /\ started[b]
    BY <1>0, <1>1 DEF Send, Throw, GenTypeOK
  <1>4. Control'
    BY <1>0, <1>1, <1>2, <1>3, BeginKeeps
  <1>5. GilOK'
    <2>1. \A h \in Goids : h # d => call'[h] = call[h]
      BY <1>0, <1>1 DEF GenTypeOK
    <2>2. d \notin Bare => (HoldsNow(d)' <=> HoldsNow(d))
      BY <1>0, <1>2 DEF HoldsNow, GenTypeOK, Home
    <2>3. pc[d] \notin {"enter", "retake", "resume"} \cup WarmPCs
      BY <1>2 DEF Home, WarmPCs, IdlePCs
    <2>4. "send" \notin WarmPCs
      BY DEF WarmPCs, IdlePCs
    <2> QED BY <2>1, <2>2, <2>3, <2>4, <1>0, <1>2, QuietKeepsGil
  <1>6. GenTypeOK'
    BY <1>0, <1>1, <1>2, <1>3, <1>5 DEF GenTypeOK, GilOK, GenPCs
  <1> QED BY <1>4, <1>5, <1>6 DEF GenIInv, GilOK

(* The message goes into sendCh, and the driver waits for the answer. *)
LEMMA PostStep ==
    ASSUME WellDriven, GenIInv, NEW d \in Goids, Post(d)
    PROVE  GenIInv'
  <1>0. /\ GenTypeOK /\ GilOK /\ Control /\ BodiesOfDriver
    BY Parts DEF WellDriven
  <1>1. /\ pc[d] = "send" /\ pc' = [pc EXCEPT ![d] = "await"]
        /\ UNCHANGED <<gilVars, armed, started, closed, executing, driver, yieldCh, call>>
    BY DEF Post, Goto
  <1>2. /\ call[d].body \in Bodies /\ call[d].body # d
        /\ pc[call[d].body] \in {"fresh", "parked"}
    BY <1>0, <1>1, CallKnown DEF Control, Linked, Sends
  <1>3. HoldsGIL(d) <=> d \notin Bare
    BY <1>0, <1>1, HotHolds DEF HoldsGIL, HotPCs
  <1>4. Control'
    BY <1>0, <1>3, PostKeeps
  <1>5. GilOK'
    <2>1. HoldsNow(d)' <=> HoldsNow(d)
      <3>1. pc'[d] = "await" /\ pc'[call[d].body] = pc[call[d].body] /\ call' = call
        BY <1>0, <1>1, <1>2, Nobody DEF GenTypeOK
      <3> QED BY <3>1, <1>1, <1>2 DEF HoldsNow, IdlePCs
    <2> QED BY <2>1, <1>0, <1>1, QuietKeepsGil DEF WarmPCs, IdlePCs
  <1>6. GenTypeOK'
    <2>1. sendCh' \in [Bodies -> Msgs \cup {NoDriver}]
      <3>1. PICK m : m = [goid |-> d, holds |-> HoldsGIL(d), err |-> call[d].method # "Send"]
        OBVIOUS
      <3>2. m \in Msgs
        <4>1. HoldsGIL(d) \in BOOLEAN /\ (call[d].method # "Send") \in BOOLEAN
          BY DEF HoldsGIL, HeldByGoid
        <4> QED BY <3>1, <4>1 DEF Msgs
      <3>3. sendCh' = [sendCh EXCEPT ![call[d].body] = m]
        BY <3>1 DEF Post
      <3> QED BY <3>2, <3>3, <1>0 DEF GenTypeOK
    <2> QED BY <2>1, <1>0, <1>1, <1>5 DEF GenTypeOK, GilOK, GenPCs
  <1> QED BY <1>4, <1>5, <1>6 DEF GenIInv, GilOK

(* The driver takes the answer from yieldCh. *)
LEMMA CollectStep ==
    ASSUME WellDriven, GenIInv, NEW d \in Goids, Collect(d)
    PROVE  GenIInv'
  <1>0. /\ GenTypeOK /\ GilOK /\ Control /\ BodiesOfDriver
    BY Parts DEF WellDriven
  <1>1. /\ pc[d] = "await" /\ pc' = [pc EXCEPT ![d] = Home(d)]
        /\ yieldCh' = [yieldCh EXCEPT ![call[d].body] = ""]
        /\ call' = [call EXCEPT ![d] = NoCall] /\ Answered(call[d].body)
        /\ UNCHANGED <<gilVars, armed, started, executing, driver, sendCh>>
    BY DEF Collect, Goto, Answered
  <1>2. call[d].body \in Bodies /\ pc[call[d].body] \in {"parked", "dead"}
    BY <1>0, <1>1, CallKnown DEF Control, Linked, Channels
  <1>3. Control'
    BY <1>0, CollectKeeps
  <1>4. Home(d) \in {"run", "out"} /\ (d \notin Bare => Home(d) = "run") /\ (d \in Bodies => Home(d) = "run")
    BY GenAssumption DEF Home
  <1>5. GilOK'
    <2>1. d \notin Bare => (HoldsNow(d)' <=> HoldsNow(d))
      BY <1>0, <1>1, <1>2, <1>4 DEF HoldsNow, GenTypeOK, IdlePCs
    <2>2. \A h \in Goids : h # d => call'[h] = call[h]
      BY <1>0, <1>1 DEF GenTypeOK
    <2> QED BY <2>1, <2>2, <1>0, <1>1, <1>4, QuietKeepsGil DEF WarmPCs, IdlePCs
  <1>6. GenTypeOK'
    <2>1. closed' \in [Bodies -> BOOLEAN]
      <3>1. PICK x \in BOOLEAN : closed' = [closed EXCEPT ![call[d].body] = x]
        <4>1. (closed[call[d].body] \/ yieldCh[call[d].body] = "stop" \/ call[d].method = "Close") \in BOOLEAN
          OBVIOUS
        <4> QED BY <4>1, <1>2, <1>0 DEF Collect, GenTypeOK
      <3> QED BY <3>1, <1>0 DEF GenTypeOK
    <2>2. NoCall \in [body : Bodies \cup {None}, method : Methods]
      BY DEF NoCall, Methods
    <2>3. Home(d) \in GenPCs
      BY <1>4 DEF GenPCs, EvalPCs
    <2>4. /\ pc' \in [Goids -> GenPCs] /\ yieldCh' \in [Bodies -> {"", "value", "stop"}]
          /\ call' \in [Goids -> [body : Bodies \cup {None}, method : Methods]]
      BY <2>2, <2>3, <1>0, <1>1 DEF GenTypeOK
    <2> QED BY <2>1, <2>4, <1>0, <1>1, <1>5 DEF GenTypeOK, GilOK
  <1> QED BY <1>3, <1>5, <1>6 DEF GenIInv, GilOK

(* Close and Throw on a body that was never started. *)
LEMMA UnstartedStep ==
    ASSUME GenIInv, NEW d \in Goids, NEW b \in Bodies, ThrowUnstarted(d, b)
    PROVE  GenIInv'
  <1>0. /\ GenTypeOK /\ GilOK /\ Control
    BY Parts
  <1>1. /\ UNCHANGED <<gilVars, pc, armed, started, executing, driver, sendCh, yieldCh, call>>
        /\ closed' = [closed EXCEPT ![b] = TRUE]
    BY DEF ThrowUnstarted, evalVars
  <1>2. Control'
    BY <1>0, UnstartedKeeps
  <1>3. GilOK'
    BY <1>0, <1>1 DEF gilVars, GilOK, GilTypeOK, Queued, Acquiring, InCond, Baton, HeldByGoid, HoldsNow
  <1>4. GenTypeOK'
    BY <1>0, <1>1, <1>3 DEF GenTypeOK, GilOK
  <1> QED BY <1>2, <1>3, <1>4 DEF GenIInv, GilOK

(* The body takes the message from sendCh. *)
LEMMA ReceiveStep ==
    ASSUME WellDriven, GenIInv, NEW b \in Bodies, Receive(b)
    PROVE  GenIInv'
  <1>0. /\ GenTypeOK /\ GilOK /\ Control /\ BodiesOfDriver /\ b \in Goids
    BY Parts, Nobody DEF WellDriven
  <1>1. /\ pc[b] \in {"fresh", "parked"} /\ pc' = [pc EXCEPT ![b] = "resume"]
        /\ driver' = [driver EXCEPT ![b] = sendCh[b]]
        /\ sendCh' = [sendCh EXCEPT ![b] = NoDriver]
        /\ UNCHANGED <<gilVars, armed, started, closed, executing, yieldCh, call>>
    BY <1>0, FirstIsValue DEF Receive, Goto, Pending
  <1>2. Control'
    BY <1>0, ReceiveKeeps
  <1>3. GilOK'
    <2>1. HoldsNow(b)' <=> HoldsNow(b)
      BY <1>0, <1>1 DEF HoldsNow, GenTypeOK
    <2>2. \A h \in Bodies : h # b => driver'[h] = driver[h]
      BY <1>0, <1>1 DEF GenTypeOK
    <2> QED BY <2>1, <2>2, <1>0, <1>1, QuietKeepsGil DEF WarmPCs, IdlePCs
  <1>4. GenTypeOK'
    BY <1>0, <1>1, <1>3 DEF GenTypeOK, GilOK, GenPCs
  <1> QED BY <1>2, <1>3, <1>4 DEF GenIInv, GilOK

(* The body puts its answer into yieldCh. *)
LEMMA AnswerStep ==
    ASSUME WellDriven, GenIInv, NEW b \in Bodies, Answer(b)
    PROVE  GenIInv'
  <1>0. /\ GenTypeOK /\ GilOK /\ Control /\ BodiesOfDriver /\ b \in Goids
    BY Parts, Nobody DEF WellDriven
  <1>1. PICK q \in {"parked", "dead"}, v \in {"value", "stop"} :
           /\ pc[b] \in {"answer", "last"}
           /\ pc' = [pc EXCEPT ![b] = q] /\ yieldCh' = [yieldCh EXCEPT ![b] = v]
    BY DEF Answer, Goto
  <1>2. UNCHANGED <<gilVars, armed, started, closed, executing, driver, sendCh, call>>
    BY DEF Answer
  <1>3. Control'
    BY <1>0, AnswerKeeps
  <1>4. GilOK'
    <2>1. HoldsNow(b)' <=> HoldsNow(b)
      BY <1>0, <1>1 DEF HoldsNow, GenTypeOK
    <2> QED BY <2>1, <1>0, <1>1, <1>2, QuietKeepsGil DEF WarmPCs, IdlePCs
  <1>5. GenTypeOK'
    BY <1>0, <1>1, <1>2, <1>4 DEF GenTypeOK, GilOK, GenPCs
  <1> QED BY <1>3, <1>4, <1>5 DEF GenIInv, GilOK

(* SetRunning, Yield and Finish: Running is set before the body runs and   *)
(* reset after. *)
LEMMA RunningStep ==
    ASSUME WellDriven, GenIInv, NEW b \in Bodies, SetRunning(b) \/ Yield(b) \/ Finish(b)
    PROVE  GenIInv'
  <1>0. /\ GenTypeOK /\ GilOK /\ Control /\ BodiesOfDriver /\ b \in Goids /\ b \notin Mains
    BY Parts, Nobody DEF WellDriven, Mains
  <1>1. PICK q \in {"run", "suspend", "finish"}, x \in BOOLEAN :
           /\ pc[b] \in {"woke", "run"} /\ pc' = [pc EXCEPT ![b] = q]
           /\ executing' = [executing EXCEPT ![b] = x]
           /\ q = "run" => x
           /\ closed' = IF q = "finish" THEN [closed EXCEPT ![b] = TRUE] ELSE closed
    BY DEF SetRunning, Yield, Finish, Goto
  <1>2. UNCHANGED <<gilVars, armed, started, driver, sendCh, yieldCh, call>>
    BY DEF SetRunning, Yield, Finish
  <1>3. pc'[b] = q /\ \A c \in Bodies : c # b => pc'[c] = pc[c] /\ executing'[c] = executing[c]
    BY <1>0, <1>1, Nobody DEF GenTypeOK
  <1>4. /\ executing' \in [Bodies -> BOOLEAN] /\ closed' \in [Bodies -> BOOLEAN]
        /\ executing'[b] = x /\ (q = "finish" => closed'[b] = TRUE)
        /\ \A c \in Bodies : c # b => closed'[c] = closed[c]
    BY <1>0, <1>1 DEF GenTypeOK
  <1>5. Flags'
    <2> SUFFICES ASSUME NEW c \in Bodies
                 PROVE  /\ pc'[c] \in {"run", "breaker", "retake", "blocked", "send", "await"} => executing'[c]
                        /\ pc'[c] \in {"finish", "last", "dead"} => closed'[c]
      BY DEF Flags
    <2>1. CASE c = b
      BY <2>1, <1>1, <1>3, <1>4
    <2>2. CASE c # b
      BY <2>2, <1>0, <1>3, <1>4 DEF Control, Flags
    <2> QED BY <2>1, <2>2
  <1>6. Control'
    BY <1>0, <1>1, <1>2, <1>5, WorkKeeps DEF CallVars, WorkPCs, BodyPCs
  <1>7. GilOK'
    <2>1. HoldsNow(b)' <=> HoldsNow(b)
      BY <1>1, <1>3 DEF HoldsNow
    <2> QED BY <2>1, <1>0, <1>1, <1>2, QuietKeepsGil DEF WarmPCs, IdlePCs
  <1>8. GenTypeOK'
    BY <1>0, <1>1, <1>2, <1>4, <1>7 DEF GenTypeOK, GilOK, GenPCs, EvalPCs
  <1> QED BY <1>6, <1>7, <1>8 DEF GenIInv, GilOK

(* The body takes the lock over from its driver, or gets it by itself. *)
LEMMA ResumeStep ==
    ASSUME WellDriven, GenIInv, NEW b \in Bodies, Resume(b)
    PROVE  GenIInv'
  <1>0. /\ GenTypeOK /\ GilOK /\ Control /\ BodiesOfDriver /\ b \in Goids /\ b \notin Bare \cup Mains
    BY Parts, Nobody, GenAssumption DEF WellDriven, Mains
  <1>1. UNCHANGED genVars /\ armed' = armed /\ call' = call /\ driver' = driver
    BY DEF Resume, genVars
  <1>2. pc[b] # "dismiss"
    BY <1>0 DEF Control, Places, BodyPCs, IdlePCs, WorkPCs
  <1>3. pc[b] = "resume"
    BY <1>2 DEF Resume, Goto
  <1>4. Busy(b) /\ Message(b) = driver[b]
    BY <1>0, <1>3 DEF Busy, Message, Control, Linked, Channels, IdlePCs
  <1>5. /\ driver[b] \in Msgs /\ Drives(driver[b].goid, b)
        /\ driver[b].holds <=> driver[b].goid \notin Bare
    BY <1>0, <1>4 DEF Control, Linked, BusyDriven
  <1>6. armed' \in [Threads -> BOOLEAN]
    BY <1>0, <1>1 DEF GenTypeOK
  <1>7. CASE pc' = [pc EXCEPT ![b] = "woke"]
    <2>1. GilOK'
      <3>1. CASE driver[b].holds
        <4>1. Handoff(ThreadOf[b], b)
          BY <3>1, <1>3, <1>7 DEF Resume, Goto, GenTypeOK
        <4>2. PICK d \in Goids \ Bare : d = driver[b].goid
          BY <3>1, <1>5 DEF Msgs
        <4>3. HoldsNow(d) /\ pc[d] = "await"
          BY <4>2, <1>3, <1>5 DEF Drives, HoldsNow
        <4>4. HeldByGoid(d)
          BY <4>3, <1>0 DEF GilOK, Baton
        <4>5. d # b /\ ~Acquiring(b)
          BY <4>3, <1>3, <3>1 DEF Acquiring
        <4> QED BY <4>1, <4>2, <4>4, <4>5, <1>0, <1>1, <1>5, <1>7, HandoffKeepsGil
      <3>2. CASE ~driver[b].holds
        <4>1. ~AlreadyHeld(ThreadOf[b], b)
          BY <3>2, <1>0, <1>3, NeverHeldAlready DEF Acquiring
        <4>2. pc' # pc
          BY <1>0, <1>3, <1>7 DEF GenTypeOK
        <4>3. Take(ThreadOf[b], b)
          BY <3>2, <4>1, <4>2 DEF Resume, Goto, Acquired
        <4> QED BY <4>3, <1>0, <1>1, <1>7, TakeKeepsGil
      <3> QED BY <3>1, <3>2
    <2> QED BY <2>1, <1>0, <1>1, <1>3, <1>6, <1>7, WorkStep DEF WorkPCs, BodyPCs
  <1>8. CASE ~driver[b].holds /\ Wait(ThreadOf[b], b) /\ UNCHANGED pc
    <2>1. GilOK'
      BY <1>0, <1>1, <1>3, <1>8, WaitKeepsGil DEF Acquiring
    <2>2. pc' = [pc EXCEPT ![b] = "resume"]
      BY <1>0, <1>3, <1>8 DEF GenTypeOK
    <2> QED BY <2>1, <2>2, <1>0, <1>1, <1>3, <1>6, WorkStep DEF WorkPCs, BodyPCs
  <1> QED BY <1>2, <1>7, <1>8 DEF Resume, Goto

(* The body gives the lock back to its driver, or away. *)
LEMMA SuspendStep ==
    ASSUME WellDriven, GenIInv, NEW b \in Bodies, Suspend(b)
    PROVE  GenIInv'
  <1>0. /\ GenTypeOK /\ GilOK /\ Control /\ BodiesOfDriver /\ b \in Goids \ Bare /\ b \notin Mains
    BY Parts, Nobody, GenAssumption DEF WellDriven, Mains
  <1>1. UNCHANGED genVars /\ armed' = armed /\ call' = call /\ driver' = driver
    BY DEF Suspend, genVars
  <1>2. PICK q \in {"answer", "last"} :
           /\ pc[b] \in {"suspend", "finish"} /\ pc' = [pc EXCEPT ![b] = q]
           /\ q = "last" => pc[b] = "finish"
    BY DEF Suspend, Goto
  <1>3. HeldByGoid(b)
    BY <1>0, <1>2, HotHolds DEF HotPCs
  <1>4. Busy(b) /\ Message(b) = driver[b]
    BY <1>0, <1>2 DEF Busy, Message, Control, Linked, Channels, IdlePCs
  <1>5. /\ driver[b] \in Msgs /\ Drives(driver[b].goid, b)
        /\ driver[b].holds <=> driver[b].goid \notin Bare
    BY <1>0, <1>4 DEF Control, Linked, BusyDriven
  <1>6. GilOK'
    <2>1. CASE driver[b].holds
      <3>1. PICK d \in Goids \ Bare : d = driver[b].goid
        BY <2>1, <1>5 DEF Msgs
      <3>2. Handoff(ThreadOf[b], d) /\ b # d /\ ~Acquiring(b)
        BY <2>1, <3>1, <1>2, <1>5 DEF Suspend, Drives, Acquiring
      <3> QED BY <3>1, <3>2, <1>0, <1>1, <1>2, <1>3, <1>5, HandoffKeepsGil
    <2>2. CASE ~driver[b].holds
      <3>1. ReleaseGoid(b)
        BY <2>2 DEF Suspend
      <3>2. \A h \in Goids : Drives(h, b) => h \in Bare
        <4>1. driver[b].goid \in Goids
          BY <1>5 DEF Msgs
        <4> QED BY <4>1, <2>2, <1>0, <1>5 DEF Control, Linked, Awaits
      <3> QED BY <3>1, <3>2, <1>0, <1>1, <1>2, <1>3, ReleaseKeepsGil DEF HotPCs
    <2> QED BY <2>1, <2>2
  <1>7. armed' \in [Threads -> BOOLEAN]
    BY <1>0, <1>1 DEF GenTypeOK
  <1> QED BY <1>0, <1>1, <1>2, <1>6, <1>7, WorkStep DEF WorkPCs, BodyPCs

(* The invariant is inductive. *)
LEMMA GenNextIInv == WellDriven /\ GenIInv /\ [GenNext]_vars => GenIInv'
  <1> SUFFICES ASSUME WellDriven, GenIInv, [GenNext]_vars PROVE GenIInv'
    OBVIOUS
  <1>1. ASSUME NEW d \in Goids, Drive(d) PROVE GenIInv'
    BY <1>1, BeginStep, PostStep, CollectStep, UnstartedStep DEF Drive
  <1>2. ASSUME NEW b \in Bodies, Body(b) PROVE GenIInv'
    BY <1>2, ReceiveStep, ResumeStep, RunningStep, SuspendStep, AnswerStep DEF Body
  <1>3. CASE UNCHANGED vars
    <2>1. UNCHANGED <<gilVars, pc, armed, started, closed, executing, driver, sendCh, yieldCh, call>>
      BY <1>3 DEF vars, evalVars, genVars
    <2>2. GenTypeOK' /\ Queued' /\ Baton'
      BY <2>1, <1>3 DEF GenIInv, GenTypeOK, GilTypeOK, gilVars, Queued, Acquiring, InCond,
                        Baton, HeldByGoid, HoldsNow
    <2>3. /\ \A c : Pending(c)' <=> Pending(c)
          /\ \A c : Answered(c)' <=> Answered(c)
          /\ \A c : Message(c)' = Message(c)
          /\ \A c : Busy(c)' <=> Busy(c)
          /\ \A h, c : Drives(h, c)' <=> Drives(h, c)
          /\ \A h : Ctl(h)' <=> Ctl(h)
      BY <2>1 DEF Pending, Answered, Message, Busy, Drives, Ctl
    <2>4. Linked'
      BY <2>1, <2>3 DEF GenIInv, Control, Linked, Calls, BusyDriven, Channels, Awaits, Sends
    <2>5. Places' /\ Flags' /\ OneControl' /\ Rooted' /\ Leads'
      BY <2>1, <2>3 DEF GenIInv, Control, Places, Flags, OneControl, Rooted, Leads
    <2> QED BY <2>2, <2>4, <2>5 DEF GenIInv, Control
  <1> QED BY <1>1, <1>2, <1>3, MainStep, EvalStep DEF GenNext

-----------------------------------------------------------------------------

(* GenIInv holds in every state of a program that drives its bodies well.  *)
THEOREM GenInvariance ==
    ASSUME WellDriven
    PROVE  GenSpec => []GenIInv
  <1>1. GenIInv /\ [GenNext]_vars => GenIInv'
    BY GenNextIInv
  <1> QED BY <1>1, GenInitIInv, PTL DEF GenSpec

(* eval_gen.go: the lock follows whoever runs, a body that waits has not   *)
(* got it, one goroutine runs at a time, and a body has one driver.        *)
THEOREM GeneratorsCorrect ==
    ASSUME WellDriven
    PROVE  GenSpec => []GenInv
  <1>1. GenIInv => GenInv
    <2> SUFFICES ASSUME GenIInv PROVE GenInv
      OBVIOUS
    <2>0. /\ GenTypeOK /\ GilOK /\ Control
      BY Parts
    <2>1. RunnerHoldsGil
      <3>1. \A g \in Running : g \in Goids \ Bare /\ pc[g] \in HotPCs
        BY <2>0 DEF Running, Control, Places, HotPCs
      <3> QED BY <3>1, <2>0, HotHolds DEF RunnerHoldsGil
    <2>2. OneRuns
      BY <2>1 DEF OneRuns, RunnerHoldsGil, HeldByGoid
    <2>3. ParkedBodyHasNoGil
      <3> SUFFICES ASSUME NEW b \in Bodies, pc[b] \in {"answer", "last", "fresh", "parked", "dead"},
                          holderGoid = b
                   PROVE  FALSE
        BY DEF ParkedBodyHasNoGil
      <3>1. ~HoldsNow(b)
        BY DEF HoldsNow
      <3> QED BY <3>1, <2>0, Nobody DEF GilOK, Baton, HeldByGoid
    <2>4. OneDriver
      <3>1. ASSUME NEW d \in Goids, NEW e \in Goids, pc[d] = "await", pc[e] = "await",
                   call[d].body = call[e].body
            PROVE  d = e
        <4>1. call[d].body \in Bodies
          BY <3>1, <2>0, CallKnown DEF Control, Linked, WellDriven
        <4> QED BY <3>1, <4>1, <2>0 DEF Control, Linked, Awaits, Drives
      <3>2. ASSUME NEW b \in Bodies,
                   pc[b] \in {"resume", "woke", "dismiss", "run", "suspend", "answer", "finish", "last"}
            PROVE  call[driver[b].goid].body = b
        <4>1. Busy(b) /\ Message(b) = driver[b]
          BY <3>2, <2>0 DEF Busy, Message, Control, Linked, Channels, IdlePCs
        <4> QED BY <4>1, <2>0 DEF Control, Linked, BusyDriven, Drives
      <3> QED BY <3>1, <3>2 DEF OneDriver
    <2> QED BY <2>0, <2>1, <2>2, <2>3, <2>4 DEF GenInv
  <1> QED BY <1>1, GenInvariance, PTL

(* A driver that is answered has got the lock back. *)
THEOREM AnsweredHold ==
    ASSUME WellDriven
    PROVE  GenSpec => []AnsweredDriverHolds
  <1>1. GenIInv => AnsweredDriverHolds
    <2> SUFFICES ASSUME GenIInv, NEW d \in Goids \ Bare, pc[d] = "await", Answered(call[d].body)
                 PROVE  HeldByGoid(d)
      BY DEF AnsweredDriverHolds, Answered
    <2>1. call[d].body \in Bodies
      BY CallKnown DEF WellDriven, GenIInv, Control, Linked
    <2>2. pc[call[d].body] \in {"parked", "dead"}
      BY <2>1 DEF GenIInv, Control, Linked, Channels
    <2> QED BY <2>2 DEF GenIInv, Baton, HoldsNow, IdlePCs
  <1> QED BY <1>1, GenInvariance, PTL

(* A driver that waits has a message on its way, a body at work for it, or *)
(* its answer.                                                             *)
THEOREM AnswersCome ==
    ASSUME WellDriven
    PROVE  GenSpec => []AnswerIsComing
  <1>1. GenIInv => AnswerIsComing
    <2> SUFFICES ASSUME GenIInv, NEW d \in Goids, pc[d] = "await", ~Answered(call[d].body)
                 PROVE  LET b == call[d].body IN
                        \/ sendCh[b].goid = d /\ pc[b] \in {"fresh", "parked"}
                        \/ driver[b].goid = d /\ pc[b] \notin {"fresh", "parked", "dead"}
      BY DEF AnswerIsComing, Answered
    <2>1. PICK b \in Bodies : b = call[d].body
      BY CallKnown DEF WellDriven, GenIInv, Control, Linked
    <2>2. Busy(b) /\ Message(b).goid = d
      BY <2>1 DEF GenIInv, Control, Linked, Awaits, Drives
    <2> QED BY <2>1, <2>2 DEF Busy, Message, IdlePCs, GenIInv, Control, Linked, Channels
  <1> QED BY <1>1, GenInvariance, PTL
=============================================================================
