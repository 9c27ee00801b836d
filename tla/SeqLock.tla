------------------------------ MODULE SeqLock ------------------------------
(***************************************************************************)
(* pysync/seqlock.go: the sequence lock.  Writers make the number odd while*)
(* they change the data; readers do not lock anything and read again when  *)
(* the number is not what it was.                                          *)
(*                                                                         *)
(* The number is a uint32, here a number below SeqModulus, and it does come*)
(* round.  The data is the caller's: two cells, which a writer changes one *)
(* after the other, with atomic loads and stores.  A writer that abandons  *)
(* has not changed anything yet, or what it wrote would pass for published.*)
(*                                                                         *)
(* A goroutine is `idle`; a writer is in LockWrite (lock, swap) or has the *)
(* lock (write1, write2, publish); a reader is in BeginRead (begin), reads *)
(* (read1, read2), is in EndRead (end) or has a read that counts (valid).  *)
(***************************************************************************)
EXTENDS Integers

CONSTANTS Writers, Readers, SeqModulus

VARIABLES
    sequence,
    cells,      \* the data
    pc,
    token,      \* token[t]: the number t loaded: prev, or BeginRead's result
    got         \* got[r]: what reader r has read

seqVars == <<sequence, cells, pc, token, got>>

(* Of two halves: 2^32 in the code. *)
SeqAssumption ==
    /\ SeqModulus \in Nat \ {0} /\ SeqModulus % 2 = 0
    /\ Writers \cap Readers = {}

Numbers  == 0 .. SeqModulus - 1
Versions == 0 .. SeqModulus \div 2 - 1

Holding == {w \in Writers : pc[w] \in {"write1", "write2", "publish"}}
Reading == {r \in Readers : pc[r] \in {"read1", "read2", "end", "valid"}}

SeqTypeOK ==
    /\ sequence \in Numbers
    /\ cells \in [1..2 -> Versions]
    /\ \A w \in Writers : pc[w] \in {"idle", "lock", "swap", "write1", "write2", "publish"}
    /\ \A r \in Readers : pc[r] \in {"idle", "begin", "read1", "read2", "end", "valid"}
    /\ token \in [Writers \cup Readers -> Numbers]
    /\ got \in [Readers -> [1..2 -> Versions]]

SeqInit ==
    /\ sequence = 0
    /\ cells = [i \in 1..2 |-> 0]
    /\ pc = [t \in Writers \cup Readers |-> "idle"]
    /\ token = [t \in Writers \cup Readers |-> 0]
    /\ got = [r \in Readers |-> [i \in 1..2 |-> 0]]

-----------------------------------------------------------------------------

seqIsUpdating(s) == s % 2 = 1

Goto(t, from, to) == pc[t] = from /\ pc' = [pc EXCEPT ![t] = to]

Call(t) ==
    /\ Goto(t, "idle", IF t \in Writers THEN "lock" ELSE "begin")
    /\ UNCHANGED <<sequence, cells, token, got>>

(* LockWrite and BeginRead load the number until it is even. *)
LoadEven(t) ==
    /\ ~seqIsUpdating(sequence)
    /\ IF t \in Writers THEN Goto(t, "lock", "swap") ELSE Goto(t, "begin", "read1")
    /\ token' = [token EXCEPT ![t] = sequence]
    /\ UNCHANGED <<sequence, cells, got>>

(* LockWrite: the compare-and-swap. *)
SwapOdd(w) ==
    /\ \/ /\ sequence = token[w]
          /\ Goto(w, "swap", "write1")
          /\ sequence' = (token[w] + 1) % SeqModulus
       \/ /\ sequence # token[w]
          /\ Goto(w, "swap", "lock")
          /\ UNCHANGED sequence
    /\ token' = [token EXCEPT ![w] = 0]
    /\ UNCHANGED <<cells, got>>

(* AbandonWrite, by a writer that has not written.  Nobody else changes an *)
(* odd number, so its load and its store are one step.                     *)
AbandonWrite(w) ==
    /\ Goto(w, "write1", "idle")
    /\ sequence' = (sequence - 1) % SeqModulus
    /\ UNCHANGED <<cells, token, got>>

(* The caller's stores to the data: the next version. *)
WriteCell(w, i) ==
    /\ IF i = 1 THEN Goto(w, "write1", "write2") ELSE Goto(w, "write2", "publish")
    /\ cells' = [cells EXCEPT ![i] = (@ + 1) % (SeqModulus \div 2)]
    /\ UNCHANGED <<sequence, token, got>>

(* UnlockWrite.  The bound: no reader sleeps until the number has come all *)
(* the way round, 2^31 writes in the code.                                 *)
UnlockWrite(w) ==
    /\ \A r \in Reading : (sequence + 1) % SeqModulus # token[r]
    /\ Goto(w, "publish", "idle")
    /\ sequence' = (sequence + 1) % SeqModulus
    /\ UNCHANGED <<cells, token, got>>

(* The caller's loads of the data. *)
ReadCell(r, i) ==
    /\ IF i = 1 THEN Goto(r, "read1", "read2") ELSE Goto(r, "read2", "end")
    /\ got' = [got EXCEPT ![r][i] = cells[i]]
    /\ UNCHANGED <<sequence, cells, token>>

(* Mutant: EndRead asks only whether a write is going on. *)
EndReadParity(r) ==
    /\ Goto(r, "end", IF seqIsUpdating(sequence) THEN "begin" ELSE "valid")
    /\ UNCHANGED <<sequence, cells, token, got>>

(* EndRead: the read counts, or is done once more. *)
EndRead(r) ==
    /\ Goto(r, "end", IF sequence = token[r] THEN "valid" ELSE "begin")
    /\ UNCHANGED <<sequence, cells, token, got>>

(* The caller is done with what it read. *)
DropRead(r) ==
    /\ Goto(r, "valid", "idle")
    /\ token' = [token EXCEPT ![r] = 0]
    /\ got' = [got EXCEPT ![r] = [i \in 1..2 |-> 0]]
    /\ UNCHANGED <<sequence, cells>>

SeqNext ==
    \/ \E t \in Writers \cup Readers : Call(t) \/ LoadEven(t)
    \/ \E w \in Writers :
          SwapOdd(w) \/ AbandonWrite(w) \/ UnlockWrite(w) \/ \E i \in 1..2 : WriteCell(w, i)
    \/ \E r \in Readers : EndRead(r) \/ DropRead(r) \/ \E i \in 1..2 : ReadCell(r, i)

SeqSpec == SeqInit /\ [][SeqNext]_seqVars

-----------------------------------------------------------------------------

(* seqlock.go:27: one writer at a time has the lock, and the number is odd *)
(* exactly while one has it, whoever else has loaded it, gives up or       *)
(* abandons, and when it comes round.                                      *)
OneWrites ==
    /\ \A w, x \in Holding : w = x
    /\ seqIsUpdating(sequence) <=> Holding # {}

(* seqlock.go:74: what EndRead lets pass is what was published when the    *)
(* read began, both cells of it: no part of a write that was going on, or  *)
(* that began and ended in between, or was abandoned.                      *)
ValidReadsAreWhole ==
    \A r \in Readers : pc[r] = "valid" => got[r] = [i \in 1..2 |-> token[r] \div 2]

SeqInv == SeqTypeOK /\ OneWrites /\ ValidReadsAreWhole
=============================================================================
