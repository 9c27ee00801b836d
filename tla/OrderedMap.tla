----------------------------- MODULE OrderedMap -----------------------------
(***************************************************************************)
(* What a dict promises the Python code that uses it: a map whose keys     *)
(* keep the order in which they were put in.  A key that is put again      *)
(* keeps its place; one that was deleted and comes back is the last.  It   *)
(* is asked one thing at a time, and answers in one step.                  *)
(***************************************************************************)
EXTENDS SequencesExt

CONSTANTS MapKey, MapValue, Missing, Raised, NoQuestion

VARIABLES
    pairs,      \* the pairs, first in first
    asked,      \* the operation that is called, or NoQuestion
    reply       \* what the last operation answered

MapInit == pairs = <<>> /\ asked = NoQuestion /\ reply = Missing

Ask(op, k, v) ==
    /\ asked = NoQuestion
    /\ asked' = [op |-> op, key |-> k, value |-> v] /\ reply' = Missing
    /\ UNCHANGED pairs

At(k) == { i \in DOMAIN pairs : pairs[i].key = k }

(* What is stored under k, or Missing. *)
Stored(k) == IF At(k) = {} THEN Missing ELSE pairs[CHOOSE i \in At(k) : TRUE].value

With(k, v) ==
    IF At(k) = {} THEN Append(pairs, [key |-> k, value |-> v])
    ELSE [i \in DOMAIN pairs |-> IF i \in At(k) THEN [key |-> k, value |-> v] ELSE pairs[i]]

Answer(a, p) == asked' = NoQuestion /\ reply' = a /\ pairs' = p

Get ==
    /\ asked # NoQuestion /\ asked.op = "get"
    /\ Answer(Stored(asked.key), pairs)

Without(k) ==
    IF At(k) = {} THEN pairs ELSE RemoveAt(pairs, CHOOSE i \in At(k) : TRUE)

Put ==
    /\ asked # NoQuestion /\ asked.op = "put"
    /\ Answer(Missing, With(asked.key, asked.value))

SetDefault ==
    /\ asked # NoQuestion /\ asked.op = "default"
    /\ IF At(asked.key) = {} THEN Answer(asked.value, With(asked.key, asked.value))
       ELSE Answer(Stored(asked.key), pairs)

Delete ==
    /\ asked # NoQuestion /\ asked.op = "del"
    /\ Answer(IF At(asked.key) = {} THEN Missing ELSE asked.key, Without(asked.key))

(* The comparison of two keys raises. *)
Fail == asked # NoQuestion /\ Answer(Raised, pairs)

Clear == asked = NoQuestion /\ pairs' = <<>> /\ reply' = Missing /\ UNCHANGED asked

MapNext ==
    \/ \E k \in MapKey : Ask("get", k, Missing) \/ Ask("del", k, Missing)
    \/ \E k \in MapKey, v \in MapValue : Ask("put", k, v) \/ Ask("default", k, v)
    \/ Get \/ Put \/ SetDefault \/ Delete \/ Fail
    \/ Clear

MapSpec == MapInit /\ [][MapNext]_<<pairs, asked, reply>>
=============================================================================
