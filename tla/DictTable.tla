----------------------------- MODULE DictTable -----------------------------
(***************************************************************************)
(* The open-addressed table behind a combined dict (objects/dict_lookup.go,*)
(* dict_mutate.go) and its iterators (dict_iter.go).  One step is one slot *)
(* that a lookup looks at: where the hashes agree, the comparison runs the *)
(* user's __eq__, which may use the dict itself.  Operations that are      *)
(* under way on the dict are a stack.                                      *)
(*                                                                         *)
(* Keys stand for classes of equal keys.  Everything holds the dict's      *)
(* lock, which is reentrant, so other threads do not come in between.      *)
(***************************************************************************)
EXTENDS Integers, SequencesExt, FiniteSetsExt

CONSTANTS
    Key,
    Values,         \* bound: what is stored under a key
    Hash,           \* of a key
    MinSize,        \* dictMinSize, a power of two
    Shift,          \* 2^5, what one perturbation shifts by
    MaxDepth,       \* bound: operations that are under way at once
    MayRaise,       \* __eq__ may raise an exception in a resize
    ClearsDummies,  \* clear is called on a table that has dummies
    Empty, Dummy, NoIter, Missing, Raised

Value == UNION { Values[k] : k \in Key }

Pair == [key : Key, value : Value]

(* What may be asked of the dict. *)
Op == {"get", "put", "default", "del"}

ASSUME DictAssumption ==
    /\ Hash \in [Key -> Nat] /\ MinSize \in Nat \ {0, 1} /\ Shift \in Nat \ {0, 1}
    /\ MaxDepth \in Nat /\ MayRaise \in BOOLEAN /\ ClearsDummies \in BOOLEAN

(* What stands for no pair, or no operation, is told from those. *)
ASSUME Distinct ==
    /\ Empty # Dummy /\ Empty \notin Pair /\ Dummy \notin Pair
    /\ NoIter \notin [op : Op, key : Key, value : Value \cup {Missing}]

VARIABLES
    entries,    \* slot -> Empty, Dummy or the pair in it
    order,      \* the used slots, in insertion order
    used, fill,
    stack,      \* the operations under way, the innermost first
    iter,       \* an iterator, or NoIter
    answer      \* what the last operation answered, until the next is called

vars == <<entries, order, used, fill, stack, iter, answer>>

Slots == DOMAIN entries

Live(s) == entries[s] \notin {Empty, Dummy}

(* The keys of the order list's slots, which may be dead. *)
Pairs(s) == [i \in DOMAIN s |-> entries[s[i]]]

DictInit ==
    /\ entries = [s \in 0 .. MinSize - 1 |-> Empty]
    /\ order = <<>> /\ used = 0 /\ fill = 0 /\ stack = <<>> /\ iter = NoIter
    /\ answer = Missing

-----------------------------------------------------------------------------
(* Sizes.                                                                  *)

usableFraction(n) == (2 * n) \div 3

loadAtCapacity == fill >= usableFraction(Cardinality(Slots))

(* What the size is after so many doublings. *)
doubled[i \in Nat] == IF i = 0 THEN MinSize ELSE 2 * doubled[i - 1]

nextDictPow2(n) == Min({ p \in { doubled[i] : i \in 0 .. n } : p >= n })

-----------------------------------------------------------------------------
(* Lookup.                                                                 *)

Top == stack[1]

(* The key looked up: of a pair to move to the new table, or the one asked for. *)
Wanted(f) == IF f.todo = <<>> THEN f.key ELSE f.todo[1].key

(* dictProbe, set on the first slot of a table of n. *)
Probe(f, n) ==
    [f EXCEPT !.at = Hash[Wanted(f)] % n, !.perturb = Hash[Wanted(f)],
              !.free = -1, !.size = n, !.phase = "probe"]

(* Mutant: 5i + perturb. *)
NextSlotNoIncrement(f) ==
    LET p == f.perturb \div Shift
    IN  [f EXCEPT !.at = (5 * f.at + p) % f.size, !.perturb = p, !.phase = "probe"]

NextSlot(f) ==
    LET p == f.perturb \div Shift
    IN  [f EXCEPT !.at = (5 * f.at + 1 + p) % f.size, !.perturb = p, !.phase = "probe"]

ReplaceTop(f) == [stack EXCEPT ![1] = f]

-----------------------------------------------------------------------------
(* What Python code may ask for: between operations, and in an __eq__.     *)

UserRuns == stack # <<>> => Top.phase \in {"equal", "differs"}

(* dictInsert, dictSetDefault, dictDelete, GetItem and Contains up to the  *)
(* lookup.  An insertion into a full table moves to a new one first.       *)
Call(op, k, v) ==
    /\ UserRuns /\ Len(stack) < MaxDepth
    /\ LET grows == op \in {"put", "default"} /\ loadAtCapacity
           n == IF grows THEN nextDictPow2(3 * used) ELSE Cardinality(Slots)
           f == [op |-> op, key |-> k, value |-> v,
                 todo |-> IF grows THEN Pairs(order) ELSE <<>>,
                 at |-> 0, perturb |-> 0, free |-> -1, size |-> n, phase |-> "probe"]
       IN  /\ stack' = <<Probe(f, n)>> \o stack
           /\ IF grows
              THEN /\ entries' = [s \in 0 .. n - 1 |-> Empty]
                   /\ order' = <<>> /\ used' = 0 /\ fill' = 0
              ELSE UNCHANGED <<entries, order, used, fill>>
    /\ answer' = Missing
    /\ UNCHANGED iter

(* dictPopItemMethod: the last key is looked up again to be deleted.       *)
PopItem ==
    /\ used > 0 /\ order # <<>> /\ Live(Last(order))
    /\ Call("del", entries[Last(order)].key, Missing)

(* clearContents: only the used slots are reset. *)
ClearAll ==
    /\ UserRuns /\ Len(stack) < MaxDepth
    /\ ClearsDummies \/ Dummy \notin { entries[s] : s \in Slots }
    /\ entries' = [s \in Slots |-> IF Live(s) THEN Empty ELSE entries[s]]
    /\ order' = <<>> /\ used' = 0 /\ fill' = 0 /\ answer' = Missing
    /\ UNCHANGED <<stack, iter>>

(* newDictIter, newDictIterReversed.  Stale is whether the version of the  *)
(* table has moved since; start and gave are history.                      *)
NewIter(backwards) ==
    /\ UserRuns /\ iter = NoIter
    /\ LET keys == [p \in DOMAIN order |-> entries[order[p]].key]
       IN  iter' = [pos |-> IF backwards THEN Len(order) ELSE 1, backwards |-> backwards,
                    snapUsed |-> used, length |-> used, stale |-> FALSE, ended |-> FALSE,
                    start |-> IF backwards THEN Reverse(keys) ELSE keys, gave |-> <<>>]
    /\ UNCHANGED <<entries, order, used, fill, stack, answer>>

(* Mutant: only the number of keys is compared. *)
ChangedSizeOnly == iter.snapUsed # used

(* advance raises RuntimeError. *)
Changed == iter.snapUsed # used \/ iter.stale

(* advance: the next live slot, unless the table has changed, which ends   *)
(* the iterator as one entry too many does.                                *)
Advance ==
    /\ UserRuns /\ iter # NoIter /\ ~iter.ended
    /\ LET ahead == { p \in DOMAIN order :
                        Live(order[p]) /\ IF iter.backwards THEN p <= iter.pos ELSE p >= iter.pos }
           p == IF iter.backwards THEN Max(ahead) ELSE Min(ahead)
       IN  iter' = IF Changed THEN NoIter
                   ELSE IF ahead = {} THEN [iter EXCEPT !.ended = TRUE]
                   ELSE IF iter.length = 0 THEN NoIter
                   ELSE [iter EXCEPT !.pos = IF iter.backwards THEN p - 1 ELSE p + 1,
                                     !.length = @ - 1,
                                     !.gave = Append(@, entries[order[p]].key)]
    /\ UNCHANGED <<entries, order, used, fill, stack, answer>>

(* The iterator is let go of. *)
DropIter ==
    /\ UserRuns /\ iter # NoIter /\ iter' = NoIter
    /\ UNCHANGED <<entries, order, used, fill, stack, answer>>

User ==
    \/ \E k \in Key : Call("get", k, Missing) \/ Call("del", k, Missing)
    \/ \E k \in Key : \E v \in Values[k] : Call("put", k, v) \/ Call("default", k, v)
    \/ PopItem
    \/ ClearAll
    \/ \E backwards \in BOOLEAN : NewIter(backwards)
    \/ Advance
    \/ DropIter

-----------------------------------------------------------------------------
(* The end of a lookup: slot i, and whether the key was found there.       *)

Bump == iter' = IF iter = NoIter THEN NoIter ELSE [iter EXCEPT !.stale = TRUE]

(* dictReinsert: whatever the lookup says, the pair goes into the slot.    *)
Reinsert(i) ==
    /\ Top.todo # <<>>
    /\ entries' = [entries EXCEPT ![i] = Top.todo[1]]
    /\ order' = Append(order, i) /\ used' = used + 1 /\ fill' = fill + 1
    /\ stack' = ReplaceTop(Probe([Top EXCEPT !.todo = Tail(@)], Cardinality(Slots)))
    /\ UNCHANGED <<iter, answer>>

Return(a) == Top.todo = <<>> /\ stack' = Tail(stack) /\ answer' = a

(* GetItem, Contains, and dictSetDefault of a key that is there. *)
Fetch(i, found) ==
    /\ \/ Top.op = "get"
       \/ Top.op = "default" /\ found
    /\ Return(IF found /\ Live(i) THEN entries[i].value ELSE Missing)
    /\ UNCHANGED <<entries, order, used, fill, iter>>

(* dictInsert and dictSetDefault of a key that is not. *)
Insert(i) ==
    /\ Top.op \in {"put", "default"}
    /\ Return(IF Top.op = "put" THEN Missing ELSE Top.value)
    /\ fill' = IF entries[i] = Dummy THEN fill ELSE fill + 1
    /\ entries' = [entries EXCEPT ![i] = [key |-> Top.key, value |-> Top.value]]
    /\ order' = Append(order, i) /\ used' = used + 1
    /\ Bump

(* dictInsert of a key that is there: the key stays and so does its place. *)
Replace(i) ==
    /\ Top.op = "put"
    /\ Return(Missing)
    /\ entries' = IF Live(i) THEN [entries EXCEPT ![i].value = Top.value] ELSE entries
    /\ UNCHANGED <<order, used, fill, iter>>

(* The list without the slot. *)
Unlisted(i) ==
    IF i \in ToSet(order) THEN RemoveAt(order, CHOOSE p \in DOMAIN order : order[p] = i) ELSE order

(* Mutant: the slot is emptied, which cuts the chains that go through it. *)
RemoveNoDummy(i) ==
    /\ Top.op = "del"
    /\ Return(Top.key)
    /\ entries' = [entries EXCEPT ![i] = Empty]
    /\ order' = Unlisted(i) /\ used' = used - 1
    /\ Bump
    /\ UNCHANGED fill

(* dictDelete. *)
Delete(i) ==
    /\ Top.op = "del"
    /\ Return(Top.key)
    /\ entries' = [entries EXCEPT ![i] = Dummy]
    /\ order' = Unlisted(i) /\ used' = used - 1
    /\ Bump
    /\ UNCHANGED fill

NotFound ==
    /\ Top.op = "del"
    /\ Return(Missing)
    /\ UNCHANGED <<entries, order, used, fill, iter>>

Hit(i) == Reinsert(i) \/ Fetch(i, TRUE) \/ Replace(i) \/ Delete(i)

Miss(i) == Reinsert(i) \/ Fetch(i, FALSE) \/ Insert(i) \/ NotFound

-----------------------------------------------------------------------------
(* dictProbe, one slot at a time.                                          *)

Untouched == UNCHANGED <<entries, order, used, fill, iter, answer>>

Looking == stack # <<>> /\ Top.phase = "probe" /\ Top.at \in Slots

(* An empty slot ends the walk, at the first dummy if there was one. *)
LookAtEmpty ==
    /\ Looking /\ entries[Top.at] = Empty
    /\ Miss(IF Top.free >= 0 THEN Top.free ELSE Top.at)

LookAtDummy ==
    /\ Looking /\ entries[Top.at] = Dummy
    /\ stack' = ReplaceTop(NextSlot([Top EXCEPT !.free = IF @ >= 0 THEN @ ELSE Top.at]))
    /\ Untouched

(* Mutant: equal hashes are taken for equal keys. *)
LookAtKeyHashOnly ==
    /\ Looking /\ Live(Top.at)
    /\ LET k == entries[Top.at].key
       IN  stack' = ReplaceTop(IF Hash[k] # Hash[Wanted(Top)] THEN NextSlot(Top)
                               ELSE [Top EXCEPT !.phase = "equal"])
    /\ Untouched

(* The hashes decide, or __eq__ does, of the key that is in the slot now.  *)
LookAtKey ==
    /\ Looking /\ Live(Top.at)
    /\ LET k == entries[Top.at].key
       IN  stack' = ReplaceTop(IF Hash[k] # Hash[Wanted(Top)] THEN NextSlot(Top)
                               ELSE [Top EXCEPT !.phase = IF k = Wanted(Top) THEN "equal"
                                                          ELSE "differs"])
    /\ Untouched

(* __eq__ has returned. *)
CompareReturns ==
    /\ stack # <<>>
    /\ \/ Top.phase = "equal" /\ Hit(Top.at)
       \/ Top.phase = "differs" /\ stack' = ReplaceTop(NextSlot(Top)) /\ Untouched

(* __eq__ has raised: the operation is over, whatever it has done by now.  *)
CompareRaises ==
    /\ stack # <<>> /\ Top.phase \in {"equal", "differs"}
    /\ Top.todo # <<>> => MayRaise
    /\ stack' = Tail(stack) /\ answer' = Raised
    /\ UNCHANGED <<entries, order, used, fill, iter>>

Probing == LookAtEmpty \/ LookAtDummy \/ LookAtKey \/ CompareReturns

DictNext == User \/ Probing \/ CompareRaises

DictSpec == DictInit /\ [][DictNext]_vars

(* An __eq__ returns, and a lookup goes on. *)
FairDictSpec == DictSpec /\ WF_vars(Probing)

-----------------------------------------------------------------------------

DictTypeOK ==
    /\ entries \in [Slots -> {Empty, Dummy} \cup Pair]
    /\ order \in Seq(Slots) /\ used \in Nat /\ fill \in Nat
    /\ Len(stack) <= MaxDepth
    /\ answer \in Key \cup Value \cup {Missing, Raised}

(* dict.go:33-34: used counts the active entries. *)
UsedIsActive == used = Cardinality({ s \in Slots : Live(s) })

(* dict_mutate.go:14-18, 50-58: the table counts what is in it, lists its  *)
(* live slots once each, has no key twice, and always has an empty slot to *)
(* end a lookup.                                                           *)
TableIsSound ==
    /\ DictTypeOK
    /\ UsedIsActive
    /\ fill = Cardinality({ s \in Slots : entries[s] # Empty })
    /\ fill < Cardinality(Slots)
    /\ Len(order) = used /\ ToSet(order) = { s \in Slots : Live(s) }
    /\ \A s, t \in Slots : Live(s) /\ Live(t) /\ s # t => entries[s].key # entries[t].key

(* dict_iter.go:1-12, 337-395: an iterator gives the keys it found when it *)
(* was made, in their order and each once, or raises; it never ends early. *)
IteratorIsFaithful == iter # NoIter =>
    /\ IsPrefix(iter.gave, iter.start)
    /\ iter.ended => iter.gave = iter.start

(* What the dict holds, in order: while its pairs are moved to another     *)
(* table, those that are still to be.                                      *)
Contents == Pairs(order) \o IF stack = <<>> THEN <<>> ELSE stack[Len(stack)].todo

(* The operation the others are called in. *)
Question == IF stack = <<>> THEN NoIter
            ELSE LET f == stack[Len(stack)]
                 IN  [op |-> f.op, key |-> f.key, value |-> f.value]

Map == INSTANCE OrderedMap WITH
    MapKey <- Key, MapValue <- Value, NoQuestion <- NoIter,
    pairs <- Contents, asked <- Question, reply <- answer

(* Tables, dummies, probes and resizes come down to a map that keeps the   *)
(* order of its keys.                                                      *)
ImplementsOrderedMap == Map!MapSpec

(* dict_mutate.go:52-55: no lookup goes on for ever. *)
OperationsEnd == stack # <<>> ~> stack = <<>>
=============================================================================
