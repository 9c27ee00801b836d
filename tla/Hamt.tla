-------------------------------- MODULE Hamt --------------------------------
(***************************************************************************)
(* The persistent map of a Context (hamt/hamt.go, iter.go, api.go): a tree *)
(* that branches on a digit of the key's hash per level.  A node with few  *)
(* entries is a bitmap node, one with many an array of children, and keys  *)
(* whose whole hashes agree are in a collision node, however high up.      *)
(*                                                                         *)
(* A bitmap and its packed array are a function from digits; a child that  *)
(* is a key and its value is a leaf.  Nodes are never changed, so they are *)
(* values.  Keys are context variables, which are equal if they are the    *)
(* same and never raise.                                                   *)
(***************************************************************************)
EXTENDS Integers, SequencesExt, FiniteSetsExt

CONSTANTS
    Key, Val, Missing,
    Hash,           \* hamtHash of a key
    Branch,         \* arrayNodeSize, 32
    Threshold,      \* bitmapPromoteThreshold, 16
    MaxTreeDepth    \* 8: the levels of an iterator's stack

(* The last digit of a hash has no more values than a bitmap node has      *)
(* entries: 2 bits of 32 are left for it.                                  *)
HamtAssumption ==
    /\ Threshold \in 3 .. Branch - 1 /\ MaxTreeDepth \in Nat \ {0, 1}
    /\ Hash \in [Key -> 0 .. Threshold * Branch ^ (MaxTreeDepth - 2) - 1]

VARIABLES
    root, count,
    contents    \* history: what was stored under each key, or Missing

hamtVars == <<root, count, contents>>

Leaf(k, v) == [kind |-> "leaf", key |-> k, value |-> v]
Bitmap(f) == [kind |-> "bitmap", slots |-> f]
Array(n, f) == [kind |-> "array", count |-> n, slots |-> f]
Collision(h, s) == [kind |-> "collision", hash |-> h, pairs |-> s]

EmptyNode == Bitmap(<<>>)

hamtMask(h, level) == (h \div Branch ^ level) % Branch

With(f, d, e) == [i \in DOMAIN f \cup {d} |-> IF i = d THEN e ELSE f[i]]
Except(f, d) == [i \in DOMAIN f \ {d} |-> f[i]]

(* A bitmap node with one pair in it. *)
Single(level, e) == Bitmap(With(<<>>, hamtMask(Hash[e.key], level), e))

(* It can take its parent's place in the parent's parent. *)
IsSingle(n) ==
    n.kind = "bitmap" /\ Cardinality(DOMAIN n.slots) = 1 /\ \A d \in DOMAIN n.slots : n.slots[d].kind = "leaf"

Only(n) == n.slots[CHOOSE d \in DOMAIN n.slots : TRUE]

findIndex(n, k) == SelectInSeq(n.pairs, LAMBDA e : e.key = k)

-----------------------------------------------------------------------------
(* assoc: the new node, and whether there is a new leaf in it.             *)

(* A bitmap node that is full becomes an array, its pairs nodes.           *)
Promote(n, level, e) ==
    LET d == hamtMask(Hash[e.key], level)
        child(c) == IF c.kind = "leaf" THEN Single(level + 1, c) ELSE c
    IN  Array(Cardinality(DOMAIN n.slots) + 1,
              [i \in DOMAIN n.slots \cup {d} |-> child(IF i = d THEN e ELSE n.slots[i])])

RECURSIVE Assoc(_, _, _), TwoLeaves(_, _, _)

(* newBitmapOrCollision. *)
TwoLeaves(level, e1, e2) ==
    IF Hash[e1.key] = Hash[e2.key] THEN Collision(Hash[e1.key], <<e1, e2>>)
    ELSE Assoc(Assoc(EmptyNode, level, e1), level, e2)

Assoc(n, level, e) ==
    LET h == Hash[e.key]
        d == hamtMask(h, level)
        old == n.slots[d]
    IN  CASE n.kind = "bitmap" /\ d \notin DOMAIN n.slots ->
                IF Cardinality(DOMAIN n.slots) >= Threshold THEN Promote(n, level, e)
                ELSE Bitmap(With(n.slots, d, e))
          [] n.kind = "bitmap" /\ d \in DOMAIN n.slots ->
                Bitmap(With(n.slots, d,
                    IF old.kind # "leaf" THEN Assoc(old, level + 1, e)
                    ELSE IF old.key = e.key THEN e
                    ELSE TwoLeaves(level + 1, old, e)))
          [] n.kind = "array" /\ d \notin DOMAIN n.slots ->
                Array(n.count + 1, With(n.slots, d, Single(level + 1, e)))
          [] n.kind = "array" /\ d \in DOMAIN n.slots ->
                Array(n.count, With(n.slots, d, Assoc(old, level + 1, e)))
          [] n.kind = "collision" /\ h = n.hash ->
                LET i == findIndex(n, e.key)
                IN  Collision(h, IF i = 0 THEN Append(n.pairs, e) ELSE [n.pairs EXCEPT ![i] = e])
          [] n.kind = "collision" /\ h # n.hash ->
                Assoc(Bitmap(With(<<>>, hamtMask(n.hash, level), n)), level, e)

RECURSIVE AddsLeaf(_, _, _)
AddsLeaf(n, level, e) ==
    LET d == hamtMask(Hash[e.key], level)
    IN  CASE n.kind = "leaf" -> n.key # e.key
          [] n.kind = "collision" -> Hash[e.key] # n.hash \/ findIndex(n, e.key) = 0
          [] OTHER -> d \notin DOMAIN n.slots \/ AddsLeaf(n.slots[d], level + 1, e)

-----------------------------------------------------------------------------
(* without: the key is not there, the node is empty now, or the new node.  *)

NotFound == [kind |-> "notfound"]
EmptyAnswer == [kind |-> "empty"]
Panic == [kind |-> "panic"]

(* Mutant: the child is put in as it is. *)
ReplaceChildOnly(n, d, sub) == Bitmap(With(n.slots, d, sub))

(* A child with one pair left is replaced by the pair. *)
ReplaceChild(n, d, sub) ==
    Bitmap(With(n.slots, d, IF IsSingle(sub) THEN Only(sub) ELSE sub))

(* An array node that lost a child: with few left it is a bitmap node. *)
Shrink(n, d) ==
    LET left == Except(n.slots, d)
    IN  IF n.count - 1 = 0 THEN EmptyAnswer
        ELSE IF n.count - 1 >= Threshold THEN Array(n.count - 1, left)
        ELSE Bitmap([i \in DOMAIN left |-> IF IsSingle(left[i]) THEN Only(left[i]) ELSE left[i]])

WithoutPair(n, level, k) ==
    LET i == findIndex(n, k)
        left == RemoveAt(n.pairs, i)
    IN  IF i = 0 THEN NotFound
        ELSE IF left = <<>> THEN EmptyAnswer
        ELSE IF Len(left) = 1 THEN Single(level, left[1])
        ELSE Collision(n.hash, left)

RECURSIVE Without(_, _, _)
Without(n, level, k) ==
    LET d == hamtMask(Hash[k], level)
        sub == Without(n.slots[d], level + 1, k)
    IN  IF n.kind = "collision"
        THEN IF Hash[k] = n.hash THEN WithoutPair(n, level, k) ELSE NotFound
        ELSE IF d \notin DOMAIN n.slots THEN NotFound
        ELSE IF n.slots[d].kind = "leaf"
        THEN IF n.slots[d].key # k THEN NotFound
             ELSE IF Cardinality(DOMAIN n.slots) = 1 THEN EmptyAnswer
             ELSE Bitmap(Except(n.slots, d))
        ELSE CASE sub \in {NotFound, Panic} -> sub
               [] sub = EmptyAnswer -> IF n.kind = "bitmap" THEN Panic ELSE Shrink(n, d)
               [] OTHER -> IF n.kind = "bitmap" THEN ReplaceChild(n, d, sub)
                           ELSE Array(n.count, With(n.slots, d, sub))

-----------------------------------------------------------------------------
(* find, and what an iterator goes through.                                *)

RECURSIVE FindIn(_, _, _)
FindIn(n, level, k) ==
    LET d == hamtMask(Hash[k], level)
    IN  CASE n.kind = "leaf" -> IF n.key = k THEN n.value ELSE Missing
          [] n.kind = "collision" ->
                IF findIndex(n, k) = 0 THEN Missing ELSE n.pairs[findIndex(n, k)].value
          [] OTHER -> IF d \in DOMAIN n.slots THEN FindIn(n.slots[d], level + 1, k) ELSE Missing

Find(k) == IF count = 0 THEN Missing ELSE FindIn(root, 0, k)

RECURSIVE Items(_)
Items(n) ==
    CASE n.kind = "leaf" -> <<n>>
      [] n.kind = "collision" -> n.pairs
      [] OTHER -> FlattenSeq([i \in 1 .. Cardinality(DOMAIN n.slots) |->
                                Items(n.slots[SetToSortSeq(DOMAIN n.slots, <)[i]])])

(* The levels of the iterator's stack that it uses. *)
RECURSIVE Depth(_)
Depth(n) ==
    IF n.kind = "leaf" THEN 0
    ELSE IF n.kind = "collision" THEN 1
    ELSE 1 + Max({ Depth(n.slots[d]) : d \in DOMAIN n.slots } \cup {0})

-----------------------------------------------------------------------------

HamtInit ==
    root = EmptyNode /\ count = 0 /\ contents = [k \in Key |-> Missing]

(* Hamt.Assoc. *)
Set(k, v) ==
    /\ root' = Assoc(root, 0, Leaf(k, v))
    /\ count' = IF AddsLeaf(root, 0, Leaf(k, v)) THEN count + 1 ELSE count
    /\ contents' = [contents EXCEPT ![k] = v]

(* Hamt.Without. *)
Delete(k) ==
    LET n == Without(root, 0, k)
    IN  /\ n \notin {NotFound, Panic}
        /\ root' = IF n = EmptyAnswer THEN EmptyNode ELSE n
        /\ count' = IF n = EmptyAnswer THEN 0 ELSE count - 1
        /\ contents' = [contents EXCEPT ![k] = Missing]

HamtNext == \E k \in Key : Delete(k) \/ \E v \in Val : Set(k, v)
HamtSpec == HamtInit /\ [][HamtNext]_hamtVars

-----------------------------------------------------------------------------

(* The map holds what was stored in it, in whatever order keys came and    *)
(* went: by lookup, by iteration, each pair once, and by its length.       *)
HoldsContents ==
    LET items == Items(root)
    IN  /\ \A k \in Key : Find(k) = contents[k]
        /\ count = Len(items)
        /\ ToSet(items) = { Leaf(k, contents[k]) : k \in { k \in Key : contents[k] # Missing } }
        /\ IsInjective(items)

(* hamt.go:450: the panics of without are not reached: below a bitmap node *)
(* no node is down to one pair, so that none becomes empty.                *)
NeverPanics == \A k \in Key : Without(root, 0, k) # Panic

(* iter.go:17: an iterator's stack has a level for every digit and one for *)
(* a collision node below the last.                                        *)
StackFits == Depth(root) <= MaxTreeDepth

RECURSIVE NodesOK(_)
(* An array node counts its children and has enough of them, and a         *)
(* collision node has two.                                                 *)
NodesOK(n) ==
    CASE n.kind = "leaf" -> TRUE
      [] n.kind = "collision" -> Len(n.pairs) >= 2
      [] n.kind = "array" ->
            /\ n.count = Cardinality(DOMAIN n.slots) /\ n.count >= Threshold
            /\ \A d \in DOMAIN n.slots : n.slots[d].kind # "leaf" /\ NodesOK(n.slots[d])
      [] n.kind = "bitmap" ->
            \A d \in DOMAIN n.slots : ~(n.slots[d].kind # "leaf" /\ IsSingle(n.slots[d])) /\ NodesOK(n.slots[d])

TreeInv == HoldsContents /\ NeverPanics /\ StackFits /\ NodesOK(root)

-----------------------------------------------------------------------------
(* The tree as HamtWalks has it: what each key's walk comes to.            *)

NoEntry == [kind |-> "none"]

Levels == 0 .. MaxTreeDepth - 1

Below(n, k, l) ==
    LET d == hamtMask(Hash[k], l)
    IN  IF n.kind \in {"bitmap", "array"} /\ d \in DOMAIN n.slots THEN n.slots[d] ELSE NoEntry

Walk(r, k) ==
    LET at[l \in Levels] == IF l = 0 THEN r ELSE Below(at[l - 1], k, l - 1)
    IN  at

PairsIn(n) ==
    CASE n.kind = "leaf" -> {n} [] n.kind = "collision" -> ToSet(n.pairs) [] OTHER -> {}

PairsOf(n) ==
    LET s == PairsIn(n)
    IN  [x \in Key |-> IF \E e \in s : e.key = x THEN (CHOOSE e \in s : e.key = x).value ELSE Missing]

WidthOf(n) == IF n.kind = "array" THEN n.count ELSE 0

WalkShape(r) == [k \in Key |-> LET walk == Walk(r, k) IN [l \in Levels |-> walk[l].kind]]
WalkPairs(r) == [k \in Key |-> LET walk == Walk(r, k) IN [l \in Levels |-> PairsOf(walk[l])]]
WalkWidth(r) == [k \in Key |-> LET walk == Walk(r, k) IN [l \in Levels |-> WidthOf(walk[l])]]

HashDigits == [k \in Key |-> [l \in 1 .. MaxTreeDepth - 1 |-> hamtMask(Hash[k], l - 1)]]
=============================================================================
