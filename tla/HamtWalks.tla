----------------------------- MODULE HamtWalks -----------------------------
(***************************************************************************)
(* What a HAMT promises: a map, and the tree for it as the walk of each    *)
(* key sees it, which is the entry that a lookup of the key comes to at    *)
(* every level, to the one where it ends.  Two keys share the entries of   *)
(* their walks for as long as the digits of their hashes agree, so that an *)
(* operation on a key is a change to the entries of every key that shares  *)
(* them, and there is no recursion.  The tree of Hamt implements it        *)
(* (HamtSound of MCMaps).                                                  *)
(***************************************************************************)
EXTENDS Integers, FiniteSets

CONSTANTS
    Keys, Vals, Absent,
    Digits,     \* the digits of the hash of a key, the first one first
    Levels,     \* 7: how many there are
    Threshold   \* bitmapPromoteThreshold, 16

LastDigits == { Digits[k][Levels] : k \in Keys }

(* The last digit is what is left of a hash, two bits.                     *)
WalksAssumption ==
    /\ Levels \in Nat \ {0}
    /\ Threshold \in Nat /\ Threshold >= 3
    /\ Absent \notin Vals
    /\ \A k \in Keys : DOMAIN Digits[k] = 1 .. Levels
    /\ IsFiniteSet(LastDigits) /\ Cardinality(LastDigits) <= Threshold

VARIABLES
    shape,      \* what a key's walk comes to at a level
    pairs,      \* the pairs that are there, if it is a leaf or a collision node
    width,      \* how many children are there, if it is an array node
    total,      \* Hamt.count
    stored      \* the map: what is stored under each key, or Absent

walkVars == <<shape, pairs, width, total, stored>>

Shapes == {"none", "leaf", "collision", "bitmap", "array"}
Depths == 0 .. Levels

WalksTypeOK ==
    /\ shape \in [Keys -> [Depths -> Shapes]]
    /\ pairs \in [Keys -> [Depths -> [Keys -> Vals \cup {Absent}]]]
    /\ width \in [Keys -> [Depths -> Nat]]
    /\ total \in Nat
    /\ stored \in [Keys -> Vals \cup {Absent}]

NoPairs == [k \in Keys |-> Absent]
Single(k, v) == [NoPairs EXCEPT ![k] = v]

(* The walks of j and k come to the same entry at level l.                 *)
Same(j, k, l) == \A i \in 1 .. l : Digits[j][i] = Digits[k][i]

Inner(k, l) == shape[k][l] \in {"bitmap", "array"}

Ends(k, l) == Inner(k, l - 1) /\ ~Inner(k, l)
End(k) == CHOOSE l \in 1 .. Levels : Ends(k, l)

Lookup(k) == pairs[k][End(k)][k]

Held == { k \in Keys : stored[k] # Absent }

(* What is stored below the entry that k's walk comes to, and the children *)
(* that it has.                                                            *)
Under(k, l) == { x \in Held : Same(x, k, l) }
Kids(k, l) == { Digits[x][l + 1] : x \in Under(k, l) }

(* The entry of j's walk at level i is the one of k's at level l.          *)
ThatOf(j, i, k, l) == i = l /\ Same(j, k, l)

PairsOf(S) == [x \in Keys |-> IF x \in S THEN stored[x] ELSE Absent]

-----------------------------------------------------------------------------
(* assoc, by what the walk of the key ends at.                             *)

(* A bitmap node that has room gets the pair.                              *)
AddLeaf(k, v, l) ==
    /\ shape[k][l] = "none" /\ shape[k][l - 1] = "bitmap"
    /\ Cardinality(Kids(k, l - 1)) < Threshold
    /\ shape' = [j \in Keys |-> [i \in Depths |->
                    IF ThatOf(j, i, k, l) THEN "leaf" ELSE shape[j][i]]]
    /\ pairs' = [j \in Keys |-> [i \in Depths |->
                    IF ThatOf(j, i, k, l) THEN Single(k, v) ELSE pairs[j][i]]]
    /\ UNCHANGED width

(* The leaf that j's walk ends at, at level l, goes down to level l + 1,   *)
(* where j's walk comes to it or not.                                      *)
Sinks(j, l) ==
    shape[j][l] = "leaf" /\ \E x \in Keys : pairs[j][l][x] # Absent /\ Same(x, j, l + 1)

(* One that is full becomes an array node, and every pair of it a node.    *)
PromoteWith(k, v, l) ==
    /\ shape[k][l] = "none" /\ shape[k][l - 1] = "bitmap"
    /\ Cardinality(Kids(k, l - 1)) >= Threshold
    /\ shape' = [j \in Keys |-> [i \in Depths |->
                    IF ThatOf(j, i, k, l - 1) THEN "array"
                    ELSE IF i = l /\ Same(j, k, l - 1) /\ shape[j][l] \in {"none", "leaf"}
                    THEN IF shape[j][l] = "leaf" \/ Same(j, k, l) THEN "bitmap" ELSE "none"
                    ELSE IF i = l + 1 /\ Same(j, k, l - 1) /\ (Sinks(j, l) \/ Same(j, k, i)) THEN "leaf"
                    ELSE shape[j][i]]]
    /\ pairs' = [j \in Keys |-> [i \in Depths |->
                    IF i = l /\ Same(j, k, l - 1) /\ shape[j][l] = "leaf" THEN NoPairs
                    ELSE IF ThatOf(j, i, k, l + 1) THEN Single(k, v)
                    ELSE IF i = l + 1 /\ Same(j, k, l - 1) /\ Sinks(j, l) THEN pairs[j][l]
                    ELSE pairs[j][i]]]
    /\ width' = [j \in Keys |-> [i \in Depths |->
                    IF ThatOf(j, i, k, l - 1) THEN Cardinality(Kids(k, l - 1)) + 1 ELSE width[j][i]]]

(* An array node gets a node with the pair.                                *)
AddChild(k, v, l) ==
    /\ shape[k][l] = "none" /\ shape[k][l - 1] = "array"
    /\ shape' = [j \in Keys |-> [i \in Depths |->
                    IF ThatOf(j, i, k, l) THEN "bitmap"
                    ELSE IF ThatOf(j, i, k, l + 1) THEN "leaf" ELSE shape[j][i]]]
    /\ pairs' = [j \in Keys |-> [i \in Depths |->
                    IF ThatOf(j, i, k, l + 1) THEN Single(k, v) ELSE pairs[j][i]]]
    /\ width' = [j \in Keys |-> [i \in Depths |->
                    IF ThatOf(j, i, k, l - 1) THEN width[j][i] + 1 ELSE width[j][i]]]

(* The key has a pair, and its value is another one now.                   *)
NewValue(k, v, l) ==
    /\ stored[k] # Absent
    /\ pairs' = [j \in Keys |-> [i \in Depths |->
                    IF ThatOf(j, i, k, l) THEN [pairs[j][i] EXCEPT ![k] = v] ELSE pairs[j][i]]]
    /\ UNCHANGED <<shape, width>>

(* It ends at pairs of its hash: they are a collision node together.       *)
Collide(k, v, l) ==
    /\ shape[k][l] # "none" /\ stored[k] = Absent
    /\ \E x \in Under(k, l) : Same(x, k, Levels)
    /\ shape' = [j \in Keys |-> [i \in Depths |->
                    IF ThatOf(j, i, k, l) THEN "collision" ELSE shape[j][i]]]
    /\ pairs' = [j \in Keys |-> [i \in Depths |->
                    IF ThatOf(j, i, k, l) THEN [pairs[j][i] EXCEPT ![k] = v] ELSE pairs[j][i]]]
    /\ UNCHANGED width

(* It ends at pairs of another hash: bitmap nodes to where they part.      *)
SplitAt(k, v, l, m) ==
    /\ shape[k][l] # "none" /\ stored[k] = Absent
    /\ \E x \in Under(k, l) : Same(x, k, m - 1) /\ ~Same(x, k, m)
    /\ shape' = [j \in Keys |-> [i \in Depths |->
                    IF i \in l .. m - 1 /\ Same(j, k, i) THEN "bitmap"
                    ELSE IF ThatOf(j, i, k, m) THEN "leaf"
                    ELSE IF i = m /\ \E x \in Under(k, l) : Same(x, j, m) THEN shape[k][l]
                    ELSE shape[j][i]]]
    /\ pairs' = [j \in Keys |-> [i \in Depths |->
                    IF ThatOf(j, i, k, l) THEN NoPairs
                    ELSE IF ThatOf(j, i, k, m) THEN Single(k, v)
                    ELSE IF i = m /\ \E x \in Under(k, l) : Same(x, j, m) THEN pairs[k][l]
                    ELSE pairs[j][i]]]
    /\ UNCHANGED width

Assoc(k, v) ==
    /\ stored' = [stored EXCEPT ![k] = v]
    /\ total' = IF stored[k] = Absent THEN total + 1 ELSE total
    /\ LET l == End(k)
       IN  \/ AddLeaf(k, v, l)
           \/ PromoteWith(k, v, l)
           \/ AddChild(k, v, l)
           \/ NewValue(k, v, l)
           \/ Collide(k, v, l)
           \/ \E m \in l + 1 .. Levels : SplitAt(k, v, l, m)

-----------------------------------------------------------------------------
(* without, by what is left below the entries of the walk of the key.      *)

Left(k, l) == Under(k, l) \ {k}

(* The last pair but k below level n goes up to there, or to the node that *)
(* stays there, as an array node has no pairs.                             *)
Collapse(k, x, n) ==
    LET to == IF shape[k][n - 1] = "array" THEN n + 1 ELSE n
    IN  /\ Left(k, n) = {x}
        /\ n = 1 \/ Left(k, n - 1) # {x}
        /\ shape' = [j \in Keys |-> [i \in Depths |->
                        IF ~Same(j, k, n) \/ i < n THEN shape[j][i]
                        ELSE IF i < to THEN "bitmap"
                        ELSE IF ThatOf(j, i, x, to) THEN "leaf" ELSE "none"]]
        /\ pairs' = [j \in Keys |-> [i \in Depths |->
                        IF ~Same(j, k, n) \/ i < n THEN pairs[j][i]
                        ELSE IF ThatOf(j, i, x, to) THEN PairsOf({x}) ELSE NoPairs]]
        /\ UNCHANGED width

(* The array node at level n has lost k's child, the last pair of it.      *)
Loses(k, n) == n >= 0 /\ shape[k][n] = "array" /\ Left(k, n + 1) = {}

(* It has enough of them left. *)
DropChild(k, n) ==
    /\ Loses(k, n) /\ width[k][n] - 1 >= Threshold
    /\ shape' = [j \in Keys |-> [i \in Depths |->
                    IF i > n /\ Same(j, k, n + 1) THEN "none" ELSE shape[j][i]]]
    /\ pairs' = [j \in Keys |-> [i \in Depths |->
                    IF i > n /\ Same(j, k, n + 1) THEN NoPairs ELSE pairs[j][i]]]
    /\ width' = [j \in Keys |-> [i \in Depths |->
                    IF ThatOf(j, i, k, n) THEN width[j][i] - 1 ELSE width[j][i]]]

Alone(j, l) == \E x \in Keys : Under(j, l) = {x}

(* Or it is a bitmap node again, with the pairs of the nodes of one pair.  *)
Demote(k, n) ==
    /\ Loses(k, n) /\ width[k][n] - 1 < Threshold
    /\ shape' = [j \in Keys |-> [i \in Depths |->
                    IF ~Same(j, k, n) \/ i < n THEN shape[j][i]
                    ELSE IF i = n THEN "bitmap"
                    ELSE IF Same(j, k, n + 1) THEN "none"
                    ELSE IF Alone(j, n + 1) THEN IF i = n + 1 THEN "leaf" ELSE "none"
                    ELSE shape[j][i]]]
    /\ pairs' = [j \in Keys |-> [i \in Depths |->
                    IF ~Same(j, k, n) \/ i <= n THEN pairs[j][i]
                    ELSE IF Same(j, k, n + 1) THEN NoPairs
                    ELSE IF Alone(j, n + 1) THEN IF i = n + 1 THEN PairsOf(Under(j, i)) ELSE NoPairs
                    ELSE pairs[j][i]]]
    /\ width' = [j \in Keys |-> [i \in Depths |-> IF ThatOf(j, i, k, n) THEN 0 ELSE width[j][i]]]

(* The pair goes, and all nodes stay. *)
RemovePair(k, l) ==
    /\ \A n \in 1 .. Levels, x \in Keys : Left(k, n) # {x}
    /\ l = 1 \/ Left(k, l - 1) # {}
    /\ shape' = [j \in Keys |-> [i \in Depths |->
                    IF ThatOf(j, i, k, l) /\ shape[j][i] = "leaf" THEN "none" ELSE shape[j][i]]]
    /\ pairs' = [j \in Keys |-> [i \in Depths |->
                    IF ThatOf(j, i, k, l) THEN [pairs[j][i] EXCEPT ![k] = Absent] ELSE pairs[j][i]]]
    /\ UNCHANGED width

Without(k) ==
    /\ stored[k] # Absent /\ stored' = [stored EXCEPT ![k] = Absent]
    /\ total' = total - 1
    /\ LET l == End(k)
       IN  \/ \E x \in Keys, n \in 1 .. Levels : Collapse(k, x, n)
           \/ DropChild(k, l - 2)
           \/ Demote(k, l - 2)
           \/ RemovePair(k, l)

-----------------------------------------------------------------------------

WalksInit ==
    /\ shape = [k \in Keys |-> [l \in Depths |-> IF l = 0 THEN "bitmap" ELSE "none"]]
    /\ pairs = [k \in Keys |-> [l \in Depths |-> NoPairs]]
    /\ width = [k \in Keys |-> [l \in Depths |-> 0]]
    /\ total = 0
    /\ stored = [k \in Keys |-> Absent]

WalksNext == \E k \in Keys : Without(k) \/ \E v \in Vals : Assoc(k, v)
WalksSpec == WalksInit /\ [][WalksNext]_walkVars

-----------------------------------------------------------------------------

(* hamt.go:1-17: a lookup finds what was stored, whatever was stored and   *)
(* deleted in between, and the map knows how much that is.                 *)
LookupIsStored ==
    /\ \A k \in Keys : Lookup(k) = stored[k]
    /\ total = Cardinality(Held)

(* iter.go: what an iterator comes to is where the walk of its key ends,   *)
(* so that it gives each pair once.                                        *)
PairsAreWalkedTo ==
    \A j, x \in Keys : \A l \in Depths :
        pairs[j][l][x] # Absent => Same(x, j, l) /\ l = End(x)

(* hamt.go:450: no node that is the child of a bitmap node becomes empty.  *)
NoPanic ==
    \A k \in Held : ~(End(k) >= 2 /\ shape[k][End(k) - 2] = "bitmap" /\ Left(k, End(k) - 1) = {})

(* iter.go:17: every walk ends, below the levels of inner nodes, so that   *)
(* the stack of an iterator has room for them and a collision node.        *)
WalksEnd == \A k \in Keys : Ends(k, End(k)) /\ End(k) \in 1 .. Levels

WalksSound == LookupIsStored /\ PairsAreWalkedTo /\ NoPanic /\ WalksEnd
============================================================================
