----------------------------- MODULE MapsProofs -----------------------------
(***************************************************************************)
(* Proofs about DictTable, for any keys, hashes and sizes, about           *)
(* ContextVars (an instance), for any number of contexts, variables,       *)
(* tokens and goroutines, and about HamtWalks, what a HAMT promises.       *)
(*                                                                         *)
(* What makes a lookup in the table right is a fact about walks through    *)
(* it: every key that is there is on the walk that starts at its hash      *)
(* (Findable), by no empty slot before it (Path).  That a walk for a key   *)
(* that is not there ends at an empty slot, a lookup under way has to      *)
(* know of the slots behind it (WalkOK) and a resize of the pairs that     *)
(* are still to be moved (RoomOK).  A walk is a set of spots, a slot and   *)
(* what is left of the hash, that is closed under the next step but for    *)
(* its end: so none of this is about lengths of walks.                     *)
(***************************************************************************)
EXTENDS DictTable, HamtWalks, SequenceTheorems, FiniteSetTheorems, WellFoundedInduction, TLAPS

(* The proofs are about a dict whose keys' __eq__ leaves it alone, and     *)
(* that is cleared only when nothing was deleted from it: what fails       *)
(* otherwise is a finding.                                                 *)
Undisturbed == MaxDepth = 1 /\ ~ClearsDummies

(* What an iterator is. *)
Iterator ==
    [pos : Int, backwards : BOOLEAN, snapUsed : Nat, length : Int, stale : BOOLEAN,
     ended : BOOLEAN, start : Seq(Key), gave : Seq(Key)]

-----------------------------------------------------------------------------
(* Walks.  A spot is a slot and what is left of the hash.                  *)

Spots(n) == (0 .. n - 1) \X Nat

Start(k, n) == <<Hash[k] % n, Hash[k]>>

Step(w, n) == <<(5 * w[1] + 1 + w[2] \div Shift) % n, w[2] \div Shift>>

Size(e) == Cardinality(DOMAIN e)

LiveIn(e, s) == e[s] \notin {Empty, Dummy}

(* A walk for k goes from spot to spot of W, none of them empty, to c.     *)
Path(e, W, c, k) ==
    /\ W \subseteq Spots(Size(e)) /\ c \in Spots(Size(e))
    /\ Start(k, Size(e)) \in W \cup {c}
    /\ \A w \in W : e[w[1]] # Empty /\ Step(w, Size(e)) \in W \cup {c}

(* A walk for k comes to the slot s before it ends. *)
Chain(e, s, k) ==
    \E W \in SUBSET Spots(Size(e)), p \in Nat : Path(e, W, <<s, p>>, k)

(* Wherever a walk for k stays, c is. *)
Reached(c, k, n) ==
    \A C \in SUBSET Spots(n) :
        Start(k, n) \in C /\ (\A w \in C : Step(w, n) \in C) => c \in C

-----------------------------------------------------------------------------
(* The invariant, of any values of the variables.                          *)

TableTypes(e, o, u, fi) ==
    /\ Size(e) \in Nat /\ Size(e) >= 2
    /\ e \in [0 .. Size(e) - 1 -> {Empty, Dummy} \cup Pair]
    /\ o \in Seq(0 .. Size(e) - 1) /\ u \in Nat /\ fi \in Nat

Counts(e, o, u, fi) ==
    /\ u = Cardinality({ s \in DOMAIN e : LiveIn(e, s) })
    /\ fi = Cardinality({ s \in DOMAIN e : e[s] # Empty })
    /\ fi < Size(e)
    /\ Len(o) = u

Listed(e, o) ==
    /\ \A i, j \in 1 .. Len(o) : o[i] = o[j] => i = j
    /\ \A i \in 1 .. Len(o) : LiveIn(e, o[i])
    /\ \A s \in 0 .. Size(e) - 1 : LiveIn(e, s) => \E i \in 1 .. Len(o) : o[i] = s

KeysApart(e) ==
    \A s, t \in 0 .. Size(e) - 1 :
        LiveIn(e, s) /\ LiveIn(e, t) /\ e[s].key = e[t].key => s = t

(* Every key that is there is found. *)
Findable(e) == \A s \in 0 .. Size(e) - 1 : LiveIn(e, s) => Chain(e, s, e[s].key)

TableOK(e, o, u, fi) ==
    TableTypes(e, o, u, fi) /\ Counts(e, o, u, fi) /\ Listed(e, o) /\ KeysApart(e) /\ Findable(e)

Frame ==
    [op : Op, key : Key, value : Value \cup {Missing},
     todo : Seq(Pair), at : Nat, perturb : Nat, free : Int, size : Nat,
     phase : {"probe", "equal", "differs"}]

Spot(f) == <<f.at, f.perturb>>

(* The first dummy that a lookup saw. *)
Kept(e, f) ==
    \/ f.free = -1
    \/ f.free \in 0 .. Size(e) - 1 /\ e[f.free] = Dummy /\ Chain(e, f.free, Wanted(f))

(* A lookup has gone the way that it had to go, and not past the key.      *)
WalkOK(e, f) ==
    /\ Spot(f) \in Spots(Size(e)) /\ Reached(Spot(f), Wanted(f), Size(e))
    /\ \E W \in SUBSET Spots(Size(e)) :
          /\ Path(e, W, Spot(f), Wanted(f))
          /\ \A w \in W : LiveIn(e, w[1]) => e[w[1]].key # Wanted(f)
    /\ f.phase = "equal" => LiveIn(e, f.at) /\ e[f.at].key = Wanted(f)
    /\ f.phase = "differs" => LiveIn(e, f.at) /\ e[f.at].key # Wanted(f)
    /\ Kept(e, f)

(* There is room for what is still to be put in, which is not there yet.   *)
RoomOK(e, fi, f) ==
    /\ f.op \in {"put", "default"} =>
          f.value \in Value /\ fi + Len(f.todo) + 1 < Size(e)
    /\ f.todo # <<>> =>
          f.op \in {"put", "default"} /\ \A s \in 0 .. Size(e) - 1 : e[s] # Dummy
    /\ \A i, j \in 1 .. Len(f.todo) : f.todo[i].key = f.todo[j].key => i = j
    /\ \A i \in 1 .. Len(f.todo), s \in 0 .. Size(e) - 1 :
          LiveIn(e, s) => e[s].key # f.todo[i].key

LookOK(e, fi, f) == f \in Frame /\ f.size = Size(e) /\ WalkOK(e, f) /\ RoomOK(e, fi, f)

StackOK(e, fi, st) == st = <<>> \/ \E f \in Frame : st = <<f>> /\ LookOK(e, fi, f)

Holds(e, o, st) == [i \in DOMAIN o |-> e[o[i]]] \o IF st = <<>> THEN <<>> ELSE st[Len(st)].todo

(* An iterator has given a part of what was there when it was made, in the *)
(* order it was in, and that is what is there if nothing has changed.      *)
IterOK(it, held) ==
    it # NoIter =>
        /\ it \in Iterator
        /\ it.snapUsed = Len(it.start) /\ Len(it.gave) <= Len(it.start)
        /\ \A i \in 1 .. Len(it.gave) : it.gave[i] = it.start[i]
        /\ it.pos = IF it.backwards THEN Len(it.start) - Len(it.gave) ELSE Len(it.gave) + 1
        /\ it.ended => Len(it.gave) = Len(it.start)
        /\ ~it.stale =>
              \/ /\ Len(it.start) <= Len(held)
                 /\ \A i \in 1 .. Len(it.start) :
                       it.start[i] = held[IF it.backwards THEN Len(it.start) + 1 - i ELSE i].key
              \/ Len(held) < Len(it.start)

Answer == Key \cup Value \cup {Missing, Raised}

DictIInv ==
    /\ TableOK(entries, order, used, fill)
    /\ StackOK(entries, fill, stack)
    /\ IterOK(iter, Holds(entries, order, stack))
    /\ answer \in Answer

-----------------------------------------------------------------------------
(* Numbers.                                                                *)

Before == { ss \in Nat \X Nat : ss[1] < ss[2] }

(* A set of numbers has a least one. *)
LEMMA Least == ASSUME NEW T, T \subseteq Nat, T # {} PROVE \E x \in T : \A y \in T : x <= y
  <1>1. IsWellFoundedOn(Before, Nat)
    BY NatLessThanWellFounded DEF OpToRel, Before
  <1>2. PICK x \in T : \A y \in T : ~(<<y, x>> \in Before)
    BY <1>1, WFMin
  <1>3. \A y \in T : ~(y < x)
    <2> SUFFICES ASSUME NEW y \in T, y < x PROVE FALSE
      OBVIOUS
    <2>1. <<y, x>> \in Nat \X Nat /\ <<y, x>>[1] = y /\ <<y, x>>[2] = x
      OBVIOUS
    <2>2. <<y, x>> \in Before
      BY <2>1 DEF Before
    <2> QED BY <1>2, <2>2
  <1> QED BY <1>2, <1>3

(* Min of a set of numbers is that one. *)
LEMMA MinIs == ASSUME NEW T, T \subseteq Nat, T # {} PROVE Min(T) \in T /\ \A y \in T : Min(T) <= y
  BY Least DEF Min

(* A set of numbers with 0 and the next of each has them all. *)
LEMMA SetInduction ==
    ASSUME NEW T, 0 \in T, \A n \in Nat : n \in T => n + 1 \in T
    PROVE  Nat \subseteq T
  <1> SUFFICES ASSUME Nat \ T # {} PROVE FALSE
    OBVIOUS
  <1>1. PICK x \in Nat \ T : \A y \in Nat \ T : x <= y
    BY Least
  <1>2. x - 1 \in Nat /\ x - 1 \in T
    BY <1>1
  <1>3. (x - 1) + 1 \in T
    BY <1>2
  <1> QED BY <1>1, <1>3

(* What the first doublings are. *)
UpTo(g, n) ==
    g \in [0 .. n -> Nat] /\ g[0] = MinSize /\ \A i \in 0 .. n - 1 : g[i + 1] = 2 * g[i]

(* There are first doublings, and they are the only ones: what doubled is. *)
LEMMA UpToExists == \A n \in Nat : \E g : UpTo(g, n)
  <1> DEFINE T == { n \in Nat : \E g : UpTo(g, n) }
  <1>1. 0 \in T
    <2>1. UpTo([i \in 0 .. 0 |-> MinSize], 0)
      BY DictAssumption DEF UpTo
    <2> QED BY <2>1
  <1>2. ASSUME NEW n \in Nat, n \in T PROVE n + 1 \in T
    <2>1. PICK g : UpTo(g, n)
      BY <1>2
    <2> DEFINE h == [i \in 0 .. n + 1 |-> IF i <= n THEN g[i] ELSE 2 * g[n]]
    <2>2. h \in [0 .. n + 1 -> Nat] /\ h[0] = MinSize
      BY <2>1 DEF UpTo
    <2>3. ASSUME NEW i \in 0 .. (n + 1) - 1 PROVE h[i + 1] = 2 * h[i]
      <3>1. i \in 0 .. n /\ i + 1 \in 0 .. n + 1 /\ i \in 0 .. n + 1
        OBVIOUS
      <3>2. CASE i = n
        BY <2>1, <3>1, <3>2 DEF UpTo
      <3>3. CASE i # n
        <4>1. i \in 0 .. n - 1 /\ i + 1 <= n
          BY <3>1, <3>3
        <4>2. g[i + 1] = 2 * g[i]
          BY <2>1, <4>1 DEF UpTo
        <4> QED BY <3>1, <4>1, <4>2
      <3> QED BY <3>2, <3>3
    <2> HIDE DEF h
    <2>4. UpTo(h, n + 1)
      BY <2>2, <2>3 DEF UpTo
    <2> QED BY <2>4
  <1> HIDE DEF T
  <1>3. Nat \subseteq T
    BY <1>1, <1>2, SetInduction
  <1> QED BY <1>3 DEF T

(* However far they go, they begin alike. *)
LEMMA UpToUnique ==
    ASSUME NEW m \in Nat, NEW n \in Nat, NEW g, NEW h, UpTo(g, m), UpTo(h, n), m <= n
    PROVE  \A i \in 0 .. m : g[i] = h[i]
  <1> DEFINE T == { i \in Nat : i <= m => g[i] = h[i] }
  <1>1. 0 \in T
    BY DEF UpTo
  <1>2. ASSUME NEW i \in Nat, i \in T PROVE i + 1 \in T
    <2>1. CASE i + 1 <= m
      <3>1. i \in 0 .. m - 1 /\ i \in 0 .. n - 1 /\ g[i] = h[i]
        BY <1>2, <2>1
      <3> QED BY <3>1 DEF UpTo
    <2>2. CASE ~(i + 1 <= m)
      BY <2>2
    <2> QED BY <2>1, <2>2
  <1> HIDE DEF T
  <1>3. Nat \subseteq T
    BY <1>1, <1>2, SetInduction
  <1> QED BY <1>3 DEF T

(* The recursive definition defines what it says. *)
LEMMA DoubledIs ==
    doubled \in [Nat -> Nat] /\ doubled[0] = MinSize /\ \A n \in Nat : doubled[n + 1] = 2 * doubled[n]
  <1> DEFINE G == [n \in Nat |-> (CHOOSE g : UpTo(g, n))[n]]
             F(f) == [n \in Nat |-> IF n = 0 THEN MinSize ELSE 2 * f[n - 1]]
  <1>1. \A n \in Nat : UpTo(CHOOSE g : UpTo(g, n), n)
    BY UpToExists
  <1>2. G \in [Nat -> Nat] /\ G[0] = MinSize
    <2>1. ASSUME NEW n \in Nat PROVE G[n] \in Nat /\ (n = 0 => G[n] = MinSize)
      <3> DEFINE g == CHOOSE x : UpTo(x, n)
      <3>1. UpTo(g, n) /\ G[n] = g[n]
        BY <1>1
      <3> HIDE DEF g, G
      <3> QED BY <3>1 DEF UpTo
    <2> QED BY <2>1
  <1>3. ASSUME NEW n \in Nat PROVE G[n + 1] = 2 * G[n]
    <2> DEFINE g == CHOOSE x : UpTo(x, n)
               h == CHOOSE x : UpTo(x, n + 1)
    <2>1. UpTo(g, n) /\ UpTo(h, n + 1)
      BY <1>1
    <2>2. G[n] = g[n] /\ G[n + 1] = h[n + 1]
      OBVIOUS
    <2> HIDE DEF g, h, G
    <2>3. g[n] = h[n]
      BY <2>1, UpToUnique
    <2>4. h[n + 1] = 2 * h[n]
      BY <2>1 DEF UpTo
    <2> QED BY <2>2, <2>3, <2>4
  <1> HIDE DEF G
  <1>4. G = F(G)
    <2>1. \A n \in Nat : G[n] = IF n = 0 THEN MinSize ELSE 2 * G[n - 1]
      <3> SUFFICES ASSUME NEW n \in Nat PROVE G[n] = IF n = 0 THEN MinSize ELSE 2 * G[n - 1]
        OBVIOUS
      <3>1. CASE n = 0
        BY <1>2, <3>1
      <3>2. CASE n # 0
        <4>1. n - 1 \in Nat /\ (n - 1) + 1 = n
          BY <3>2
        <4> QED BY <1>3, <3>2, <4>1
      <3> QED BY <3>1, <3>2
    <2> QED BY <1>2, <2>1
  <1>5. doubled = CHOOSE f : f = F(f)
    BY DEF doubled
  <1>6. doubled = F(doubled)
    BY <1>4, <1>5
  <1> HIDE DEF F
  <1>7. \A n \in Nat : doubled[n] = IF n = 0 THEN MinSize ELSE 2 * doubled[n - 1]
    BY <1>6 DEF F
  <1>8. doubled = G
    <2> DEFINE T == { n \in Nat : doubled[n] = G[n] }
    <2>1. 0 \in T
      BY <1>2, <1>7
    <2>2. ASSUME NEW n \in Nat, n \in T PROVE n + 1 \in T
      BY <1>3, <1>7, <2>2
    <2> HIDE DEF T
    <2>3. Nat \subseteq T
      BY <2>1, <2>2, SetInduction
    <2>4. \A n \in Nat : doubled[n] = G[n]
      BY <2>3 DEF T
    <2>5. doubled = [n \in Nat |-> doubled[n]]
      BY <1>6 DEF F
    <2>6. G = [n \in Nat |-> G[n]]
      BY <1>2
    <2> QED BY <2>4, <2>5, <2>6
  <1> QED BY <1>2, <1>3, <1>8

(* A new table is large enough. *)
LEMMA PowIs ==
    ASSUME NEW n \in Nat
    PROVE  nextDictPow2(n) \in Nat /\ nextDictPow2(n) >= n /\ nextDictPow2(n) >= 2
  <1> DEFINE P == { p \in { doubled[i] : i \in 0 .. n } : p >= n }
             T == { i \in Nat : doubled[i] >= i /\ doubled[i] >= 2 }
  <1>1. doubled \in [Nat -> Nat] /\ doubled[0] = MinSize
        /\ \A i \in Nat : doubled[i + 1] = 2 * doubled[i]
    BY DoubledIs
  <1>2. 0 \in T
    BY <1>1, DictAssumption
  <1>3. ASSUME NEW i \in Nat, i \in T PROVE i + 1 \in T
    <2>1. doubled[i] \in Nat /\ doubled[i + 1] = 2 * doubled[i]
      BY <1>1
    <2> QED BY <1>3, <2>1
  <1> HIDE DEF T
  <1>4. Nat \subseteq T
    BY <1>2, <1>3, SetInduction
  <1>5. \A i \in Nat : doubled[i] \in Nat /\ doubled[i] >= i /\ doubled[i] >= 2
    BY <1>1, <1>4 DEF T
  <1>6. P \subseteq Nat /\ \A p \in P : p >= n /\ p >= 2
    BY <1>5
  <1>7. doubled[n] \in P
    BY <1>5
  <1> HIDE DEF P
  <1>8. Min(P) \in P
    BY <1>6, <1>7, MinIs
  <1> QED BY <1>6, <1>8 DEF nextDictPow2, P
-----------------------------------------------------------------------------
(* Walks.                                                                  *)

(* A table's size is that of its slots. *)
LEMMA SizeIs ==
    ASSUME NEW S, NEW n \in Nat, NEW e \in [0 .. n - 1 -> S]
    PROVE  Size(e) = n /\ DOMAIN e = 0 .. n - 1 /\ IsFiniteSet(DOMAIN e)
  <1>1. DOMAIN e = 0 .. n - 1
    OBVIOUS
  <1>2. IsFiniteSet(0 .. n - 1) /\ Cardinality(0 .. n - 1) = n
    BY FS_Interval
  <1> QED BY <1>1, <1>2 DEF Size

(* A walk begins and stays on spots. *)
LEMMA OnSpots ==
    ASSUME NEW n \in Nat, n >= 2
    PROVE  /\ \A k \in Key : Start(k, n) \in Spots(n)
           /\ \A w \in Spots(n) : Step(w, n) \in Spots(n)
  <1>1. ASSUME NEW k \in Key PROVE Start(k, n) \in Spots(n)
    <2>1. Hash[k] \in Nat
      BY DictAssumption
    <2>2. Hash[k] % n \in 0 .. n - 1
      BY <2>1
    <2> QED BY <2>1, <2>2 DEF Start, Spots
  <1>2. ASSUME NEW w \in Spots(n) PROVE Step(w, n) \in Spots(n)
    <2>1. w[1] \in Nat /\ w[2] \in Nat
      BY DEF Spots
    <2> DEFINE p == w[2] \div Shift
    <2>2. p \in Nat
      BY <2>1, DictAssumption
    <2> HIDE DEF p
    <2>3. 5 * w[1] + 1 + p \in Nat
      BY <2>1, <2>2
    <2> DEFINE q == 5 * w[1] + 1 + p
    <2>4. q \in Nat
      BY <2>3
    <2> HIDE DEF q
    <2>5. q % n \in 0 .. n - 1
      BY <2>4
    <2>6. <<q % n, p>> \in Spots(n)
      BY <2>2, <2>5 DEF Spots
    <2> QED BY <2>6 DEF Step, p, q
  <1> QED BY <1>1, <1>2

(* What is looked up is a key. *)
LEMMA WantedIs == ASSUME NEW f \in Frame PROVE Wanted(f) \in Key
  <1>1. f.key \in Key /\ f.todo \in Seq(Pair)
    BY DEF Frame
  <1>2. CASE f.todo = <<>>
    BY <1>1, <1>2 DEF Wanted
  <1>3. CASE f.todo # <<>>
    <2>1. f.todo[1] \in Pair
      BY <1>1, <1>3, EmptySeq
    <2> QED BY <1>3, <2>1 DEF Wanted, Pair
  <1> QED BY <1>2, <1>3

(* A walk that begins. *)
LEMMA WalkBegins ==
    ASSUME NEW e, NEW k \in Key, Size(e) \in Nat, Size(e) >= 2
    PROVE  Path(e, {}, Start(k, Size(e)), k) /\ Reached(Start(k, Size(e)), k, Size(e))
  BY OnSpots DEF Path, Reached

(* A walk that goes on from a spot whose slot is not empty. *)
LEMMA WalkGoesOn ==
    ASSUME NEW e, NEW k \in Key, NEW W, NEW c, Size(e) \in Nat, Size(e) >= 2,
           Path(e, W, c, k), e[c[1]] # Empty
    PROVE  Path(e, W \cup {c}, Step(c, Size(e)), k)
  BY OnSpots DEF Path

(* What walks come to is closed under the next step. *)
LEMMA ReachGoesOn ==
    ASSUME NEW n, NEW k, NEW c, Reached(c, k, n)
    PROVE  Reached(Step(c, n), k, n)
  BY DEF Reached

(* A walk goes the same way when slots are filled, and none is emptied. *)
LEMMA PathStays ==
    ASSUME NEW e, NEW d, Size(d) = Size(e), Size(e) \in Nat,
           \A s \in 0 .. Size(e) - 1 : e[s] # Empty => d[s] # Empty,
           NEW W, NEW c, NEW k, Path(e, W, c, k)
    PROVE  Path(d, W, c, k)
  <1>1. \A w \in W : w[1] \in 0 .. Size(e) - 1
    BY DEF Path, Spots
  <1> QED BY <1>1 DEF Path

(* So a walk still comes to where it came to. *)
LEMMA ChainStays ==
    ASSUME NEW e, NEW d, Size(d) = Size(e), Size(e) \in Nat,
           \A s \in 0 .. Size(e) - 1 : e[s] # Empty => d[s] # Empty,
           NEW s, NEW k, Chain(e, s, k)
    PROVE  Chain(d, s, k)
  <1>1. PICK W \in SUBSET Spots(Size(e)), p \in Nat : Path(e, W, <<s, p>>, k)
    BY DEF Chain
  <1>2. Path(d, W, <<s, p>>, k)
    BY <1>1, PathStays
  <1> QED BY <1>2 DEF Chain

(* A walk that has come to an empty slot has not missed the key: the spots *)
(* that it was on, and those on the way to the key, are the same as long   *)
(* as neither is at its end, and so a walk would go on in them for ever,   *)
(* and never come to the empty slot.                                       *)
LEMMA NotThere ==
    ASSUME NEW e, NEW f \in Frame, Size(e) \in Nat, Size(e) >= 2,
           Findable(e), WalkOK(e, f), e[f.at] = Empty,
           NEW s \in 0 .. Size(e) - 1, LiveIn(e, s)
    PROVE  e[s].key # Wanted(f)
  <1> DEFINE k == Wanted(f)
             n == Size(e)
             c == Spot(f)
  <1> SUFFICES ASSUME e[s].key = k PROVE FALSE
    OBVIOUS
  <1>1. PICK V : V \in SUBSET Spots(n) /\ Path(e, V, c, k) /\ \A w \in V : LiveIn(e, w[1]) => e[w[1]].key # k
    BY DEF WalkOK
  <1>2. PICK W, p : W \in SUBSET Spots(n) /\ p \in Nat /\ Path(e, W, <<s, p>>, k)
    BY DEF Findable, Chain
  <1>3. e[c[1]] = Empty
    BY DEF Spot
  <1>4. Reached(c, k, n)
    BY DEF WalkOK
  <1> HIDE DEF c, k, n
  <1> DEFINE b == <<s, p>>
             I == V \cap W
  <1>5. b[1] = s /\ e[s] # Empty
    BY DEF LiveIn
  <1> HIDE DEF b
  <1>6. c # b /\ c \notin W /\ b \notin V
    BY <1>1, <1>2, <1>3, <1>5 DEF Path
  <1>7. \A x : x \in V \cup {c} /\ x \in W \cup {b} => x \in I
    BY <1>6
  <1>8. Start(k, n) \in I
    BY <1>1, <1>2, <1>7 DEF Path, b, n
  <1>9. \A w \in I : Step(w, n) \in I
    BY <1>1, <1>2, <1>7 DEF Path, b, n
  <1>10. c \in I
    BY <1>1, <1>4, <1>8, <1>9 DEF Reached
  <1> QED BY <1>6, <1>10
-----------------------------------------------------------------------------
(* The table.                                                              *)

(* A list without one of its elements. *)
LEMMA RemoveAtIs ==
    ASSUME NEW S, NEW s \in Seq(S), NEW q \in 1 .. Len(s)
    PROVE  /\ RemoveAt(s, q) \in Seq(S)
           /\ Len(RemoveAt(s, q)) = Len(s) - 1
           /\ \A i \in 1 .. Len(s) - 1 : RemoveAt(s, q)[i] = IF i < q THEN s[i] ELSE s[i + 1]
  <1> DEFINE a == SubSeq(s, 1, q - 1)
             b == SubSeq(s, q + 1, Len(s))
  <1>0. Len(s) \in Nat /\ \A i \in 1 .. Len(s) : s[i] \in S
    OBVIOUS
  <1>1. a \in Seq(S) /\ Len(a) = q - 1 /\ \A i \in 1 .. q - 1 : a[i] = s[i]
    <2>1. \A i \in 1 .. q - 1 : s[i] \in S
      BY <1>0
    <2>2. /\ a \in Seq(S) /\ Len(a) = IF 1 <= q - 1 THEN (q - 1) - 1 + 1 ELSE 0
          /\ \A i \in 1 .. (q - 1) - 1 + 1 : a[i] = s[1 + i - 1]
      BY <2>1, SubSeqProperties
    <2> HIDE DEF a
    <2> QED BY <2>2
  <1>2. b \in Seq(S) /\ Len(b) = Len(s) - q /\ \A i \in 1 .. Len(s) - q : b[i] = s[q + i]
    <2>1. \A i \in q + 1 .. Len(s) : s[i] \in S
      BY <1>0
    <2>2. /\ b \in Seq(S) /\ Len(b) = IF q + 1 <= Len(s) THEN Len(s) - (q + 1) + 1 ELSE 0
          /\ \A i \in 1 .. Len(s) - (q + 1) + 1 : b[i] = s[(q + 1) + i - 1]
      BY <1>0, <2>1, SubSeqProperties
    <2> HIDE DEF b
    <2> QED BY <1>0, <2>2
  <1> HIDE DEF a, b
  <1>3. /\ a \o b \in Seq(S) /\ Len(a \o b) = Len(a) + Len(b)
        /\ \A i \in 1 .. Len(a) + Len(b) : (a \o b)[i] = IF i <= Len(a) THEN a[i] ELSE b[i - Len(a)]
    BY <1>1, <1>2, ConcatProperties
  <1>4. \A i \in 1 .. Len(s) - 1 : (a \o b)[i] = IF i < q THEN s[i] ELSE s[i + 1]
    <2> SUFFICES ASSUME NEW i \in 1 .. Len(s) - 1
                 PROVE  (a \o b)[i] = IF i < q THEN s[i] ELSE s[i + 1]
      OBVIOUS
    <2>1. CASE i < q
      BY <1>0, <1>1, <1>2, <1>3, <2>1
    <2>2. CASE ~(i < q)
      <3>1. i - (q - 1) \in 1 .. Len(s) - q /\ q + (i - (q - 1)) = i + 1
        BY <1>0, <2>2
      <3>2. (a \o b)[i] = b[i - (q - 1)]
        BY <1>0, <1>1, <1>2, <1>3, <2>2
      <3> QED BY <1>2, <2>2, <3>1, <3>2
    <2> QED BY <2>1, <2>2
  <1>5. RemoveAt(s, q) = a \o b
    BY DEF RemoveAt, a, b
  <1>6. Len(a \o b) = Len(s) - 1
    BY <1>0, <1>1, <1>2, <1>3
  <1> QED BY <1>3, <1>4, <1>5, <1>6

(* A new table. *)
LEMMA FreshTable ==
    ASSUME NEW n \in Nat, n >= 2
    PROVE  /\ TableOK([s \in 0 .. n - 1 |-> Empty], <<>>, 0, 0)
           /\ Size([s \in 0 .. n - 1 |-> Empty]) = n
           /\ \A s \in 0 .. n - 1 : [t \in 0 .. n - 1 |-> Empty][s] = Empty
  <1> DEFINE e == [s \in 0 .. n - 1 |-> Empty]
  <1>1. e \in [0 .. n - 1 -> {Empty, Dummy} \cup Pair] /\ \A s \in 0 .. n - 1 : e[s] = Empty
    OBVIOUS
  <1> HIDE DEF e
  <1>2. Size(e) = n /\ DOMAIN e = 0 .. n - 1
    BY <1>1, SizeIs
  <1>3. \A s \in 0 .. n - 1 : ~LiveIn(e, s)
    BY <1>1 DEF LiveIn
  <1>4. TableTypes(e, <<>>, 0, 0)
    BY <1>1, <1>2 DEF TableTypes
  <1>5. Counts(e, <<>>, 0, 0)
    <2>1. { s \in DOMAIN e : LiveIn(e, s) } = {} /\ { s \in DOMAIN e : e[s] # Empty } = {}
      BY <1>1, <1>2, <1>3
    <2>2. Cardinality({}) = 0
      BY FS_EmptySet
    <2>3. Len(<<>>) = 0 /\ 0 < n
      OBVIOUS
    <2> QED BY <1>2, <2>1, <2>2, <2>3 DEF Counts
  <1>6. Listed(e, <<>>) /\ KeysApart(e) /\ Findable(e)
    BY <1>2, <1>3 DEF Listed, KeysApart, Findable
  <1> QED BY <1>1, <1>2, <1>4, <1>5, <1>6 DEF TableOK, e

(* A pair is put in, in a slot that a walk for its key comes to. *)
LEMMA TableGains ==
    ASSUME NEW e, NEW o, NEW u, NEW fi, TableOK(e, o, u, fi),
           NEW i \in 0 .. Size(e) - 1, ~LiveIn(e, i), fi + 1 < Size(e),
           NEW p \in Pair, Chain(e, i, p.key),
           \A s \in 0 .. Size(e) - 1 : LiveIn(e, s) => e[s].key # p.key
    PROVE  /\ TableOK([e EXCEPT ![i] = p], Append(o, i), u + 1, IF e[i] = Dummy THEN fi ELSE fi + 1)
           /\ Size([e EXCEPT ![i] = p]) = Size(e)
           /\ \A s \in 0 .. Size(e) - 1 : [e EXCEPT ![i] = p][s] = IF s = i THEN p ELSE e[s]
  <1> DEFINE d == [e EXCEPT ![i] = p]
             n == Size(e)
             o2 == Append(o, i)
             fi2 == IF e[i] = Dummy THEN fi ELSE fi + 1
  <1>1. /\ n \in Nat /\ n >= 2 /\ e \in [0 .. n - 1 -> {Empty, Dummy} \cup Pair]
        /\ o \in Seq(0 .. n - 1) /\ u \in Nat /\ fi \in Nat /\ Len(o) \in Nat
    BY DEF TableOK, TableTypes
  <1>2. /\ d \in [0 .. n - 1 -> {Empty, Dummy} \cup Pair]
        /\ \A s \in 0 .. n - 1 : d[s] = IF s = i THEN p ELSE e[s]
    BY <1>1
  <1>3. DOMAIN e = 0 .. n - 1 /\ IsFiniteSet(DOMAIN e)
    BY <1>1, SizeIs
  <1> HIDE DEF d, n
  <1>4. Size(d) = n /\ DOMAIN d = 0 .. n - 1
    BY <1>1, <1>2, SizeIs
  <1>5. \A s \in 0 .. n - 1 : LiveIn(d, s) <=> s = i \/ LiveIn(e, s)
    BY <1>2, Distinct DEF LiveIn
  <1>6. \A s \in 0 .. n - 1 : d[s] # Empty <=> s = i \/ e[s] # Empty
    BY <1>2, Distinct
  <1>7. i \in 0 .. n - 1 /\ ~LiveIn(e, i)
    BY DEF n
  <1>8. /\ o2 \in Seq(0 .. n - 1) /\ Len(o2) = Len(o) + 1 /\ o2[Len(o) + 1] = i
        /\ \A j \in 1 .. Len(o) : o2[j] = o[j]
    BY <1>1, <1>7
  <1> HIDE DEF o2
  <1>9. TableTypes(d, o2, u + 1, fi2)
    BY <1>1, <1>2, <1>4, <1>8 DEF TableTypes
  <1>10. Counts(d, o2, u + 1, fi2)
    <2> DEFINE L == { s \in DOMAIN e : LiveIn(e, s) }
               F == { s \in DOMAIN e : e[s] # Empty }
    <2>1. /\ u = Cardinality(L) /\ fi = Cardinality(F) /\ fi + 1 < n /\ Len(o) = u
      BY DEF TableOK, Counts, n
    <2>2. IsFiniteSet(L) /\ IsFiniteSet(F)
      BY <1>3, FS_Subset
    <2>3. { s \in DOMAIN d : LiveIn(d, s) } = L \cup {i} /\ i \notin L
      BY <1>3, <1>4, <1>5, <1>7
    <2>4. { s \in DOMAIN d : d[s] # Empty } = F \cup {i} /\ (i \in F <=> e[i] = Dummy)
      BY <1>3, <1>4, <1>6, <1>7, Distinct DEF LiveIn
    <2> HIDE DEF L, F
    <2>5. Cardinality(L \cup {i}) = u + 1
      BY <2>1, <2>2, <2>3, FS_AddElement
    <2>6. Cardinality(F \cup {i}) = fi2
      BY <2>1, <2>2, <2>4, FS_AddElement
    <2>7. fi2 < n
      BY <1>1, <2>1
    <2> QED BY <1>4, <1>8, <2>1, <2>3, <2>4, <2>5, <2>6, <2>7 DEF Counts
  <1>11. Listed(e, o)
    BY DEF TableOK
  <1>12. Listed(d, o2)
    <2>1. \A j \in 1 .. Len(o) : o[j] \in 0 .. n - 1 /\ LiveIn(e, o[j]) /\ o[j] # i
      BY <1>1, <1>7, <1>11 DEF Listed
    <2>2. \A j \in 1 .. Len(o2) : j \in 1 .. Len(o) \/ j = Len(o) + 1
      BY <1>1, <1>8
    <2>3. \A j, k \in 1 .. Len(o2) : o2[j] = o2[k] => j = k
      BY <1>8, <1>11, <2>1, <2>2 DEF Listed
    <2>4. \A j \in 1 .. Len(o2) : LiveIn(d, o2[j])
      BY <1>5, <1>7, <1>8, <2>1, <2>2
    <2>5. ASSUME NEW s \in 0 .. n - 1, LiveIn(d, s) PROVE \E j \in 1 .. Len(o2) : o2[j] = s
      <3>1. CASE s = i
        <4>1. Len(o) + 1 \in 1 .. Len(o2)
          BY <1>1, <1>8
        <4> QED BY <1>8, <3>1, <4>1
      <3>2. CASE s # i
        <4>1. PICK j \in 1 .. Len(o) : o[j] = s
          BY <1>5, <1>11, <2>5, <3>2 DEF Listed, n
        <4>2. j \in 1 .. Len(o2)
          BY <1>1, <1>8
        <4> QED BY <1>8, <4>1, <4>2
      <3> QED BY <3>1, <3>2
    <2> QED BY <1>4, <2>3, <2>4, <2>5 DEF Listed
  <1>13. KeysApart(d)
    <2> SUFFICES ASSUME NEW s \in 0 .. n - 1, NEW t \in 0 .. n - 1,
                        LiveIn(d, s), LiveIn(d, t), d[s].key = d[t].key
                 PROVE  s = t
      BY <1>4 DEF KeysApart
    <2>1. KeysApart(e)
      BY DEF TableOK
    <2> QED BY <1>2, <1>5, <2>1 DEF KeysApart, n
  <1>14. Findable(d)
    <2> SUFFICES ASSUME NEW s \in 0 .. n - 1, LiveIn(d, s) PROVE Chain(d, s, d[s].key)
      BY <1>4 DEF Findable
    <2>1. CASE s = i
      <3>1. Chain(d, i, p.key)
        BY <1>1, <1>4, <1>6, ChainStays DEF n
      <3> QED BY <1>2, <2>1, <3>1
    <2>2. CASE s # i
      <3>1. Chain(e, s, e[s].key)
        BY <1>5, <2>2 DEF TableOK, Findable, n
      <3>2. Chain(d, s, e[s].key)
        BY <1>1, <1>4, <1>6, <3>1, ChainStays DEF n
      <3> QED BY <1>2, <2>2, <3>2
    <2> QED BY <2>1, <2>2
  <1> QED BY <1>2, <1>4, <1>9, <1>10, <1>12, <1>13, <1>14 DEF TableOK, d, o2, n

(* A table whose keys are where they were, or gone, has them apart and     *)
(* finds them as before.                                                   *)
LEMMA FewerKeys ==
    ASSUME NEW e, NEW d, Size(d) = Size(e), Size(e) \in Nat, Findable(e), KeysApart(e),
           \A s \in 0 .. Size(e) - 1 :
               /\ e[s] # Empty => d[s] # Empty
               /\ LiveIn(d, s) => LiveIn(e, s) /\ d[s].key = e[s].key
    PROVE  Findable(d) /\ KeysApart(d)
  <1>1. ASSUME NEW s \in 0 .. Size(e) - 1, LiveIn(d, s) PROVE Chain(d, s, d[s].key)
    <2>1. Chain(e, s, e[s].key) /\ d[s].key = e[s].key
      BY <1>1 DEF Findable
    <2> QED BY <2>1, ChainStays
  <1> QED BY <1>1 DEF Findable, KeysApart

(* A key is taken out, and leaves a dummy. *)
LEMMA TableLoses ==
    ASSUME NEW e, NEW o, NEW u, NEW fi, TableOK(e, o, u, fi),
           NEW i \in 0 .. Size(e) - 1, LiveIn(e, i), NEW q \in 1 .. Len(o), o[q] = i
    PROVE  /\ TableOK([e EXCEPT ![i] = Dummy], RemoveAt(o, q), u - 1, fi)
           /\ Size([e EXCEPT ![i] = Dummy]) = Size(e)
           /\ \A s \in 0 .. Size(e) - 1 : [e EXCEPT ![i] = Dummy][s] = IF s = i THEN Dummy ELSE e[s]
  <1> DEFINE d == [e EXCEPT ![i] = Dummy]
             n == Size(e)
             o2 == RemoveAt(o, q)
  <1>1. /\ n \in Nat /\ n >= 2 /\ e \in [0 .. n - 1 -> {Empty, Dummy} \cup Pair]
        /\ o \in Seq(0 .. n - 1) /\ u \in Nat /\ fi \in Nat /\ Len(o) \in Nat
    BY DEF TableOK, TableTypes
  <1>2. /\ d \in [0 .. n - 1 -> {Empty, Dummy} \cup Pair]
        /\ \A s \in 0 .. n - 1 : d[s] = IF s = i THEN Dummy ELSE e[s]
    BY <1>1
  <1>3. DOMAIN e = 0 .. n - 1 /\ IsFiniteSet(DOMAIN e)
    BY <1>1, SizeIs
  <1> HIDE DEF d, n
  <1>4. Size(d) = n /\ DOMAIN d = 0 .. n - 1
    BY <1>1, <1>2, SizeIs
  <1>5. \A s \in 0 .. n - 1 : LiveIn(d, s) <=> s # i /\ LiveIn(e, s)
    BY <1>2 DEF LiveIn
  <1>6. \A s \in 0 .. n - 1 : d[s] # Empty <=> e[s] # Empty
    BY <1>2, Distinct DEF LiveIn
  <1>7. i \in 0 .. n - 1 /\ LiveIn(e, i)
    BY DEF n
  <1>8. /\ o2 \in Seq(0 .. n - 1) /\ Len(o2) = Len(o) - 1
        /\ \A j \in 1 .. Len(o) - 1 : o2[j] = IF j < q THEN o[j] ELSE o[j + 1]
    BY <1>1, RemoveAtIs
  <1> HIDE DEF o2
  <1>9. Counts(d, o2, u - 1, fi) /\ u - 1 \in Nat
    <2> DEFINE L == { s \in DOMAIN e : LiveIn(e, s) }
               F == { s \in DOMAIN e : e[s] # Empty }
    <2>1. /\ u = Cardinality(L) /\ fi = Cardinality(F) /\ fi < n /\ Len(o) = u
      BY DEF TableOK, Counts, n
    <2>2. IsFiniteSet(L)
      BY <1>3, FS_Subset
    <2>3. { s \in DOMAIN d : LiveIn(d, s) } = L \ {i} /\ i \in L
      BY <1>3, <1>4, <1>5, <1>7
    <2>4. { s \in DOMAIN d : d[s] # Empty } = F
      BY <1>3, <1>4, <1>6
    <2> HIDE DEF L, F
    <2>5. Cardinality(L \ {i}) = u - 1
      BY <2>1, <2>2, <2>3, FS_RemoveElement
    <2>6. u - 1 \in Nat
      BY <1>1, <2>1
    <2> QED BY <1>4, <1>8, <2>1, <2>3, <2>4, <2>5, <2>6 DEF Counts
  <1>10. TableTypes(d, o2, u - 1, fi)
    BY <1>1, <1>2, <1>4, <1>8, <1>9 DEF TableTypes
  <1>11. Listed(e, o)
    BY DEF TableOK
  <1>12. Listed(d, o2)
    <2> DEFINE was(j) == IF j < q THEN j ELSE j + 1
    <2>6. /\ Len(o) \in Nat /\ Len(o2) = Len(o) - 1
          /\ \A j \in 1 .. Len(o) - 1 : o2[j] = IF j < q THEN o[j] ELSE o[j + 1]
      BY <1>1, <1>8
    <2>1. \A j \in 1 .. Len(o2) : was(j) \in 1 .. Len(o) /\ was(j) # q /\ o2[j] = o[was(j)]
      BY <2>6
    <2>2. \A j, k \in 1 .. Len(o2) : was(j) = was(k) => j = k
      BY <2>6
    <2>3. \A j, k \in 1 .. Len(o2) : o2[j] = o2[k] => j = k
      BY <1>11, <2>1, <2>2 DEF Listed
    <2>4. ASSUME NEW j \in 1 .. Len(o2) PROVE LiveIn(d, o2[j])
      <3>1. o2[j] \in 0 .. n - 1
        <4> HIDE DEF was
        <4>1. \A k \in 1 .. Len(o) : o[k] \in 0 .. n - 1
          BY <1>1
        <4> QED BY <2>1, <4>1
      <3>2. o2[j] # i /\ LiveIn(e, o2[j])
        <4> HIDE DEF was
        <4> QED BY <1>11, <2>1 DEF Listed
      <3> QED BY <1>5, <3>1, <3>2
    <2>5. ASSUME NEW s \in 0 .. n - 1, LiveIn(d, s) PROVE \E j \in 1 .. Len(o2) : o2[j] = s
      <3>1. PICK k \in 1 .. Len(o) : o[k] = s
        BY <1>5, <1>11, <2>5 DEF Listed, n
      <3>2. k # q
        BY <1>5, <2>5, <3>1
      <3>3. CASE k < q
        <4>1. k \in 1 .. Len(o2) /\ k \in 1 .. Len(o) - 1
          BY <1>1, <1>8, <3>3
        <4> QED BY <1>8, <3>1, <3>3, <4>1
      <3>4. CASE k > q
        <4>1. k - 1 \in 1 .. Len(o2) /\ k - 1 \in 1 .. Len(o) - 1 /\ ~(k - 1 < q) /\ (k - 1) + 1 = k
          BY <1>1, <1>8, <3>4
        <4>2. o2[k - 1] = o[k]
          BY <1>8, <4>1
        <4> QED BY <3>1, <4>1, <4>2
      <3> QED BY <1>1, <3>2, <3>3, <3>4
    <2> QED BY <1>4, <2>3, <2>4, <2>5 DEF Listed
  <1>13. Findable(d) /\ KeysApart(d)
    <2>1. Findable(e) /\ KeysApart(e)
      BY DEF TableOK
    <2>2. \A s \in 0 .. n - 1 : LiveIn(d, s) => LiveIn(e, s) /\ d[s].key = e[s].key
      BY <1>2, <1>5
    <2> QED BY <1>1, <1>4, <1>6, <2>1, <2>2, FewerKeys DEF n
  <1> QED BY <1>2, <1>4, <1>9, <1>10, <1>12, <1>13 DEF TableOK, d, o2, n

(* Another value is stored under a key. *)
LEMMA TableKeeps ==
    ASSUME NEW e, NEW o, NEW u, NEW fi, TableOK(e, o, u, fi),
           NEW i \in 0 .. Size(e) - 1, LiveIn(e, i), NEW p \in Pair, p.key = e[i].key
    PROVE  /\ TableOK([e EXCEPT ![i] = p], o, u, fi)
           /\ Size([e EXCEPT ![i] = p]) = Size(e)
           /\ \A s \in 0 .. Size(e) - 1 : [e EXCEPT ![i] = p][s] = IF s = i THEN p ELSE e[s]
  <1> DEFINE d == [e EXCEPT ![i] = p]
             n == Size(e)
  <1>1. /\ n \in Nat /\ n >= 2 /\ e \in [0 .. n - 1 -> {Empty, Dummy} \cup Pair]
        /\ o \in Seq(0 .. n - 1) /\ u \in Nat /\ fi \in Nat
    BY DEF TableOK, TableTypes
  <1>2. /\ d \in [0 .. n - 1 -> {Empty, Dummy} \cup Pair]
        /\ \A s \in 0 .. n - 1 : d[s] = IF s = i THEN p ELSE e[s]
    BY <1>1
  <1>3. DOMAIN e = 0 .. n - 1
    BY <1>1, SizeIs
  <1> HIDE DEF d, n
  <1>4. Size(d) = n /\ DOMAIN d = 0 .. n - 1
    BY <1>1, <1>2, SizeIs
  <1>5. \A s \in 0 .. n - 1 : LiveIn(d, s) <=> LiveIn(e, s)
    BY <1>2, Distinct DEF LiveIn
  <1>6. \A s \in 0 .. n - 1 : d[s] # Empty <=> e[s] # Empty
    BY <1>2, Distinct DEF LiveIn
  <1>7. Counts(d, o, u, fi)
    <2>1. /\ { s \in DOMAIN d : LiveIn(d, s) } = { s \in DOMAIN e : LiveIn(e, s) }
          /\ { s \in DOMAIN d : d[s] # Empty } = { s \in DOMAIN e : e[s] # Empty }
      BY <1>3, <1>4, <1>5, <1>6
    <2> QED BY <1>4, <2>1 DEF TableOK, Counts, n
  <1>8. TableTypes(d, o, u, fi)
    BY <1>1, <1>2, <1>4 DEF TableTypes
  <1>9. Listed(d, o)
    <2>1. Listed(e, o) /\ \A j \in 1 .. Len(o) : o[j] \in 0 .. n - 1
      BY <1>1 DEF TableOK
    <2> QED BY <1>4, <1>5, <2>1 DEF Listed, n
  <1>10. Findable(d) /\ KeysApart(d)
    <2>1. Findable(e) /\ KeysApart(e)
      BY DEF TableOK
    <2>2. \A s \in 0 .. n - 1 : LiveIn(d, s) => LiveIn(e, s) /\ d[s].key = e[s].key
      BY <1>2, <1>5
    <2> QED BY <1>1, <1>4, <1>6, <2>1, <2>2, FewerKeys DEF n
  <1> QED BY <1>2, <1>4, <1>7, <1>8, <1>9, <1>10 DEF TableOK, d, n

-----------------------------------------------------------------------------
(* Lookups.                                                                *)

(* The next slot is the next spot of the walk. *)
LEMMA NextSlotIs ==
    ASSUME NEW f \in Frame, f.size >= 2
    PROVE  /\ NextSlot(f) \in Frame /\ Spot(NextSlot(f)) = Step(Spot(f), f.size)
           /\ Wanted(NextSlot(f)) = Wanted(f) /\ NextSlot(f).phase = "probe"
           /\ NextSlot(f).op = f.op /\ NextSlot(f).key = f.key /\ NextSlot(f).value = f.value
           /\ NextSlot(f).todo = f.todo /\ NextSlot(f).free = f.free /\ NextSlot(f).size = f.size
  <1>1. /\ f.size \in Nat /\ f.at \in Nat /\ f.perturb \in Nat
        /\ f = [op |-> f.op, key |-> f.key, value |-> f.value, todo |-> f.todo, at |-> f.at,
                perturb |-> f.perturb, free |-> f.free, size |-> f.size, phase |-> f.phase]
    BY DEF Frame
  <1> DEFINE p == f.perturb \div Shift
             a == (5 * f.at + 1 + p) % f.size
  <1>2. p \in Nat
    BY <1>1, DictAssumption
  <1>3. a \in Nat
    <2> DEFINE q == 5 * f.at + 1 + p
    <2>1. q \in Nat
      BY <1>1, <1>2
    <2> HIDE DEF p, q
    <2>2. q % f.size \in Nat
      BY <1>1, <2>1
    <2> QED BY <2>2 DEF q
  <1>4. Step(Spot(f), f.size) = <<a, p>>
    BY DEF Step, Spot
  <1>5. NextSlot(f) = [f EXCEPT !.at = a, !.perturb = p, !.phase = "probe"]
    BY DEF NextSlot
  <1> HIDE DEF a, p
  <1>6. NextSlot(f) \in Frame
    BY <1>2, <1>3, <1>5 DEF Frame
  <1>7. /\ NextSlot(f).at = a /\ NextSlot(f).perturb = p /\ NextSlot(f).phase = "probe"
        /\ NextSlot(f).op = f.op /\ NextSlot(f).key = f.key /\ NextSlot(f).value = f.value
        /\ NextSlot(f).todo = f.todo /\ NextSlot(f).free = f.free /\ NextSlot(f).size = f.size
    BY <1>5 DEF Frame
  <1> QED BY <1>4, <1>6, <1>7 DEF Spot, Wanted

(* A lookup goes on from a slot that is not empty and not its key's. *)
LEMMA LookGoesOn ==
    ASSUME NEW e, NEW fi, NEW f, Size(e) \in Nat, Size(e) >= 2, LookOK(e, fi, f),
           e[f.at] # Empty, LiveIn(e, f.at) => e[f.at].key # Wanted(f)
    PROVE  LookOK(e, fi, NextSlot(f))
  <1> DEFINE g == NextSlot(f)
             k == Wanted(f)
             n == Size(e)
  <1>1. f \in Frame /\ f.size = n /\ WalkOK(e, f) /\ RoomOK(e, fi, f)
    BY DEF LookOK
  <1>2. /\ g \in Frame /\ Spot(g) = Step(Spot(f), n) /\ Wanted(g) = k /\ g.phase = "probe"
        /\ g.op = f.op /\ g.value = f.value /\ g.todo = f.todo /\ g.free = f.free /\ g.size = n
    BY <1>1, NextSlotIs
  <1>3. k \in Key
    BY <1>1, WantedIs
  <1> HIDE DEF g, k
  <1>4. PICK W \in SUBSET Spots(n) :
          Path(e, W, Spot(f), k) /\ \A w \in W : LiveIn(e, w[1]) => e[w[1]].key # k
    BY <1>1 DEF WalkOK, k
  <1>5. e[Spot(f)[1]] # Empty /\ (LiveIn(e, Spot(f)[1]) => e[Spot(f)[1]].key # k)
    BY DEF Spot, k
  <1> DEFINE V == W \cup {Spot(f)}
  <1>6. Path(e, V, Spot(g), k)
    BY <1>2, <1>3, <1>4, <1>5, WalkGoesOn
  <1>7. V \in SUBSET Spots(n) /\ Spot(g) \in Spots(n)
    BY <1>6 DEF Path
  <1>8. \A w \in V : LiveIn(e, w[1]) => e[w[1]].key # k
    BY <1>4, <1>5
  <1>9. Reached(Spot(g), k, n)
    BY <1>1, <1>2, <1>3, ReachGoesOn DEF WalkOK, k
  <1> HIDE DEF V
  <1>10. WalkOK(e, g)
    <2>1. Kept(e, f) /\ Kept(e, g)
      <3>1. Kept(e, f)
        BY <1>1 DEF WalkOK
      <3> QED BY <1>2, <3>1 DEF Kept, k
    <2> QED BY <1>2, <1>6, <1>7, <1>8, <1>9, <2>1 DEF WalkOK
  <1>11. RoomOK(e, fi, g)
    BY <1>1, <1>2 DEF RoomOK
  <1> QED BY <1>2, <1>10, <1>11 DEF LookOK, g

(* The first dummy is kept in mind. *)
LEMMA LookKeepsDummy ==
    ASSUME NEW e, NEW fi, NEW f, Size(e) \in Nat, LookOK(e, fi, f), e[f.at] = Dummy,
           f.phase = "probe"
    PROVE  /\ LookOK(e, fi, [f EXCEPT !.free = IF @ >= 0 THEN @ ELSE f.at])
           /\ [f EXCEPT !.free = IF @ >= 0 THEN @ ELSE f.at].at = f.at
           /\ [f EXCEPT !.free = IF @ >= 0 THEN @ ELSE f.at].todo = f.todo
  <1> DEFINE x == IF f.free >= 0 THEN f.free ELSE f.at
             g == [f EXCEPT !.free = x]
             n == Size(e)
  <1>1. f \in Frame /\ f.size = n /\ WalkOK(e, f) /\ RoomOK(e, fi, f)
    BY DEF LookOK
  <1>2. x \in Int
    BY <1>1 DEF Frame
  <1> HIDE DEF x
  <1>3. /\ g \in Frame /\ g.at = f.at /\ g.perturb = f.perturb /\ g.phase = "probe" /\ g.free = x
        /\ g.op = f.op /\ g.key = f.key /\ g.value = f.value /\ g.todo = f.todo /\ g.size = n
    BY <1>1, <1>2 DEF Frame
  <1> HIDE DEF g
  <1>4. Spot(g) = Spot(f) /\ Wanted(g) = Wanted(f)
    BY <1>3 DEF Spot, Wanted
  <1>5. x \in 0 .. n - 1 /\ e[x] = Dummy /\ Chain(e, x, Wanted(f))
    <2>1. CASE f.free >= 0
      BY <1>1, <2>1 DEF WalkOK, Kept, x
    <2>2. CASE ~(f.free >= 0)
      <3>1. Spot(f) \in Spots(n) /\ \E W \in SUBSET Spots(n) : Path(e, W, Spot(f), Wanted(f))
        BY <1>1 DEF WalkOK
      <3>2. f.at \in 0 .. n - 1 /\ f.perturb \in Nat
        BY <3>1 DEF Spots, Spot
      <3>3. Chain(e, f.at, Wanted(f))
        BY <3>1, <3>2 DEF Chain, Spot
      <3> QED BY <2>2, <3>2, <3>3 DEF x
    <2> QED BY <2>1, <2>2
  <1>6. WalkOK(e, g)
    BY <1>1, <1>3, <1>4, <1>5 DEF WalkOK, Kept
  <1>7. RoomOK(e, fi, g)
    BY <1>1, <1>3 DEF RoomOK
  <1> QED BY <1>3, <1>6, <1>7 DEF LookOK, g, x

(* Keys are compared. *)
LEMMA LookCompares ==
    ASSUME NEW e, NEW fi, NEW f, LookOK(e, fi, f), LiveIn(e, f.at), NEW ph,
           ph = IF e[f.at].key = Wanted(f) THEN "equal" ELSE "differs"
    PROVE  LookOK(e, fi, [f EXCEPT !.phase = ph]) /\ [f EXCEPT !.phase = ph].todo = f.todo
  <1> DEFINE g == [f EXCEPT !.phase = ph]
             n == Size(e)
  <1>1. f \in Frame /\ f.size = n /\ WalkOK(e, f) /\ RoomOK(e, fi, f)
    BY DEF LookOK
  <1>2. ph \in {"probe", "equal", "differs"}
    OBVIOUS
  <1>3. /\ g \in Frame /\ g.at = f.at /\ g.perturb = f.perturb /\ g.phase = ph /\ g.free = f.free
        /\ g.op = f.op /\ g.key = f.key /\ g.value = f.value /\ g.todo = f.todo /\ g.size = n
    BY <1>1, <1>2 DEF Frame
  <1> HIDE DEF g
  <1>4. Spot(g) = Spot(f) /\ Wanted(g) = Wanted(f)
    BY <1>3 DEF Spot, Wanted
  <1>5. WalkOK(e, g)
    BY <1>1, <1>3, <1>4 DEF WalkOK, Kept
  <1>6. RoomOK(e, fi, g)
    BY <1>1, <1>3 DEF RoomOK
  <1> QED BY <1>3, <1>5, <1>6 DEF LookOK, g

(* A lookup begins. *)
LEMMA LookBegins ==
    ASSUME NEW e, NEW fi, NEW f \in Frame, Size(e) \in Nat, Size(e) >= 2, RoomOK(e, fi, f)
    PROVE  /\ LookOK(e, fi, Probe(f, Size(e)))
           /\ Probe(f, Size(e)).op = f.op /\ Probe(f, Size(e)).key = f.key
           /\ Probe(f, Size(e)).value = f.value /\ Probe(f, Size(e)).todo = f.todo
           /\ Probe(f, Size(e)).phase = "probe"
  <1> DEFINE n == Size(e)
             k == Wanted(f)
             g == Probe(f, n)
  <1>1. k \in Key
    BY WantedIs
  <1>2. Start(k, n) \in Spots(n)
    BY <1>1, OnSpots
  <1>3. Hash[k] % n \in Nat /\ Hash[k] \in Nat
    BY <1>2 DEF Start, Spots
  <1>4. f = [op |-> f.op, key |-> f.key, value |-> f.value, todo |-> f.todo, at |-> f.at,
             perturb |-> f.perturb, free |-> f.free, size |-> f.size, phase |-> f.phase]
    BY DEF Frame
  <1>5. n \in Nat
    OBVIOUS
  <1> HIDE DEF n
  <1>11. g = [op |-> f.op, key |-> f.key, value |-> f.value, todo |-> f.todo, at |-> Hash[k] % n,
              perturb |-> Hash[k], free |-> -1, size |-> n, phase |-> "probe"]
    <2> DEFINE R(a, p, x, m, h) ==
                 [op |-> f.op, key |-> f.key, value |-> f.value, todo |-> f.todo, at |-> a,
                  perturb |-> p, free |-> x, size |-> m, phase |-> h]
    <2>1. \A a, p, x, m, h, z :
            /\ [R(a, p, x, m, h) EXCEPT !.at = z] = R(z, p, x, m, h)
            /\ [R(a, p, x, m, h) EXCEPT !.perturb = z] = R(a, z, x, m, h)
            /\ [R(a, p, x, m, h) EXCEPT !.free = z] = R(a, p, z, m, h)
            /\ [R(a, p, x, m, h) EXCEPT !.size = z] = R(a, p, x, z, h)
            /\ [R(a, p, x, m, h) EXCEPT !.phase = z] = R(a, p, x, m, z)
      OBVIOUS
    <2>2. f = R(f.at, f.perturb, f.free, f.size, f.phase)
      BY <1>4
    <2>3. g = [f EXCEPT !.at = Hash[k] % n, !.perturb = Hash[k], !.free = -1, !.size = n,
                        !.phase = "probe"]
      BY DEF Probe
    <2> DEFINE f1 == [f EXCEPT !.at = Hash[k] % n]
               f2 == [f1 EXCEPT !.perturb = Hash[k]]
               f3 == [f2 EXCEPT !.free = -1]
               f4 == [f3 EXCEPT !.size = n]
    <2>4. g = [f4 EXCEPT !.phase = "probe"]
      BY <2>3
    <2> HIDE DEF R, g
    <2>5. f1 = R(Hash[k] % n, f.perturb, f.free, f.size, f.phase)
      BY <2>1, <2>2
    <2> HIDE DEF f1
    <2>6. f2 = R(Hash[k] % n, Hash[k], f.free, f.size, f.phase)
      BY <2>1, <2>5
    <2> HIDE DEF f2
    <2>7. f3 = R(Hash[k] % n, Hash[k], -1, f.size, f.phase)
      BY <2>1, <2>6
    <2> HIDE DEF f3
    <2>8. f4 = R(Hash[k] % n, Hash[k], -1, n, f.phase)
      BY <2>1, <2>7
    <2> HIDE DEF f4
    <2> QED BY <2>1, <2>4, <2>8 DEF R
  <1> HIDE DEF g, k
  <1>6. /\ g \in Frame /\ g.at = Hash[k] % n /\ g.perturb = Hash[k] /\ g.phase = "probe" /\ g.free = -1
        /\ g.op = f.op /\ g.key = f.key /\ g.value = f.value /\ g.todo = f.todo /\ g.size = n
    BY <1>3, <1>5, <1>11 DEF Frame
  <1>7. Spot(g) = Start(k, n) /\ Wanted(g) = k
    BY <1>6 DEF Spot, Wanted, Start, k
  <1>8. Path(e, {}, Start(k, n), k) /\ Reached(Start(k, n), k, n)
    BY <1>1, WalkBegins DEF n
  <1>9. WalkOK(e, g)
    <2>1. Path(e, {}, Spot(g), Wanted(g))
      BY <1>7, <1>8
    <2>2. \E W \in SUBSET Spots(n) :
            Path(e, W, Spot(g), Wanted(g)) /\ \A w \in W : LiveIn(e, w[1]) => e[w[1]].key # Wanted(g)
      <3> WITNESS {} \in SUBSET Spots(n)
      <3> QED BY <2>1
    <2>3. g.phase # "equal" /\ g.phase # "differs"
      BY <1>6
    <2>5. Kept(e, g)
      <3>1. g.free = -1
        BY <1>6
      <3> QED BY <3>1, Zenon DEF Kept
    <2>4. Spot(g) \in Spots(n) /\ Reached(Spot(g), Wanted(g), n)
      BY <1>2, <1>7, <1>8
    <2> QED BY <2>2, <2>3, <2>4, <2>5 DEF WalkOK, n
  <1>10. RoomOK(e, fi, g)
    BY <1>6 DEF RoomOK
  <1> QED BY <1>6, <1>9, <1>10 DEF LookOK, g, n

-----------------------------------------------------------------------------
(* What the dict holds, and its iterators.                                 *)

(* What is still to be moved. *)
Todo(st) == IF st = <<>> THEN <<>> ELSE st[Len(st)].todo

(* The dict holds the pairs that are listed, and then those to be moved. *)
LEMMA HoldsIs ==
    ASSUME NEW e, NEW o, NEW u, NEW fi, NEW st, TableOK(e, o, u, fi), StackOK(e, fi, st)
    PROVE  /\ Todo(st) \in Seq(Pair) /\ Holds(e, o, st) \in Seq(Pair)
           /\ Len(o) \in Nat /\ Len(Todo(st)) \in Nat
           /\ Len(Holds(e, o, st)) = Len(o) + Len(Todo(st))
           /\ \A i \in 1 .. Len(o) : Holds(e, o, st)[i] = e[o[i]] /\ e[o[i]] \in Pair
           /\ \A i \in 1 .. Len(Todo(st)) : Holds(e, o, st)[Len(o) + i] = Todo(st)[i]
  <1> DEFINE a == [i \in DOMAIN o |-> e[o[i]]]
             b == Todo(st)
  <1>1. b \in Seq(Pair)
    <2>1. CASE st = <<>>
      BY <2>1 DEF Todo
    <2>2. CASE st # <<>>
      <3>1. PICK f \in Frame : st = <<f>>
        BY <2>2 DEF StackOK
      <3>2. st[Len(st)] = f
        BY <3>1
      <3> QED BY <2>2, <3>2 DEF Todo, Frame
    <2> QED BY <2>1, <2>2
  <1>2. o \in Seq(0 .. Size(e) - 1) /\ Len(o) \in Nat /\ DOMAIN o = 1 .. Len(o)
    BY DEF TableOK, TableTypes
  <1>3. \A i \in 1 .. Len(o) : e[o[i]] \in Pair
    <2> SUFFICES ASSUME NEW i \in 1 .. Len(o) PROVE e[o[i]] \in Pair
      OBVIOUS
    <2>1. o[i] \in 0 .. Size(e) - 1 /\ LiveIn(e, o[i])
      <3>1. Listed(e, o)
        BY DEF TableOK
      <3>2. o[i] \in 0 .. Size(e) - 1
        <4> DEFINE S == 0 .. Size(e) - 1
        <4>1. o \in Seq(S)
          BY <1>2
        <4> HIDE DEF S
        <4>2. o[i] \in S
          BY <4>1
        <4> QED BY <4>2 DEF S
      <3> QED BY <3>1, <3>2 DEF Listed
    <2>2. e[o[i]] \in {Empty, Dummy} \cup Pair
      BY <2>1 DEF TableOK, TableTypes
    <2> QED BY <2>1, <2>2 DEF LiveIn
  <1>4. a \in Seq(Pair) /\ Len(a) = Len(o) /\ \A i \in 1 .. Len(o) : a[i] = e[o[i]]
    BY <1>2, <1>3
  <1>5. Holds(e, o, st) = a \o b
    BY DEF Holds, Todo
  <1> HIDE DEF a, b
  <1>6. /\ a \o b \in Seq(Pair) /\ Len(a \o b) = Len(a) + Len(b)
        /\ \A i \in 1 .. Len(a) + Len(b) : (a \o b)[i] = IF i <= Len(a) THEN a[i] ELSE b[i - Len(a)]
    BY <1>1, <1>4, ConcatProperties
  <1>7. Len(b) \in Nat
    BY <1>1
  <1>8. \A i \in 1 .. Len(o) : (a \o b)[i] = e[o[i]]
    BY <1>2, <1>4, <1>6, <1>7
  <1>9. ASSUME NEW i \in 1 .. Len(b) PROVE (a \o b)[Len(o) + i] = b[i]
    <2>1. /\ Len(o) + i \in 1 .. Len(a) + Len(b) /\ ~(Len(o) + i <= Len(a))
          /\ (Len(o) + i) - Len(a) = i
      BY <1>2, <1>4, <1>7
    <2> QED BY <1>6, <2>1
  <1> QED BY <1>1, <1>2, <1>3, <1>4, <1>5, <1>6, <1>7, <1>8, <1>9 DEF b

(* An iterator is as good as it was when keys at the end are gone. *)
LEMMA IterKeeps ==
    ASSUME NEW it, NEW h, NEW g, IterOK(it, h), h \in Seq(Pair), g \in Seq(Pair), Len(g) <= Len(h),
           \A i \in 1 .. Len(g) : g[i].key = h[i].key
    PROVE  IterOK(it, g)
  <1> SUFFICES ASSUME it # NoIter PROVE IterOK(it, g)
    BY DEF IterOK
  <1> DEFINE n == Len(it.start)
             at(i) == IF it.backwards THEN n + 1 - i ELSE i
  <1>1. n \in Nat /\ it.backwards \in BOOLEAN /\ Len(g) \in Nat /\ Len(h) \in Nat
    BY DEF IterOK, Iterator
  <1>2. CASE it.stale
    BY <1>2 DEF IterOK
  <1>3. CASE ~it.stale /\ Len(g) < n
    BY <1>3 DEF IterOK
  <1>4. CASE ~it.stale /\ n <= Len(g)
    <2>1. ~(Len(h) < n)
      BY <1>1, <1>4
    <2>2. \A i \in 1 .. n : it.start[i] = h[at(i)].key
      BY <1>4, <2>1 DEF IterOK
    <2>3. \A i \in 1 .. n : at(i) \in 1 .. Len(g)
      BY <1>1, <1>4
    <2>4. \A i \in 1 .. n : it.start[i] = g[at(i)].key
      BY <2>2, <2>3
    <2> QED BY <1>4, <2>4 DEF IterOK
  <1> QED BY <1>1, <1>2, <1>3, <1>4

(* One that is told of a change promises no more than it has given. *)
LEMMA IterStale ==
    ASSUME NEW it, NEW h, NEW g, IterOK(it, h)
    PROVE  IterOK(IF it = NoIter THEN NoIter ELSE [it EXCEPT !.stale = TRUE], g)
  <1>1. CASE it = NoIter
    BY <1>1 DEF IterOK
  <1>2. CASE it # NoIter
    <2> DEFINE jt == [it EXCEPT !.stale = TRUE]
    <2>1. it \in Iterator
      BY <1>2 DEF IterOK
    <2>2. /\ jt \in Iterator /\ jt.stale /\ jt.pos = it.pos /\ jt.backwards = it.backwards
          /\ jt.snapUsed = it.snapUsed /\ jt.ended = it.ended /\ jt.start = it.start
          /\ jt.gave = it.gave
      BY <2>1 DEF Iterator
    <2> HIDE DEF jt
    <2>3. IterOK(jt, g)
      BY <1>2, <2>2 DEF IterOK
    <2> QED BY <1>2, <2>3 DEF jt
  <1> QED BY <1>1, <1>2

(* An iterator is made. *)
LEMMA IterMade ==
    ASSUME TableOK(entries, order, used, fill), StackOK(entries, fill, stack),
           NEW backwards \in BOOLEAN, NewIter(backwards)
    PROVE  IterOK(iter', Holds(entries, order, stack))
  <1> DEFINE n == Len(order)
             h == Holds(entries, order, stack)
             keys == [p \in DOMAIN order |-> entries[order[p]].key]
             start == IF backwards THEN Reverse(keys) ELSE keys
  <1>1. /\ n \in Nat /\ n <= Len(h)
        /\ \A i \in 1 .. n : h[i] = entries[order[i]] /\ entries[order[i]] \in Pair
    BY HoldsIs
  <1>2. DOMAIN order = 1 .. n /\ used = n /\ used \in Nat
    <2>1. order \in Seq(0 .. Size(entries) - 1) /\ used = n
      BY DEF TableOK, TableTypes, Counts
    <2> QED BY <1>1, <2>1
  <1> HIDE DEF h, n
  <1>3. keys \in Seq(Key) /\ Len(keys) = n /\ \A i \in 1 .. n : keys[i] = h[i].key
    BY <1>1, <1>2 DEF Pair
  <1> HIDE DEF keys
  <1>4. /\ start \in Seq(Key) /\ Len(start) = n
        /\ \A i \in 1 .. n : start[i] = h[IF backwards THEN n + 1 - i ELSE i].key
    <2>1. CASE backwards
      <3> DEFINE r == [i \in 1 .. n |-> keys[(n - i) + 1]]
      <3>1. \A i \in 1 .. n : (n - i) + 1 \in 1 .. n /\ (n - i) + 1 = n + 1 - i
        BY <1>1
      <3>2. \A i \in 1 .. n : keys[(n - i) + 1] \in Key
        BY <1>1, <1>3, <3>1
      <3>3. r \in Seq(Key) /\ Len(r) = n /\ \A i \in 1 .. n : r[i] = keys[n + 1 - i]
        <4>1. r \in [1 .. n -> Key]
          BY <3>2
        <4>2. r \in Seq(Key) /\ Len(r) = n
          BY <1>1, <4>1
        <4>3. \A i \in 1 .. n : r[i] = keys[n + 1 - i]
          BY <3>1
        <4> QED BY <4>2, <4>3
      <3>4. start = r
        BY <1>3, <2>1 DEF Reverse
      <3> HIDE DEF r
      <3> QED BY <1>3, <2>1, <3>1, <3>3, <3>4
    <2>2. CASE ~backwards
      BY <1>3, <2>2
    <2> QED BY <2>1, <2>2
  <1>5. iter' = [pos |-> IF backwards THEN n ELSE 1, backwards |-> backwards,
                 snapUsed |-> used, length |-> used, stale |-> FALSE, ended |-> FALSE,
                 start |-> start, gave |-> <<>>]
    BY DEF NewIter, n, keys
  <1> HIDE DEF start
  <1>6. iter' \in Iterator
    BY <1>1, <1>2, <1>4, <1>5 DEF Iterator
  <1>7. Len(<<>>) = 0
    OBVIOUS
  <1> QED BY <1>1, <1>2, <1>4, <1>5, <1>6, <1>7 DEF IterOK, h

(* An iterator is asked for the next key. *)
LEMMA IterAdvances ==
    ASSUME TableOK(entries, order, used, fill), StackOK(entries, fill, stack),
           IterOK(iter, Holds(entries, order, stack)), Advance
    PROVE  IterOK(iter', Holds(entries, order, stack))
  <1> DEFINE n == Len(order)
             h == Holds(entries, order, stack)
             back == iter.backwards
             g == Len(iter.gave)
             ahead == { p \in DOMAIN order :
                          Live(order[p]) /\ IF iter.backwards THEN p <= iter.pos ELSE p >= iter.pos }
             p == IF iter.backwards THEN Max(ahead) ELSE Min(ahead)
  <1>1. /\ n \in Nat /\ n <= Len(h)
        /\ \A i \in 1 .. n : h[i] = entries[order[i]] /\ entries[order[i]] \in Pair
    BY HoldsIs
  <1>2. DOMAIN order = 1 .. n /\ used = n
    <2>1. order \in Seq(0 .. Size(entries) - 1) /\ used = n
      BY DEF TableOK, TableTypes, Counts
    <2> QED BY <1>1, <2>1
  <1>3. \A i \in 1 .. n : Live(order[i])
    BY DEF TableOK, Listed, LiveIn, Live
  <1> SUFFICES ASSUME iter' # NoIter, iter # NoIter, ~Changed PROVE IterOK(iter', h)
    BY DEF IterOK, Advance
  <1>4. /\ iter \in Iterator /\ g \in Nat /\ g <= n /\ Len(iter.start) = n
        /\ \A i \in 1 .. g : iter.gave[i] = iter.start[i]
        /\ iter.pos = IF back THEN n - g ELSE g + 1
        /\ back \in BOOLEAN /\ iter.start \in Seq(Key) /\ iter.gave \in Seq(Key) /\ iter.length \in Int
    BY <1>2 DEF IterOK, Changed, Iterator
  <1>5. \A i \in 1 .. n : iter.start[i] = h[IF back THEN n + 1 - i ELSE i].key
    <2>1. ~(Len(h) < Len(iter.start))
      <3>1. Len(h) \in Nat
        <4>1. Holds(entries, order, stack) \in Seq(Pair)
          BY HoldsIs
        <4> QED BY <4>1
      <3> QED BY <1>1, <1>4, <3>1
    <2> QED BY <1>4, <2>1 DEF IterOK, Changed
  <1>6. /\ iter' = IF ahead = {} THEN [iter EXCEPT !.ended = TRUE]
                   ELSE [iter EXCEPT !.pos = IF iter.backwards THEN p - 1 ELSE p + 1,
                                     !.length = @ - 1,
                                     !.gave = Append(@, entries[order[p]].key)]
    BY DEF Advance
  <1>7. ahead = IF back THEN 1 .. n - g ELSE g + 1 .. n
    BY <1>1, <1>2, <1>3, <1>4
  <1> HIDE DEF n, h, ahead, g
  <1>8. CASE ahead = {}
    <2>1. g = n
      <3>1. CASE g < n
        <4>1. IF back THEN n - g \in ahead ELSE g + 1 \in ahead
          BY <1>1, <1>4, <1>7, <3>1
        <4> QED BY <1>8, <4>1
      <3> QED BY <1>1, <1>4, <3>1
    <2> DEFINE jt == [iter EXCEPT !.ended = TRUE]
    <2>2. /\ jt \in Iterator /\ jt.stale = iter.stale /\ jt.pos = iter.pos /\ jt.backwards = iter.backwards
          /\ jt.snapUsed = iter.snapUsed /\ jt.start = iter.start /\ jt.gave = iter.gave
      BY <1>4 DEF Iterator
    <2>3. iter' = jt
      BY <1>6, <1>8
    <2> HIDE DEF jt
    <2>4. IterOK(iter, h)
      BY DEF h
    <2> QED BY <1>4, <2>1, <2>2, <2>3, <2>4 DEF IterOK, g
  <1>9. CASE ahead # {}
    <2>1. g < n
      BY <1>1, <1>4, <1>7, <1>9
    <2> DEFINE q == IF back THEN n - g ELSE g + 1
               x == entries[order[q]].key
    <2>2. q \in ahead /\ q \in 1 .. n
      BY <1>1, <1>4, <1>7, <2>1
    <2>3. p = q
      <3>1. CASE back
        <4>1. \A y \in ahead : y <= q /\ y \in Int
          BY <1>1, <1>4, <1>7, <3>1
        <4>2. Max(ahead) \in ahead /\ \A y \in ahead : Max(ahead) >= y
          BY <2>2, <4>1 DEF Max
        <4> QED BY <2>2, <3>1, <4>1, <4>2
      <3>2. CASE ~back
        <4>1. \A y \in ahead : y >= q /\ y \in Int
          BY <1>1, <1>4, <1>7, <3>2
        <4>2. Min(ahead) \in ahead /\ \A y \in ahead : Min(ahead) <= y
          BY <2>2, <4>1 DEF Min
        <4> QED BY <2>2, <3>2, <4>1, <4>2
      <3> QED BY <3>1, <3>2
    <2> HIDE DEF p
    <2>4. x \in Key /\ x = iter.start[g + 1]
      <3>1. x = h[q].key /\ x \in Key
        BY <1>1, <2>2 DEF Pair
      <3>2. g + 1 \in 1 .. n /\ q = IF back THEN n + 1 - (g + 1) ELSE g + 1
        BY <1>1, <1>4, <2>1
      <3>3. iter.start[g + 1] = h[q].key
        BY <1>5, <3>2
      <3> QED BY <3>1, <3>3
    <2> DEFINE jt == [iter EXCEPT !.pos = IF back THEN q - 1 ELSE q + 1,
                                  !.length = @ - 1, !.gave = Append(@, x)]
               w == Append(iter.gave, x)
    <2>5. /\ w \in Seq(Key) /\ Len(w) = g + 1 /\ w[g + 1] = x
          /\ \A i \in 1 .. g : w[i] = iter.gave[i]
      BY <1>4, <2>4 DEF g
    <2>6. iter' = jt
      BY <1>6, <1>9, <2>3
    <2> HIDE DEF w, x
    <2>7. /\ jt \in Iterator /\ jt.stale = iter.stale /\ jt.backwards = back
          /\ jt.pos = IF back THEN q - 1 ELSE q + 1
          /\ jt.snapUsed = iter.snapUsed /\ jt.start = iter.start /\ jt.gave = w /\ jt.ended = iter.ended
      <3> DEFINE a == IF back THEN q - 1 ELSE q + 1
                 j1 == [iter EXCEPT !.pos = a]
                 j2 == [j1 EXCEPT !.length = iter.length - 1]
      <3>1. a \in Int /\ iter.length - 1 \in Int
        BY <1>1, <1>4
      <3>2. j1.length = iter.length /\ j1.gave = iter.gave
        BY <1>4 DEF Iterator
      <3>3. jt = [j2 EXCEPT !.gave = w]
        BY <1>4, <3>2 DEF w, Iterator
      <3> HIDE DEF a, q, jt
      <3>4. /\ j1 \in Iterator /\ j1.stale = iter.stale /\ j1.backwards = back /\ j1.pos = a
            /\ j1.snapUsed = iter.snapUsed /\ j1.start = iter.start /\ j1.ended = iter.ended
        BY <1>4, <3>1 DEF Iterator
      <3> HIDE DEF j1
      <3>5. /\ j2 \in Iterator /\ j2.stale = iter.stale /\ j2.backwards = back /\ j2.pos = a
            /\ j2.snapUsed = iter.snapUsed /\ j2.start = iter.start /\ j2.ended = iter.ended
        BY <3>1, <3>4 DEF Iterator
      <3> HIDE DEF j2
      <3> QED BY <2>5, <3>3, <3>5 DEF Iterator, a
    <2> HIDE DEF jt
    <2>8. \A i \in 1 .. g + 1 : w[i] = iter.start[i]
      BY <1>4, <2>4, <2>5
    <2>9. ~iter.ended
      BY DEF Advance
    <2>10. iter.snapUsed = n /\ jt.pos = IF back THEN n - (g + 1) ELSE (g + 1) + 1
      BY <1>1, <1>2, <1>4, <2>7 DEF Changed
    <2>11. /\ jt \in Iterator /\ jt.snapUsed = Len(jt.start) /\ Len(jt.gave) <= Len(jt.start)
           /\ jt.pos = IF jt.backwards THEN Len(jt.start) - Len(jt.gave) ELSE Len(jt.gave) + 1
      BY <1>1, <1>4, <2>1, <2>5, <2>7, <2>10
    <2>12. \A i \in 1 .. Len(jt.gave) : jt.gave[i] = jt.start[i]
      BY <2>5, <2>7, <2>8
    <2>13. /\ Len(jt.start) <= Len(h)
           /\ \A i \in 1 .. Len(jt.start) :
                 jt.start[i] = h[IF jt.backwards THEN Len(jt.start) + 1 - i ELSE i].key
      BY <1>1, <1>4, <1>5, <2>7
    <2> QED BY <2>6, <2>7, <2>9, <2>11, <2>12, <2>13 DEF IterOK
  <1> QED BY <1>8, <1>9 DEF h

-----------------------------------------------------------------------------
(* The invariant holds, and every step keeps it.                           *)

(* A stack of one. *)
LEMMA TopIs ==
    ASSUME NEW f, stack = <<f>>
    PROVE  /\ Top = f /\ stack # <<>> /\ Len(stack) = 1 /\ Tail(stack) = <<>>
           /\ \A g : ReplaceTop(g) = <<g>>
  <1>1. \A g : [<<f>> EXCEPT ![1] = g] = <<g>>
    OBVIOUS
  <1> QED BY <1>1 DEF Top, ReplaceTop

(* The table's slots, as numbers. *)
LEMMA SlotsAre ==
    ASSUME NEW o, NEW u, NEW fi, TableOK(entries, o, u, fi)
    PROVE  /\ Slots = 0 .. Size(entries) - 1 /\ Cardinality(Slots) = Size(entries)
           /\ Size(entries) \in Nat /\ Size(entries) >= 2
  BY SizeIs DEF TableOK, TableTypes, Slots, Size

(* A lookup that is over has nothing left to move. *)
LEMMA HoldsEnds ==
    ASSUME NEW e, NEW o, NEW f, f.todo = <<>>
    PROVE  Holds(e, o, <<f>>) = Holds(e, o, <<>>)
  <1>1. <<f>>[Len(<<f>>)] = f /\ <<f>> # <<>>
    OBVIOUS
  <1> QED BY <1>1 DEF Holds

(* A key that was found is the one asked for, as nothing is being moved. *)
LEMMA HitIs ==
    ASSUME TableOK(entries, order, used, fill), NEW f, LookOK(entries, fill, f), f.phase = "equal"
    PROVE  /\ f.todo = <<>> /\ Wanted(f) = f.key
           /\ f.at \in 0 .. Size(entries) - 1 /\ LiveIn(entries, f.at)
           /\ entries[f.at].key = f.key /\ entries[f.at] \in Pair
  <1>1. f \in Frame /\ f.todo \in Seq(Pair)
    BY DEF LookOK, Frame
  <1>2. LiveIn(entries, f.at) /\ entries[f.at].key = Wanted(f) /\ Spot(f) \in Spots(Size(entries))
    BY DEF LookOK, WalkOK
  <1>3. f.at \in 0 .. Size(entries) - 1
    BY <1>2 DEF Spots, Spot
  <1>4. f.todo = <<>>
    <2> SUFFICES ASSUME f.todo # <<>> PROVE FALSE
      OBVIOUS
    <2>1. 1 \in 1 .. Len(f.todo)
      BY <1>1, EmptySeq
    <2>2. entries[f.at].key # f.todo[1].key
      BY <1>2, <1>3, <2>1 DEF LookOK, RoomOK
    <2> QED BY <1>2, <2>2 DEF Wanted
  <1>5. entries[f.at] \in {Empty, Dummy} \cup Pair
    BY <1>3 DEF TableOK, TableTypes
  <1> QED BY <1>2, <1>3, <1>4, <1>5 DEF Wanted, LiveIn

(* A key that was not found is not there, and may go into the slot. *)
LEMMA MissIs ==
    ASSUME TableOK(entries, order, used, fill), NEW f, LookOK(entries, fill, f),
           entries[f.at] = Empty, NEW i, i = IF f.free >= 0 THEN f.free ELSE f.at
    PROVE  /\ i \in 0 .. Size(entries) - 1 /\ ~LiveIn(entries, i)
           /\ Chain(entries, i, Wanted(f))
           /\ \A s \in 0 .. Size(entries) - 1 : LiveIn(entries, s) => entries[s].key # Wanted(f)
           /\ f.todo # <<>> => entries[i] = Empty
           /\ entries[i] \in {Empty, Dummy}
  <1>1. f \in Frame /\ WalkOK(entries, f) /\ RoomOK(entries, fill, f)
    BY DEF LookOK
  <1>2. Size(entries) \in Nat /\ Size(entries) >= 2 /\ Findable(entries)
    BY DEF TableOK, TableTypes
  <1>3. \A s \in 0 .. Size(entries) - 1 : LiveIn(entries, s) => entries[s].key # Wanted(f)
    BY <1>1, <1>2, NotThere
  <1>4. f.at \in 0 .. Size(entries) - 1 /\ f.perturb \in Nat
    <2>1. Spot(f) \in Spots(Size(entries))
      BY <1>1 DEF WalkOK
    <2> QED BY <2>1 DEF Spots, Spot
  <1>5. Chain(entries, f.at, Wanted(f))
    <2>1. \E W \in SUBSET Spots(Size(entries)) : Path(entries, W, Spot(f), Wanted(f))
      BY <1>1 DEF WalkOK
    <2> QED BY <1>4, <2>1 DEF Chain, Spot
  <1>6. CASE f.free >= 0
    <2>1. Kept(entries, f) /\ f.free # -1
      BY <1>1, <1>6 DEF WalkOK
    <2>2. i \in 0 .. Size(entries) - 1 /\ entries[i] = Dummy /\ Chain(entries, i, Wanted(f))
      BY <1>6, <2>1 DEF Kept
    <2>3. f.todo = <<>>
      BY <1>1, <2>2 DEF RoomOK
    <2> QED BY <1>3, <2>2, <2>3 DEF LiveIn
  <1>7. CASE ~(f.free >= 0)
    BY <1>3, <1>4, <1>5, <1>7 DEF LiveIn
  <1> QED BY <1>6, <1>7

(* A new dict. *)
LEMMA InitDict == ASSUME DictInit PROVE DictIInv
  <1>1. MinSize \in Nat /\ MinSize >= 2
    BY DictAssumption
  <1>2. TableOK(entries, order, used, fill)
    BY <1>1, FreshTable DEF DictInit
  <1> QED BY <1>2 DEF DictInit, DictIInv, StackOK, IterOK, Answer

(* A lookup that ends, and leaves the table as it is. *)
LEMMA EndKeeps ==
    ASSUME DictIInv, NEW f, stack = <<f>>, LookOK(entries, fill, f), f.todo = <<>>,
           stack' = <<>>, answer' \in Answer, UNCHANGED <<entries, order, used, fill, iter>>
    PROVE  DictIInv' /\ Holds(entries', order', stack') = Holds(entries, order, stack)
  <1>1. Holds(entries, order, stack) = Holds(entries, order, <<>>)
    BY HoldsEnds
  <1>2. IterOK(iter, Holds(entries, order, <<>>))
    BY <1>1 DEF DictIInv
  <1>3. TableOK(entries, order, used, fill)
    BY DEF DictIInv
  <1> QED BY <1>1, <1>2, <1>3 DEF DictIInv, StackOK, Answer

(* A lookup that goes on. *)
LEMMA ProbeKeeps ==
    ASSUME DictIInv, NEW f, stack = <<f>>, NEW g, stack' = <<g>>, LookOK(entries, fill, g),
           g.todo = f.todo, Untouched
    PROVE  DictIInv' /\ Holds(entries', order', stack') = Holds(entries, order, stack)
  <1>1. <<f>>[Len(<<f>>)] = f /\ <<g>>[Len(<<g>>)] = g /\ <<f>> # <<>> /\ <<g>> # <<>>
    OBVIOUS
  <1>2. Holds(entries, order, <<g>>) = Holds(entries, order, <<f>>)
    BY <1>1 DEF Holds
  <1>3. g \in Frame
    BY DEF LookOK
  <1>4. StackOK(entries, fill, <<g>>)
    BY <1>3 DEF StackOK
  <1> QED BY <1>2, <1>4 DEF DictIInv, Untouched

(* An operation is called. *)
LEMMA CallKeeps ==
    ASSUME Undisturbed, DictIInv, NEW op \in Op,
           NEW k \in Key, NEW v \in Value \cup {Missing}, op \in {"put", "default"} => v \in Value,
           Call(op, k, v)
    PROVE  /\ DictIInv' /\ Holds(entries', order', stack') = Holds(entries, order, stack)
           /\ stack = <<>> /\ \E f \in Frame : stack' = <<f>> /\ f.op = op /\ f.key = k /\ f.value = v
  <1> DEFINE grows == op \in {"put", "default"} /\ loadAtCapacity
             n == IF grows THEN nextDictPow2(3 * used) ELSE Cardinality(Slots)
             todo == IF grows THEN Pairs(order) ELSE <<>>
             f == [op |-> op, key |-> k, value |-> v, todo |-> todo,
                   at |-> 0, perturb |-> 0, free |-> -1, size |-> n, phase |-> "probe"]
             g == Probe(f, n)
             h == Holds(entries, order, <<>>)
  <1>1. TableOK(entries, order, used, fill) /\ StackOK(entries, fill, stack)
        /\ IterOK(iter, Holds(entries, order, stack))
    BY DEF DictIInv
  <1>2. stack = <<>>
    <2>1. Len(stack) < 1
      BY DEF Call, Undisturbed
    <2>2. \A x : Len(<<x>>) = 1
      OBVIOUS
    <2> QED BY <1>1, <2>1, <2>2 DEF StackOK
  <1>3. stack' = <<g>>
    <2>1. stack' = <<g>> \o <<>>
      BY <1>2 DEF Call
    <2> HIDE DEF g
    <2> QED BY <2>1
  <1>4. /\ Slots = 0 .. Size(entries) - 1 /\ Cardinality(Slots) = Size(entries)
        /\ Size(entries) \in Nat /\ Size(entries) >= 2
    BY <1>1, SlotsAre
  <1>5. /\ used \in Nat /\ fill \in Nat /\ Len(order) = used
        /\ order \in Seq(0 .. Size(entries) - 1) /\ DOMAIN order = 1 .. used
        /\ \A i, j \in 1 .. used : order[i] = order[j] => i = j
        /\ \A i \in 1 .. used : LiveIn(entries, order[i])
    <2> DEFINE m == Size(entries)
    <2>1. /\ used \in Nat /\ fill \in Nat /\ Len(order) = used /\ order \in Seq(0 .. m - 1)
          /\ m \in Nat /\ Listed(entries, order)
      BY <1>1 DEF TableOK, TableTypes, Counts
    <2>2. \A i \in 1 .. used : LiveIn(entries, order[i])
      BY <2>1 DEF Listed
    <2>3. \A i, j \in 1 .. used : order[i] = order[j] => i = j
      BY <2>1 DEF Listed
    <2> HIDE DEF m
    <2>4. DOMAIN order = 1 .. used
      BY <2>1
    <2> QED BY <2>1, <2>2, <2>3, <2>4 DEF m
  <1>6. /\ h \in Seq(Pair) /\ Len(h) = used
        /\ \A i \in 1 .. used : h[i] = entries[order[i]] /\ entries[order[i]] \in Pair
    <2>1. StackOK(entries, fill, <<>>) /\ Todo(<<>>) = <<>> /\ Len(<<>>) = 0
      BY DEF StackOK, Todo
    <2>2. /\ Holds(entries, order, <<>>) \in Seq(Pair)
          /\ Len(Holds(entries, order, <<>>)) = Len(order) + Len(Todo(<<>>))
          /\ \A i \in 1 .. Len(order) : /\ Holds(entries, order, <<>>)[i] = entries[order[i]]
                                        /\ entries[order[i]] \in Pair
      BY <1>1, <2>1, HoldsIs
    <2> QED BY <1>5, <2>1, <2>2
  <1> HIDE DEF h
  <1>7. Pairs(order) \in Seq(Pair) /\ Len(Pairs(order)) = used
        /\ \A i \in 1 .. used : Pairs(order)[i] = entries[order[i]]
    BY <1>5, <1>6 DEF Pairs
  <1>8. \A i, j \in 1 .. Len(Pairs(order)) : Pairs(order)[i].key = Pairs(order)[j].key => i = j
    <2> SUFFICES ASSUME NEW i \in 1 .. used, NEW j \in 1 .. used,
                        entries[order[i]].key = entries[order[j]].key
                 PROVE  i = j
      BY <1>7
    <2> DEFINE S == 0 .. Size(entries) - 1
    <2>4. order \in Seq(S) /\ Len(order) = used
      BY <1>5
    <2> HIDE DEF S
    <2>5. order[i] \in S /\ order[j] \in S
      BY <2>4, ElementOfSeq
    <2>1. order[i] \in 0 .. Size(entries) - 1 /\ order[j] \in 0 .. Size(entries) - 1
      BY <2>5 DEF S
    <2>2. KeysApart(entries)
      BY <1>1 DEF TableOK
    <2>3. order[i] = order[j]
      BY <1>5, <2>1, <2>2 DEF KeysApart
    <2> QED BY <1>5, <2>3
  <1>9. Pairs(order) = h
    BY <1>5, <1>6, <1>7 DEF Holds, Pairs
  <1>10. answer' = Missing /\ iter' = iter
    BY DEF Call
  <1>11. CASE grows
    <2>1. n \in Nat /\ n >= 3 * used /\ n >= 2
      <3>1. 3 * used \in Nat
        BY <1>5
      <3> QED BY <1>11, <3>1, PowIs
    <2> DEFINE d == [s \in 0 .. n - 1 |-> Empty]
    <2>2. entries' = d /\ order' = <<>> /\ used' = 0 /\ fill' = 0
      BY <1>11 DEF Call
    <2>3. todo = Pairs(order)
      BY <1>11
    <2>4. op \in {"put", "default"} /\ v \in Value
      BY <1>11
    <2> HIDE DEF n, grows, g, todo, h
    <2>5. f \in Frame
      BY <1>7, <2>1, <2>3 DEF Frame
    <2>6. f.op = op /\ f.value = v /\ f.todo = todo /\ f.key = k
      OBVIOUS
    <2> HIDE DEF f
    <2>7. TableOK(d, <<>>, 0, 0) /\ Size(d) = n /\ \A s \in 0 .. n - 1 : d[s] = Empty
      BY <2>1, FreshTable
    <2> HIDE DEF d
    <2>8. \A s \in 0 .. Size(d) - 1 : d[s] # Dummy /\ ~LiveIn(d, s)
      BY <2>7, Distinct DEF LiveIn
    <2>9. 0 + Len(todo) + 1 < Size(d)
      BY <1>5, <1>7, <2>1, <2>3, <2>7
    <2>10. RoomOK(d, 0, f)
      BY <1>8, <2>3, <2>4, <2>6, <2>8, <2>9 DEF RoomOK
    <2>11. LookOK(d, 0, g) /\ g.todo = todo /\ g.op = f.op /\ g.key = f.key /\ g.value = f.value
      BY <2>1, <2>5, <2>6, <2>7, <2>10, LookBegins DEF g
    <2>12. StackOK(d, 0, <<g>>)
      BY <2>11 DEF StackOK, LookOK
    <2>13. Holds(d, <<>>, <<g>>) = h
      <3>1. <<g>>[Len(<<g>>)] = g /\ <<g>> # <<>>
        OBVIOUS
      <3>2. [i \in DOMAIN <<>> |-> d[<<>>[i]]] = <<>>
        OBVIOUS
      <3>3. <<>> \o h = h
        BY <1>6
      <3> QED BY <1>9, <2>3, <2>11, <3>1, <3>2, <3>3 DEF Holds
    <2>14. IterOK(iter, h)
      BY <1>1, <1>2 DEF h
    <2> QED BY <1>2, <1>3, <1>10, <2>2, <2>6, <2>7, <2>11, <2>12, <2>13, <2>14 DEF DictIInv, LookOK, Answer, h
  <1>12. CASE ~grows
    <2>1. entries' = entries /\ order' = order /\ used' = used /\ fill' = fill
      BY <1>12 DEF Call
    <2>2. n = Size(entries) /\ todo = <<>>
      BY <1>4, <1>12
    <2>3. op \in {"put", "default"} => v \in Value /\ fill + 0 + 1 < Size(entries)
      <3> SUFFICES ASSUME op \in {"put", "default"} PROVE fill + 0 + 1 < Size(entries)
        OBVIOUS
      <3>1. ~(fill >= (2 * Size(entries)) \div 3)
        BY <1>4, <1>12 DEF loadAtCapacity, usableFraction
      <3> DEFINE m == Size(entries)
                 q == (2 * m) \div 3
      <3>2. m \in Nat /\ m >= 2 /\ fill \in Nat /\ ~(fill >= q)
        BY <1>4, <1>5, <3>1
      <3> HIDE DEF m
      <3>3. q \in Int /\ 3 * q <= 2 * m
        BY <3>2
      <3> HIDE DEF q
      <3>4. fill + 0 + 1 < m
        BY <3>2, <3>3
      <3> QED BY <3>4 DEF m
    <2> HIDE DEF n, grows, g, todo, h
    <2>4. f \in Frame
      BY <1>4, <2>2 DEF Frame
    <2>5. f.op = op /\ f.value = v /\ f.todo = <<>> /\ f.key = k
      BY <2>2
    <2> HIDE DEF f
    <2>6. Len(<<>>) = 0
      OBVIOUS
    <2>7. RoomOK(entries, fill, f)
      BY <2>3, <2>5, <2>6 DEF RoomOK
    <2>8. LookOK(entries, fill, g) /\ g.todo = <<>> /\ g.op = f.op /\ g.key = f.key /\ g.value = f.value
      BY <1>4, <2>2, <2>4, <2>5, <2>7, LookBegins DEF g
    <2>9. StackOK(entries, fill, <<g>>)
      BY <2>8 DEF StackOK, LookOK
    <2>10. Holds(entries, order, <<g>>) = h
      BY <2>8, HoldsEnds DEF h
    <2>11. IterOK(iter, h)
      BY <1>1, <1>2 DEF h
    <2> QED BY <1>1, <1>2, <1>3, <1>10, <2>1, <2>5, <2>8, <2>9, <2>10, <2>11 DEF DictIInv, LookOK, Answer, h
  <1> QED BY <1>11, <1>12

(* clear of a table that has no dummies leaves every slot empty. *)
LEMMA ClearKeeps == ASSUME Undisturbed, DictIInv, ClearAll PROVE DictIInv'
  <1>1. TableOK(entries, order, used, fill) /\ StackOK(entries, fill, stack)
        /\ IterOK(iter, Holds(entries, order, stack))
    BY DEF DictIInv
  <1>2. stack = <<>>
    <2>1. Len(stack) < 1
      BY DEF ClearAll, Undisturbed
    <2>2. \A x : Len(<<x>>) = 1
      OBVIOUS
    <2> QED BY <1>1, <2>1, <2>2 DEF StackOK
  <1> DEFINE n == Size(entries)
             d == [s \in 0 .. n - 1 |-> Empty]
  <1>3. n \in Nat /\ n >= 2 /\ Slots = 0 .. n - 1
    BY <1>1, SlotsAre
  <1>4. entries' = d /\ order' = <<>> /\ used' = 0 /\ fill' = 0 /\ answer' = Missing
        /\ stack' = stack /\ iter' = iter
    <2>1. \A s \in Slots : entries[s] # Dummy
      BY DEF ClearAll, Undisturbed
    <2> QED BY <1>3, <2>1 DEF ClearAll, Live
  <1> HIDE DEF n
  <1>5. TableOK(d, <<>>, 0, 0)
    BY <1>3, FreshTable
  <1>6. Holds(d, <<>>, <<>>) = <<>>
    <2>1. [i \in DOMAIN <<>> |-> d[<<>>[i]]] = <<>>
      OBVIOUS
    <2> QED BY <2>1 DEF Holds
  <1>7. IterOK(iter, <<>>)
    <2> DEFINE h == Holds(entries, order, stack)
    <2>1. h \in Seq(Pair) /\ IterOK(iter, h)
      BY <1>1, HoldsIs
    <2> HIDE DEF h
    <2>2. Len(h) \in Nat
      BY <2>1
    <2>3. <<>> \in Seq(Pair) /\ Len(<<>>) <= Len(h) /\ \A i \in 1 .. Len(<<>>) : <<>>[i].key = h[i].key
      BY <2>2
    <2> QED BY <2>1, <2>3, IterKeeps
  <1> QED BY <1>2, <1>4, <1>5, <1>6, <1>7 DEF DictIInv, StackOK, Answer

(* The next pair is put into the new table. *)
LEMMA ReinsertKeeps ==
    ASSUME DictIInv, NEW f, stack = <<f>>, LookOK(entries, fill, f), NEW i,
           entries[f.at] = Empty, i = IF f.free >= 0 THEN f.free ELSE f.at, Reinsert(i)
    PROVE  DictIInv' /\ Holds(entries', order', stack') = Holds(entries, order, stack)
  <1> DEFINE p == f.todo[1]
             r == Tail(f.todo)
             d == [entries EXCEPT ![i] = p]
             g0 == [f EXCEPT !.todo = r]
             g == Probe(g0, Size(entries))
             n == Size(entries)
             h == Holds(entries, order, stack)
             o2 == Append(order, i)
  <1>1. TableOK(entries, order, used, fill) /\ StackOK(entries, fill, stack)
        /\ IterOK(iter, h) /\ answer \in Answer
    BY DEF DictIInv
  <1>2. /\ Slots = 0 .. n - 1 /\ Cardinality(Slots) = n /\ n \in Nat /\ n >= 2
    BY <1>1, SlotsAre
  <1>3. Top = f /\ \A x : ReplaceTop(x) = <<x>>
    BY TopIs
  <1>4. /\ f \in Frame /\ f.todo \in Seq(Pair) /\ f.todo # <<>> /\ RoomOK(entries, fill, f)
        /\ f.op \in {"put", "default"} /\ f.value \in Value
        /\ fill + Len(f.todo) + 1 < n
    BY <1>3 DEF LookOK, RoomOK, Reinsert, Frame
  <1>5. /\ entries' = d /\ order' = o2 /\ used' = used + 1 /\ fill' = fill + 1
        /\ stack' = <<g>> /\ iter' = iter /\ answer' = answer
    BY <1>2, <1>3 DEF Reinsert
  <1>6. /\ Len(f.todo) \in Nat /\ Len(f.todo) > 0 /\ p \in Pair /\ r \in Seq(Pair)
        /\ Len(r) = Len(f.todo) - 1 /\ \A j \in 1 .. Len(r) : r[j] = f.todo[j + 1]
    BY <1>4, EmptySeq, HeadTailProperties
  <1>7. Wanted(f) = p.key
    BY <1>4 DEF Wanted
  <1>8. used \in Nat /\ fill \in Nat /\ order \in Seq(0 .. n - 1)
    BY <1>1 DEF TableOK, TableTypes
  <1> HIDE DEF p, r, n, g, o2, h
  <1>9. /\ i \in 0 .. n - 1 /\ ~LiveIn(entries, i) /\ Chain(entries, i, p.key)
        /\ entries[i] = Empty
        /\ \A s \in 0 .. n - 1 : LiveIn(entries, s) => entries[s].key # p.key
    BY <1>1, <1>4, <1>7, MissIs DEF n
  <1>10. fill + 1 < n /\ entries[i] # Dummy
    BY <1>4, <1>6, <1>8, <1>9, <1>2, Distinct
  <1>11. /\ TableOK(d, o2, used + 1, fill + 1) /\ Size(d) = n
         /\ \A s \in 0 .. n - 1 : d[s] = IF s = i THEN p ELSE entries[s]
    <2>1. /\ TableOK(d, Append(order, i), used + 1, IF entries[i] = Dummy THEN fill ELSE fill + 1)
          /\ Size(d) = Size(entries)
          /\ \A s \in 0 .. Size(entries) - 1 : d[s] = IF s = i THEN p ELSE entries[s]
      BY <1>1, <1>6, <1>9, <1>10, TableGains DEF n
    <2> QED BY <1>10, <2>1 DEF n, o2
  <1> HIDE DEF d
  <1>12. /\ g0 \in Frame /\ g0.todo = r /\ g0.op = f.op /\ g0.value = f.value
    BY <1>4, <1>6 DEF Frame
  <1> HIDE DEF g0
  <1>13. \A s \in 0 .. n - 1 : LiveIn(d, s) <=> s = i \/ LiveIn(entries, s)
    BY <1>6, <1>11, Distinct DEF LiveIn
  <1>14. RoomOK(d, fill + 1, g0)
    <2>1. (fill + 1) + Len(r) + 1 < n
      BY <1>4, <1>6, <1>8
    <2>2. \A s \in 0 .. n - 1 : d[s] # Dummy
      BY <1>4, <1>6, <1>11, Distinct DEF RoomOK, n
    <2>3. ASSUME NEW j \in 1 .. Len(r), NEW l \in 1 .. Len(r), r[j].key = r[l].key PROVE j = l
      <3>1. j + 1 \in 1 .. Len(f.todo) /\ l + 1 \in 1 .. Len(f.todo)
        BY <1>6
      <3>2. f.todo[j + 1].key = f.todo[l + 1].key
        BY <1>6, <2>3
      <3>3. j + 1 = l + 1
        BY <1>4, <3>1, <3>2 DEF RoomOK
      <3> QED BY <3>3
    <2>4. ASSUME NEW j \in 1 .. Len(r), NEW s \in 0 .. n - 1, LiveIn(d, s) PROVE d[s].key # r[j].key
      <3>1. j + 1 \in 1 .. Len(f.todo) /\ 1 \in 1 .. Len(f.todo) /\ j + 1 # 1 /\ r[j] = f.todo[j + 1]
        BY <1>6
      <3>2. CASE s = i
        <4>1. f.todo[1].key # f.todo[j + 1].key
          BY <1>4, <3>1 DEF RoomOK
        <4> QED BY <1>11, <3>1, <3>2, <4>1 DEF p
      <3>3. CASE s # i
        <4>1. LiveIn(entries, s)
          BY <1>13, <2>4, <3>3
        <4>2. entries[s].key # f.todo[j + 1].key
          BY <1>4, <3>1, <4>1 DEF RoomOK, n
        <4> QED BY <1>11, <3>1, <3>3, <4>2
      <3> QED BY <3>2, <3>3
    <2> QED BY <1>4, <1>11, <1>12, <2>1, <2>2, <2>3, <2>4 DEF RoomOK
  <1>15. LookOK(d, fill + 1, g) /\ g.todo = r
    <2>1. Size(d) \in Nat /\ Size(d) >= 2
      BY <1>2, <1>11
    <2> QED BY <1>11, <1>12, <1>14, <2>1, LookBegins DEF g, n
  <1>16. StackOK(d, fill + 1, <<g>>)
    BY <1>15 DEF StackOK, LookOK
  <1>17. Holds(d, o2, <<g>>) = h
    <2> DEFINE h2 == Holds(d, o2, <<g>>)
    <2>1. Todo(stack) = f.todo /\ Todo(<<g>>) = r
      <3>1. <<f>>[Len(<<f>>)] = f /\ <<f>> # <<>> /\ <<g>>[Len(<<g>>)] = g /\ <<g>> # <<>>
        OBVIOUS
      <3> QED BY <1>15, <3>1 DEF Todo
    <2>2. /\ Len(order) \in Nat /\ h \in Seq(Pair) /\ Len(h) = Len(order) + Len(f.todo)
          /\ \A j \in 1 .. Len(order) : h[j] = entries[order[j]]
          /\ \A j \in 1 .. Len(f.todo) : h[Len(order) + j] = f.todo[j]
      <3>1. /\ Len(order) \in Nat /\ h \in Seq(Pair) /\ Len(h) = Len(order) + Len(Todo(stack))
            /\ \A j \in 1 .. Len(order) : h[j] = entries[order[j]]
            /\ \A j \in 1 .. Len(Todo(stack)) : h[Len(order) + j] = Todo(stack)[j]
        BY <1>1, HoldsIs DEF h
      <3> QED BY <2>1, <3>1
    <2>3. /\ h2 \in Seq(Pair) /\ Len(h2) = Len(o2) + Len(r)
          /\ \A j \in 1 .. Len(o2) : h2[j] = d[o2[j]]
          /\ \A j \in 1 .. Len(r) : h2[Len(o2) + j] = r[j]
      <3>1. /\ h2 \in Seq(Pair) /\ Len(h2) = Len(o2) + Len(Todo(<<g>>))
            /\ \A j \in 1 .. Len(o2) : h2[j] = d[o2[j]]
            /\ \A j \in 1 .. Len(Todo(<<g>>)) : h2[Len(o2) + j] = Todo(<<g>>)[j]
        BY <1>11, <1>16, HoldsIs
      <3> QED BY <2>1, <3>1
    <2> HIDE DEF h2
    <2>4. Len(o2) = Len(order) + 1 /\ o2[Len(order) + 1] = i /\ \A j \in 1 .. Len(order) : o2[j] = order[j]
      BY <1>8, <1>9 DEF o2
    <2>5. Len(h2) = Len(h)
      <3>1. Len(h2) = (Len(order) + 1) + Len(r)
        BY <2>3, <2>4
      <3>2. Len(order) \in Nat /\ Len(h) = Len(order) + Len(f.todo)
        BY <2>2
      <3>3. Len(r) = Len(f.todo) - 1 /\ Len(f.todo) \in Nat
        BY <1>6
      <3> DEFINE lo == Len(order)
                 lr == Len(r)
                 lt == Len(f.todo)
      <3>4. lo \in Nat /\ lt \in Nat /\ lr = lt - 1
        BY <3>2, <3>3
      <3> HIDE DEF lo, lr, lt
      <3>5. (lo + 1) + lr = lo + lt
        BY <3>4
      <3> QED BY <3>1, <3>2, <3>5 DEF lo, lr, lt
    <2>6. ASSUME NEW j \in 1 .. Len(h) PROVE h2[j] = h[j]
      <3>1. CASE j <= Len(order)
        <4>1. j \in 1 .. Len(order) /\ j \in 1 .. Len(o2)
          BY <2>2, <2>4, <3>1
        <4>2. order[j] \in 0 .. n - 1 /\ LiveIn(entries, order[j])
          <5>1. Listed(entries, order)
            BY <1>1 DEF TableOK
          <5>2. order[j] \in 0 .. n - 1
            <6> DEFINE S == 0 .. n - 1
            <6>1. order \in Seq(S)
              BY <1>8
            <6> HIDE DEF S
            <6>2. order[j] \in S
              BY <4>1, <6>1
            <6> QED BY <6>2 DEF S
          <5> QED BY <4>1, <5>1, <5>2 DEF Listed
        <4>3. d[order[j]] = entries[order[j]]
          BY <1>9, <1>11, <4>2
        <4> QED BY <2>2, <2>3, <2>4, <4>1, <4>3
      <3>2. CASE j = Len(order) + 1
        <4>1. j \in 1 .. Len(o2) /\ 1 \in 1 .. Len(f.todo)
          BY <1>6, <2>2, <2>4, <3>2
        <4>2. h2[j] = p
          BY <1>9, <1>11, <2>3, <2>4, <3>2, <4>1
        <4>3. h[j] = f.todo[1]
          BY <2>2, <3>2, <4>1
        <4> QED BY <4>2, <4>3 DEF p
      <3>3. CASE j > Len(order) + 1
        <4> DEFINE l == j - (Len(order) + 1)
        <4>1. l \in 1 .. Len(r) /\ l + 1 \in 1 .. Len(f.todo) /\ Len(o2) + l = j
              /\ Len(order) + (l + 1) = j
          BY <1>6, <2>2, <2>4, <3>3
        <4>2. h2[j] = r[l]
          BY <2>3, <4>1
        <4>3. h[j] = f.todo[l + 1]
          BY <2>2, <4>1
        <4>4. r[l] = f.todo[l + 1]
          BY <1>6, <4>1
        <4> QED BY <4>2, <4>3, <4>4
      <3>4. Len(order) \in Nat /\ j \in Nat
        BY <2>2
      <3> QED BY <3>1, <3>2, <3>3, <3>4
    <2> QED BY <2>2, <2>3, <2>5, <2>6, SeqEqual DEF h2
  <1> QED BY <1>1, <1>5, <1>11, <1>16, <1>17 DEF DictIInv, h

(* What the dict holds when nothing is being moved: the pairs in the slots *)
(* that are listed, and no key twice.                                      *)
LEMMA HeldAtEnd ==
    ASSUME DictIInv, Todo(stack) = <<>>, NEW h, h = Holds(entries, order, stack)
    PROVE  /\ h \in Seq(Pair) /\ Len(order) \in Nat /\ Len(h) = Len(order)
           /\ order \in Seq(0 .. Size(entries) - 1) /\ DOMAIN order = 1 .. Len(order)
           /\ \A j \in 1 .. Len(order) :
                 /\ order[j] \in 0 .. Size(entries) - 1 /\ LiveIn(entries, order[j])
                 /\ h[j] = entries[order[j]]
           /\ \A i, j \in 1 .. Len(order) : h[i].key = h[j].key => i = j
           /\ \A s \in 0 .. Size(entries) - 1 :
                 LiveIn(entries, s) => \E j \in 1 .. Len(order) : order[j] = s
  <1>1. /\ TableOK(entries, order, used, fill) /\ StackOK(entries, fill, stack)
        /\ Listed(entries, order) /\ KeysApart(entries)
    BY DEF DictIInv, TableOK
  <1>2. Len(Todo(stack)) = 0
    OBVIOUS
  <1>3. /\ h \in Seq(Pair) /\ Len(order) \in Nat /\ Len(h) = Len(order)
        /\ \A j \in 1 .. Len(order) : h[j] = entries[order[j]]
    <2>1. /\ h \in Seq(Pair) /\ Len(order) \in Nat /\ Len(h) = Len(order) + Len(Todo(stack))
          /\ \A j \in 1 .. Len(order) : h[j] = entries[order[j]]
      BY <1>1, HoldsIs
    <2> QED BY <1>2, <2>1
  <1> DEFINE S == 0 .. Size(entries) - 1
  <1>4. order \in Seq(S)
    BY <1>1 DEF TableOK, TableTypes
  <1> HIDE DEF S
  <1>5. DOMAIN order = 1 .. Len(order) /\ \A j \in 1 .. Len(order) : order[j] \in S
    BY <1>4
  <1>6. \A j \in 1 .. Len(order) : LiveIn(entries, order[j])
    BY <1>1 DEF Listed
  <1>7. ASSUME NEW i \in 1 .. Len(order), NEW j \in 1 .. Len(order), h[i].key = h[j].key PROVE i = j
    <2>1. order[i] = order[j]
      BY <1>1, <1>3, <1>5, <1>6, <1>7 DEF KeysApart, S
    <2> QED BY <1>1, <2>1 DEF Listed
  <1>8. \A s \in S : LiveIn(entries, s) => \E j \in 1 .. Len(order) : order[j] = s
    BY <1>1 DEF Listed, S
  <1> QED BY <1>3, <1>4, <1>5, <1>6, <1>7, <1>8 DEF S

(* A lookup that is not moving anything. *)
LEMMA TodoIs == ASSUME NEW f, stack = <<f>> PROVE Todo(stack) = f.todo
  <1>1. <<f>>[Len(<<f>>)] = f /\ <<f>> # <<>>
    OBVIOUS
  <1> QED BY <1>1 DEF Todo

(* A key that was found has a place in what the dict holds, and one only. *)
LEMMA HitPlace ==
    ASSUME DictIInv, NEW f, stack = <<f>>, LookOK(entries, fill, f), f.phase = "equal",
           NEW h, h = Holds(entries, order, stack)
    PROVE  \E q \in 1 .. Len(order) :
              /\ order[q] = f.at /\ h[q] = entries[f.at]
              /\ \A j \in 1 .. Len(order) : /\ order[j] = f.at <=> j = q
                                            /\ h[j].key = f.key <=> j = q
  <1>1. TableOK(entries, order, used, fill) /\ Listed(entries, order)
    BY DEF DictIInv, TableOK
  <1>2. f.todo = <<>> /\ f.at \in 0 .. Size(entries) - 1 /\ LiveIn(entries, f.at) /\ entries[f.at].key = f.key
    BY <1>1, HitIs
  <1>3. /\ \A j \in 1 .. Len(order) : h[j] = entries[order[j]]
        /\ \A i, j \in 1 .. Len(order) : h[i].key = h[j].key => i = j
        /\ \A s \in 0 .. Size(entries) - 1 :
              LiveIn(entries, s) => \E j \in 1 .. Len(order) : order[j] = s
    BY <1>2, TodoIs, HeldAtEnd
  <1>4. PICK q \in 1 .. Len(order) : order[q] = f.at
    BY <1>2, <1>3
  <1>5. h[q] = entries[f.at] /\ h[q].key = f.key
    BY <1>2, <1>3, <1>4
  <1>6. ASSUME NEW j \in 1 .. Len(order)
        PROVE  (order[j] = f.at <=> j = q) /\ (h[j].key = f.key <=> j = q)
    BY <1>1, <1>3, <1>4, <1>5 DEF Listed
  <1> QED BY <1>4, <1>5, <1>6

(* A key that is not there is put in. *)
LEMMA InsertKeeps ==
    ASSUME DictIInv, NEW f, stack = <<f>>, LookOK(entries, fill, f), NEW i,
           entries[f.at] = Empty, i = IF f.free >= 0 THEN f.free ELSE f.at, Insert(i),
           NEW h, h = Holds(entries, order, stack)
    PROVE  /\ DictIInv'
           /\ Holds(entries', order', stack') = Append(h, [key |-> f.key, value |-> f.value])
           /\ \A j \in 1 .. Len(h) : h[j].key # f.key
  <1> DEFINE p == [key |-> f.key, value |-> f.value]
             d == [entries EXCEPT ![i] = p]
             n == Size(entries)
             o2 == Append(order, i)
             fi2 == IF entries[i] = Dummy THEN fill ELSE fill + 1
             h2 == Holds(d, o2, <<>>)
  <1>1. TableOK(entries, order, used, fill) /\ StackOK(entries, fill, stack) /\ IterOK(iter, h)
    BY DEF DictIInv
  <1>2. Top = f /\ Tail(stack) = <<>>
    BY TopIs
  <1>3. /\ f \in Frame /\ f.todo = <<>> /\ f.op \in {"put", "default"} /\ RoomOK(entries, fill, f)
    BY <1>2 DEF LookOK, Insert, Return
  <1>4. f.value \in Value /\ f.key \in Key /\ p \in Pair /\ p.key = f.key /\ Wanted(f) = f.key
    BY <1>3 DEF RoomOK, Frame, Pair, Wanted
  <1>5. fill \in Nat /\ fill + 1 < n
    <2>1. fill + Len(f.todo) + 1 < n /\ Len(<<>>) = 0 /\ fill \in Nat
      BY <1>1, <1>3 DEF RoomOK, TableOK, TableTypes
    <2> QED BY <1>3, <2>1
  <1>6. /\ entries' = d /\ order' = o2 /\ used' = used + 1 /\ fill' = fi2 /\ stack' = <<>>
        /\ iter' = IF iter = NoIter THEN NoIter ELSE [iter EXCEPT !.stale = TRUE]
        /\ answer' \in {Missing, f.value}
    BY <1>2 DEF Insert, Return, Bump
  <1>7. /\ i \in 0 .. n - 1 /\ ~LiveIn(entries, i) /\ Chain(entries, i, f.key)
        /\ \A s \in 0 .. n - 1 : LiveIn(entries, s) => entries[s].key # f.key
    <2>1. /\ i \in 0 .. n - 1 /\ ~LiveIn(entries, i) /\ Chain(entries, i, Wanted(f))
          /\ \A s \in 0 .. n - 1 : LiveIn(entries, s) => entries[s].key # Wanted(f)
      BY <1>1, MissIs
    <2> QED BY <1>4, <2>1
  <1> HIDE DEF p, n
  <1>8. /\ TableOK(d, o2, used + 1, fi2) /\ Size(d) = n
        /\ \A s \in 0 .. n - 1 : d[s] = IF s = i THEN p ELSE entries[s]
    BY <1>1, <1>4, <1>5, <1>7, TableGains DEF n
  <1> HIDE DEF d, fi2
  <1>9. /\ h \in Seq(Pair) /\ Len(order) \in Nat /\ Len(h) = Len(order) /\ order \in Seq(0 .. n - 1)
        /\ \A j \in 1 .. Len(order) :
              order[j] \in 0 .. n - 1 /\ LiveIn(entries, order[j]) /\ h[j] = entries[order[j]]
    BY <1>3, TodoIs, HeldAtEnd DEF n
  <1>10. \A j \in 1 .. Len(h) : h[j].key # f.key
    BY <1>7, <1>9
  <1>11. h2 = Append(h, p)
    <2>1. StackOK(d, fi2, <<>>) /\ Todo(<<>>) = <<>> /\ Len(<<>>) = 0
      BY DEF StackOK, Todo
    <2> HIDE DEF o2
    <2>2. /\ h2 \in Seq(Pair) /\ Len(o2) \in Nat /\ Len(h2) = Len(o2) + Len(Todo(<<>>))
          /\ \A j \in 1 .. Len(o2) : h2[j] = d[o2[j]]
      BY <1>8, <2>1, HoldsIs
    <2> HIDE DEF h2
    <2>3. Len(o2) = Len(order) + 1 /\ o2[Len(order) + 1] = i /\ \A j \in 1 .. Len(order) : o2[j] = order[j]
      BY <1>7, <1>9 DEF o2
    <2>4. /\ Append(h, p) \in Seq(Pair) /\ Len(Append(h, p)) = Len(order) + 1
          /\ Append(h, p)[Len(order) + 1] = p /\ \A j \in 1 .. Len(order) : Append(h, p)[j] = h[j]
      BY <1>4, <1>9
    <2>5. Len(h2) = Len(order) + 1
      BY <2>1, <2>2, <2>3
    <2>6. ASSUME NEW j \in 1 .. Len(order) + 1 PROVE h2[j] = Append(h, p)[j]
      <3>1. CASE j = Len(order) + 1
        <4>1. j \in 1 .. Len(o2) /\ o2[j] = i
          BY <1>9, <2>3, <3>1
        <4>2. d[i] = p /\ Append(h, p)[j] = p
          BY <1>7, <1>8, <2>4, <3>1
        <4> QED BY <2>2, <4>1, <4>2
      <3>2. CASE j \in 1 .. Len(order)
        <4>1. order[j] \in 0 .. n - 1 /\ order[j] # i /\ h[j] = entries[order[j]]
          BY <1>7, <1>9, <3>2
        <4>2. j \in 1 .. Len(o2)
          BY <2>3
        <4>3. o2[j] = order[j] /\ Append(h, p)[j] = h[j]
          BY <2>3, <2>4, <3>2
        <4>4. d[order[j]] = entries[order[j]]
          BY <1>8, <4>1
        <4> QED BY <2>2, <4>1, <4>2, <4>3, <4>4
      <3>3. j = Len(order) + 1 \/ j \in 1 .. Len(order)
        BY <1>9
      <3> QED BY <3>1, <3>2, <3>3
    <2> QED BY <2>2, <2>4, <2>5, <2>6, SeqEqual
  <1>12. IterOK(iter', h2)
    BY <1>1, <1>6, IterStale
  <1>13. answer' \in Answer
    BY <1>4, <1>6 DEF Answer
  <1> HIDE DEF h2
  <1>14. DictIInv'
    BY <1>6, <1>8, <1>12, <1>13 DEF DictIInv, StackOK, h2
  <1> QED BY <1>6, <1>10, <1>11, <1>14 DEF p, h2

(* Another value is put under a key that is there. *)
LEMMA ReplaceKeeps ==
    ASSUME DictIInv, NEW f, stack = <<f>>, LookOK(entries, fill, f), f.phase = "equal",
           Replace(f.at), NEW h, h = Holds(entries, order, stack)
    PROVE  /\ DictIInv'
           /\ \E q \in 1 .. Len(h) :
                 /\ \A j \in 1 .. Len(h) : h[j].key = f.key <=> j = q
                 /\ Holds(entries', order', stack') =
                       [j \in 1 .. Len(h) |-> IF j = q THEN [key |-> f.key, value |-> f.value] ELSE h[j]]
  <1> DEFINE i == f.at
             p == [key |-> f.key, value |-> f.value]
             d == [entries EXCEPT ![i] = p]
             n == Size(entries)
             h2 == Holds(d, order, <<>>)
  <1>1. TableOK(entries, order, used, fill) /\ StackOK(entries, fill, stack) /\ IterOK(iter, h)
    BY DEF DictIInv
  <1>2. Top = f /\ Tail(stack) = <<>>
    BY TopIs
  <1>3. f \in Frame /\ f.op = "put" /\ RoomOK(entries, fill, f)
    BY <1>2 DEF LookOK, Replace
  <1>4. /\ f.todo = <<>> /\ i \in 0 .. n - 1 /\ LiveIn(entries, i) /\ entries[i].key = f.key
        /\ entries[i] \in Pair
    BY <1>1, HitIs
  <1>5. f.value \in Value /\ p \in Pair /\ p.key = f.key
    BY <1>3 DEF RoomOK, Frame, Pair
  <1>6. /\ entries' = d /\ order' = order /\ used' = used /\ fill' = fill /\ stack' = <<>>
        /\ iter' = iter /\ answer' = Missing
    <2>1. Live(i)
      BY <1>4 DEF Live, LiveIn
    <2>2. entries' = [entries EXCEPT ![i].value = f.value]
      BY <1>2, <2>1 DEF Replace
    <2>3. [entries[i] EXCEPT !.value = f.value] = p
      BY <1>4 DEF Pair
    <2>4. [entries EXCEPT ![i].value = f.value] = [entries EXCEPT ![i] = [entries[i] EXCEPT !.value = f.value]]
      OBVIOUS
    <2> QED BY <1>2, <2>2, <2>3, <2>4 DEF Replace, Return
  <1> HIDE DEF p, n, i
  <1>7. /\ TableOK(d, order, used, fill) /\ Size(d) = n
        /\ \A s \in 0 .. n - 1 : d[s] = IF s = i THEN p ELSE entries[s]
    BY <1>1, <1>4, <1>5, TableKeeps DEF n
  <1> HIDE DEF d
  <1>8. /\ h \in Seq(Pair) /\ Len(order) \in Nat /\ Len(h) = Len(order)
        /\ \A j \in 1 .. Len(order) : order[j] \in 0 .. n - 1 /\ h[j] = entries[order[j]]
    BY <1>4, TodoIs, HeldAtEnd DEF n
  <1>16. \E q \in 1 .. Len(order) :
            /\ order[q] = f.at /\ h[q] = entries[f.at]
            /\ \A j \in 1 .. Len(order) : /\ order[j] = f.at <=> j = q
                                          /\ h[j].key = f.key <=> j = q
    BY HitPlace
  <1>9. PICK q \in 1 .. Len(order) :
          \A j \in 1 .. Len(order) : (order[j] = i <=> j = q) /\ (h[j].key = f.key <=> j = q)
    BY <1>16 DEF i
  <1>10. /\ h2 \in Seq(Pair) /\ Len(h2) = Len(h)
         /\ \A j \in 1 .. Len(h) : h2[j] = IF j = q THEN p ELSE h[j]
    <2>1. StackOK(d, fill, <<>>) /\ Todo(<<>>) = <<>> /\ Len(<<>>) = 0
      BY DEF StackOK, Todo
    <2>2. /\ h2 \in Seq(Pair) /\ Len(h2) = Len(order) + Len(Todo(<<>>))
          /\ \A j \in 1 .. Len(order) : h2[j] = d[order[j]]
      BY <1>7, <2>1, HoldsIs
    <2> HIDE DEF h2
    <2>3. \A j \in 1 .. Len(order) : h2[j] = IF j = q THEN p ELSE h[j]
      BY <1>7, <1>8, <1>9, <2>2
    <2> QED BY <1>8, <2>1, <2>2, <2>3
  <1> HIDE DEF h2
  <1>11. IterOK(iter, h2)
    <2>1. \A j \in 1 .. Len(h) : h2[j].key = h[j].key
      BY <1>5, <1>8, <1>9, <1>10
    <2>2. Len(h2) <= Len(h) /\ \A j \in 1 .. Len(h2) : h2[j].key = h[j].key
      <3>1. Len(h) \in Nat /\ Len(h2) = Len(h)
        BY <1>8, <1>10
      <3> QED BY <2>1, <3>1
    <2> QED BY <1>1, <1>8, <1>10, <2>2, IterKeeps
  <1>12. DictIInv'
    BY <1>6, <1>7, <1>11 DEF DictIInv, StackOK, Answer, h2
  <1>13. h2 = [j \in 1 .. Len(h) |-> IF j = q THEN p ELSE h[j]]
    BY <1>10
  <1>14. q \in 1 .. Len(h) /\ (\A j \in 1 .. Len(h) : h[j].key = f.key <=> j = q)
    BY <1>8, <1>9
  <1>15. Holds(entries', order', stack') = h2
    BY <1>6 DEF h2
  <1> QED BY <1>12, <1>13, <1>14, <1>15 DEF p

(* A key that is there is taken out. *)
LEMMA DeleteKeeps ==
    ASSUME DictIInv, NEW f, stack = <<f>>, LookOK(entries, fill, f), f.phase = "equal",
           Delete(f.at), NEW h, h = Holds(entries, order, stack)
    PROVE  /\ DictIInv'
           /\ \E q \in 1 .. Len(h) :
                 /\ \A j \in 1 .. Len(h) : h[j].key = f.key <=> j = q
                 /\ Holds(entries', order', stack') = RemoveAt(h, q)
  <1> DEFINE i == f.at
             d == [entries EXCEPT ![i] = Dummy]
             n == Size(entries)
  <1>1. TableOK(entries, order, used, fill) /\ StackOK(entries, fill, stack) /\ IterOK(iter, h)
    BY DEF DictIInv
  <1>2. Top = f /\ Tail(stack) = <<>>
    BY TopIs
  <1>3. f \in Frame /\ f.key \in Key
    BY DEF LookOK, Frame
  <1>4. f.todo = <<>> /\ i \in 0 .. n - 1 /\ LiveIn(entries, i) /\ entries[i].key = f.key
    BY <1>1, HitIs
  <1> HIDE DEF i, n
  <1>5. /\ h \in Seq(Pair) /\ Len(order) \in Nat /\ Len(h) = Len(order)
        /\ DOMAIN order = 1 .. Len(order) /\ order \in Seq(0 .. n - 1)
        /\ \A j \in 1 .. Len(order) : order[j] \in 0 .. n - 1 /\ h[j] = entries[order[j]]
    BY <1>4, TodoIs, HeldAtEnd DEF n
  <1>13. \E q \in 1 .. Len(order) :
            /\ order[q] = f.at /\ h[q] = entries[f.at]
            /\ \A j \in 1 .. Len(order) : /\ order[j] = f.at <=> j = q
                                          /\ h[j].key = f.key <=> j = q
    BY HitPlace
  <1>6. PICK q \in 1 .. Len(order) :
          \A j \in 1 .. Len(order) : (order[j] = i <=> j = q) /\ (h[j].key = f.key <=> j = q)
    BY <1>13 DEF i
  <1> DEFINE o2 == RemoveAt(order, q)
             h2 == Holds(d, o2, <<>>)
  <1>7. Unlisted(i) = o2
    <2>1. i \in ToSet(order)
      BY <1>5, <1>6 DEF ToSet
    <2>2. (CHOOSE x \in DOMAIN order : order[x] = i) = q
      BY <1>5, <1>6
    <2> QED BY <2>1, <2>2 DEF Unlisted
  <1>8. /\ entries' = d /\ order' = o2 /\ used' = used - 1 /\ fill' = fill /\ stack' = <<>>
        /\ iter' = (IF iter = NoIter THEN NoIter ELSE [iter EXCEPT !.stale = TRUE])
        /\ answer' = f.key
    BY <1>2, <1>7 DEF Delete, Return, Bump, i
  <1>9. /\ TableOK(d, o2, used - 1, fill) /\ Size(d) = n
        /\ \A s \in 0 .. n - 1 : d[s] = IF s = i THEN Dummy ELSE entries[s]
    BY <1>1, <1>4, <1>6, TableLoses DEF n
  <1> HIDE DEF d
  <1>10. h2 = RemoveAt(h, q)
    <2>1. StackOK(d, fill, <<>>) /\ Todo(<<>>) = <<>> /\ Len(<<>>) = 0
      BY DEF StackOK, Todo
    <2> HIDE DEF o2
    <2>2. /\ h2 \in Seq(Pair) /\ Len(o2) \in Nat /\ Len(h2) = Len(o2) + Len(Todo(<<>>))
          /\ \A j \in 1 .. Len(o2) : h2[j] = d[o2[j]]
      BY <1>9, <2>1, HoldsIs
    <2> HIDE DEF h2
    <2> DEFINE S == 0 .. n - 1
    <2>7. order \in Seq(S)
      BY <1>5
    <2> HIDE DEF S
    <2>3. /\ Len(o2) = Len(order) - 1
          /\ \A j \in 1 .. Len(order) - 1 : o2[j] = IF j < q THEN order[j] ELSE order[j + 1]
      BY <2>7, RemoveAtIs DEF o2
    <2> DEFINE w == RemoveAt(h, q)
    <2> HIDE DEF w
    <2>4. /\ w \in Seq(Pair) /\ Len(w) = Len(order) - 1
          /\ \A j \in 1 .. Len(order) - 1 : w[j] = IF j < q THEN h[j] ELSE h[j + 1]
      <3>1. h \in Seq(Pair) /\ q \in 1 .. Len(h)
        BY <1>5
      <3>2. /\ w \in Seq(Pair) /\ Len(w) = Len(h) - 1
            /\ \A j \in 1 .. Len(h) - 1 : w[j] = IF j < q THEN h[j] ELSE h[j + 1]
        BY <3>1, RemoveAtIs DEF w
      <3> QED BY <1>5, <3>2
    <2>5. ASSUME NEW j \in 1 .. Len(order) - 1 PROVE h2[j] = w[j]
      <3> DEFINE l == IF j < q THEN j ELSE j + 1
      <3>1. l \in 1 .. Len(order) /\ l # q /\ o2[j] = order[l] /\ w[j] = h[l]
        BY <1>5, <2>3, <2>4
      <3> HIDE DEF l
      <3>2. order[l] \in 0 .. n - 1 /\ order[l] # i /\ h[l] = entries[order[l]]
        BY <1>5, <1>6, <3>1
      <3> QED BY <1>9, <2>2, <2>3, <3>1, <3>2
    <2>6. Len(h2) = Len(order) - 1
      BY <2>1, <2>2, <2>3
    <2> QED BY <2>2, <2>4, <2>5, <2>6, SeqEqual DEF w
  <1>11. IterOK(iter', h2)
    BY <1>1, <1>8, IterStale
  <1> HIDE DEF h2
  <1>12. DictIInv'
    BY <1>3, <1>8, <1>9, <1>11 DEF DictIInv, StackOK, Answer, h2
  <1> QED BY <1>5, <1>6, <1>8, <1>10, <1>12 DEF h2

-----------------------------------------------------------------------------
(* The dict and the map that it stands for.                                *)

MapStep == [Map!MapNext]_<<Contents, Question, answer>>

(* What the map holds and is asked, of any values of the variables. *)
Asked(st) == IF st = <<>> THEN NoIter
             ELSE [op |-> st[Len(st)].op, key |-> st[Len(st)].key, value |-> st[Len(st)].value]

(* What the refinement maps the variables to. *)
LEMMA MapIs ==
    /\ Contents = Holds(entries, order, stack) /\ Contents' = Holds(entries', order', stack')
    /\ Question = Asked(stack) /\ Question' = Asked(stack')
  BY DEF Contents, Holds, Pairs, Question, Asked

(* An operation asks for what it was called with. *)
LEMMA AskedIs ==
    /\ Asked(<<>>) = NoIter
    /\ \A f : Asked(<<f>>) = [op |-> f.op, key |-> f.key, value |-> f.value]
  <1>1. \A f : <<f>>[Len(<<f>>)] = f /\ <<f>> # <<>>
    OBVIOUS
  <1> QED BY <1>1 DEF Asked

(* A step of the dict that the map does not see. *)
LEMMA Stutters ==
    ASSUME Holds(entries', order', stack') = Holds(entries, order, stack),
           Asked(stack') = Asked(stack), answer' = answer
    PROVE  MapStep
  BY MapIs DEF MapStep

(* The places of a key. *)
LEMMA AtIs ==
    ASSUME NEW k, NEW h, h = Contents, h \in Seq(Pair)
    PROVE  /\ Map!At(k) = { j \in 1 .. Len(h) : h[j].key = k }
           /\ DOMAIN Contents = 1 .. Len(h)
  BY DEF Map!At

(* Where a key has one place. *)
LEMMA AtOne ==
    ASSUME NEW k, NEW h, h = Contents, h \in Seq(Pair), NEW q \in 1 .. Len(h),
           \A j \in 1 .. Len(h) : h[j].key = k <=> j = q
    PROVE  /\ Map!At(k) = {q} /\ Map!At(k) # {} /\ (CHOOSE j \in Map!At(k) : TRUE) = q
  <1>1. Map!At(k) = {q}
    BY AtIs
  <1> QED BY <1>1

(* A question that is over. *)
LEMMA Answered ==
    ASSUME NEW f \in Frame, stack = <<f>>, stack' = <<>>
    PROVE  /\ Question = [op |-> f.op, key |-> f.key, value |-> f.value]
           /\ Question # NoIter /\ Question' = NoIter
           /\ Question.op = f.op /\ Question.key = f.key /\ Question.value = f.value
  <1>1. Question = [op |-> f.op, key |-> f.key, value |-> f.value] /\ Question' = NoIter
    BY MapIs, AskedIs
  <1>2. f.op \in Op /\ f.key \in Key /\ f.value \in Value \cup {Missing}
    BY DEF Frame
  <1> QED BY <1>1, <1>2, Distinct

(* The steps that end a lookup. *)

(* get, and setdefault of a key that is there, answer with what is stored. *)
LEMMA FetchStep ==
    ASSUME DictIInv, NEW f, stack = <<f>>, LookOK(entries, fill, f), NEW i,
           NEW found \in BOOLEAN, Fetch(i, found),
           found => f.phase = "equal" /\ i = f.at,
           ~found => entries[f.at] = Empty
    PROVE  DictIInv' /\ MapStep
  <1> DEFINE h == Holds(entries, order, stack)
  <1>1. TableOK(entries, order, used, fill)
    BY DEF DictIInv
  <1>2. Top = f /\ Tail(stack) = <<>>
    BY TopIs
  <1>3. /\ f \in Frame /\ f.todo = <<>> /\ Wanted(f) = f.key
        /\ f.op = "get" \/ (f.op = "default" /\ found)
        /\ stack' = <<>> /\ UNCHANGED <<entries, order, used, fill, iter>>
        /\ answer' = IF found /\ Live(i) THEN entries[i].value ELSE Missing
    BY <1>2 DEF Fetch, Return, LookOK, Wanted
  <1>4. h \in Seq(Pair) /\ Len(h) = Len(order)
    <2>1. Todo(stack) = <<>>
      BY <1>3, TodoIs
    <2> QED BY <2>1, HeldAtEnd
  <1>5. Contents = h /\ Contents' = Holds(entries', order', stack')
    BY MapIs
  <1>6. /\ Question # NoIter /\ Question' = NoIter
        /\ Question.op = f.op /\ Question.key = f.key /\ Question.value = f.value
    BY <1>3, Answered
  <1> HIDE DEF h
  <1>7. answer' \in Answer /\ answer' = Map!Stored(f.key)
    <2>1. CASE found
      <3>1. f.at \in 0 .. Size(entries) - 1 /\ LiveIn(entries, f.at) /\ entries[f.at] \in Pair
        BY <1>1, <2>1, HitIs
      <3>2. answer' = entries[f.at].value
        BY <1>3, <2>1, <3>1 DEF Live, LiveIn
      <3>3. PICK q \in 1 .. Len(order) :
              h[q] = entries[f.at] /\ \A j \in 1 .. Len(order) : h[j].key = f.key <=> j = q
        BY <2>1, HitPlace DEF h
      <3>4. Map!At(f.key) # {} /\ (CHOOSE j \in Map!At(f.key) : TRUE) = q
        BY <1>4, <1>5, <3>3, AtOne
      <3>5. Map!Stored(f.key) = h[q].value
        BY <1>5, <3>4 DEF Map!Stored
      <3> QED BY <3>1, <3>2, <3>3, <3>5 DEF Answer, Pair
    <2>2. CASE ~found
      <3> DEFINE m == IF f.free >= 0 THEN f.free ELSE f.at
      <3>1. \A s \in 0 .. Size(entries) - 1 : LiveIn(entries, s) => entries[s].key # Wanted(f)
        <4> HIDE DEF m
        <4>1. m = IF f.free >= 0 THEN f.free ELSE f.at
          BY DEF m
        <4> QED BY <1>1, <2>2, <4>1, MissIs
      <3>2. \A j \in 1 .. Len(order) :
              /\ order[j] \in 0 .. Size(entries) - 1 /\ LiveIn(entries, order[j])
              /\ h[j] = entries[order[j]]
        <4>1. Todo(stack) = <<>>
          BY <1>3, TodoIs
        <4> QED BY <4>1, HeldAtEnd DEF h
      <3>3. \A j \in 1 .. Len(h) : h[j].key # f.key
        BY <1>3, <1>4, <3>1, <3>2
      <3>4. Map!At(f.key) = {}
        BY <1>4, <1>5, <3>3, AtIs
      <3> QED BY <1>3, <2>2, <3>4 DEF Answer, Map!Stored
    <2> QED BY <2>1, <2>2
  <1>8. DictIInv' /\ Contents' = Contents
    BY <1>3, <1>5, <1>7, EndKeeps DEF h
  <1>9. found => Map!At(f.key) # {}
    <2> SUFFICES ASSUME found PROVE Map!At(f.key) # {}
      OBVIOUS
    <2>1. PICK q \in 1 .. Len(order) : \A j \in 1 .. Len(order) : h[j].key = f.key <=> j = q
      BY HitPlace DEF h
    <2>2. /\ h = Contents /\ h \in Seq(Pair) /\ q \in 1 .. Len(h)
          /\ \A j \in 1 .. Len(h) : h[j].key = f.key <=> j = q
      BY <1>4, <1>5, <2>1
    <2>3. Map!At(f.key) = { j \in 1 .. Len(h) : h[j].key = f.key }
      BY <2>2, AtIs
    <2> QED BY <2>2, <2>3
  <1>10. Map!Answer(Map!Stored(f.key), Contents)
    BY <1>6, <1>7, <1>8 DEF Map!Answer
  <1>11. Map!Get \/ Map!SetDefault
    BY <1>3, <1>6, <1>9, <1>10 DEF Map!Get, Map!SetDefault
  <1> QED BY <1>8, <1>11 DEF MapStep, Map!MapNext

(* A deletion that finds nothing answers so. *)
LEMMA NotFoundStep ==
    ASSUME DictIInv, NEW f, stack = <<f>>, LookOK(entries, fill, f),
           entries[f.at] = Empty, NotFound
    PROVE  DictIInv' /\ MapStep
  <1> DEFINE h == Holds(entries, order, stack)
  <1>1. TableOK(entries, order, used, fill)
    BY DEF DictIInv
  <1>2. Top = f /\ Tail(stack) = <<>>
    BY TopIs
  <1>3. /\ f \in Frame /\ f.todo = <<>> /\ Wanted(f) = f.key /\ f.op = "del"
        /\ stack' = <<>> /\ UNCHANGED <<entries, order, used, fill, iter>> /\ answer' = Missing
    BY <1>2 DEF NotFound, Return, LookOK, Wanted
  <1>4. /\ h \in Seq(Pair) /\ Len(h) = Len(order)
        /\ \A j \in 1 .. Len(order) :
              /\ order[j] \in 0 .. Size(entries) - 1 /\ LiveIn(entries, order[j])
              /\ h[j] = entries[order[j]]
    <2>1. Todo(stack) = <<>>
      BY <1>3, TodoIs
    <2> QED BY <2>1, HeldAtEnd
  <1>5. Contents = h
    BY MapIs
  <1>6. Question # NoIter /\ Question' = NoIter /\ Question.op = f.op /\ Question.key = f.key
    BY <1>3, Answered
  <1>7. DictIInv' /\ Contents' = Contents
    BY <1>3, MapIs, EndKeeps DEF Answer
  <1> HIDE DEF h
  <1>8. \A s \in 0 .. Size(entries) - 1 : LiveIn(entries, s) => entries[s].key # f.key
    <2>1. \A s \in 0 .. Size(entries) - 1 : LiveIn(entries, s) => entries[s].key # Wanted(f)
      BY <1>1, MissIs
    <2> QED BY <1>3, <2>1
  <1>9. Map!At(f.key) = {}
    <2>1. \A j \in 1 .. Len(h) : h[j].key # f.key
      BY <1>4, <1>8
    <2> QED BY <1>4, <1>5, <2>1, AtIs
  <1>10. Map!Delete
    BY <1>3, <1>6, <1>7, <1>9 DEF Map!Delete, Map!Answer, Map!Without
  <1> QED BY <1>7, <1>10 DEF MapStep, Map!MapNext

(* A new key comes last. *)
LEMMA InsertStep ==
    ASSUME DictIInv, NEW f, stack = <<f>>, LookOK(entries, fill, f), NEW i,
           entries[f.at] = Empty, i = IF f.free >= 0 THEN f.free ELSE f.at, Insert(i)
    PROVE  DictIInv' /\ MapStep
  <1> DEFINE h == Holds(entries, order, stack)
             p == [key |-> f.key, value |-> f.value]
  <1>1. Top = f /\ Tail(stack) = <<>>
    BY TopIs
  <1>2. /\ f \in Frame /\ f.todo = <<>> /\ f.op \in {"put", "default"} /\ stack' = <<>>
        /\ answer' = IF f.op = "put" THEN Missing ELSE f.value
    BY <1>1 DEF Insert, Return, LookOK
  <1>3. h \in Seq(Pair)
    <2>1. Todo(stack) = <<>>
      BY <1>2, TodoIs
    <2> QED BY <2>1, HeldAtEnd
  <1>4. /\ DictIInv' /\ Holds(entries', order', stack') = Append(h, p)
        /\ \A j \in 1 .. Len(h) : h[j].key # f.key
    BY InsertKeeps
  <1>5. Contents = h /\ Contents' = Append(h, p)
    BY <1>4, MapIs
  <1>6. /\ Question # NoIter /\ Question' = NoIter
        /\ Question.op = f.op /\ Question.key = f.key /\ Question.value = f.value
    BY <1>2, Answered
  <1> HIDE DEF h
  <1>7. Map!At(f.key) = {}
    BY <1>3, <1>4, <1>5, AtIs
  <1>8. Map!With(f.key, f.value) = Contents'
    BY <1>5, <1>7 DEF Map!With
  <1>9. Map!Put \/ Map!SetDefault
    BY <1>2, <1>6, <1>7, <1>8 DEF Map!Put, Map!SetDefault, Map!Answer
  <1> QED BY <1>4, <1>9 DEF MapStep, Map!MapNext

(* A key that is there stays where it is, with another value. *)
LEMMA ReplaceStep ==
    ASSUME DictIInv, NEW f, stack = <<f>>, LookOK(entries, fill, f), f.phase = "equal",
           Replace(f.at)
    PROVE  DictIInv' /\ MapStep
  <1> DEFINE h == Holds(entries, order, stack)
             p == [key |-> f.key, value |-> f.value]
  <1>1. Top = f /\ Tail(stack) = <<>>
    BY TopIs
  <1>2. f \in Frame /\ f.todo = <<>> /\ f.op = "put" /\ stack' = <<>> /\ answer' = Missing
    BY <1>1 DEF Replace, Return, LookOK
  <1>3. h \in Seq(Pair)
    <2>1. Todo(stack) = <<>>
      BY <1>2, TodoIs
    <2> QED BY <2>1, HeldAtEnd
  <1>4. DictIInv'
    BY ReplaceKeeps
  <1>5. PICK q \in 1 .. Len(h) :
          /\ \A j \in 1 .. Len(h) : h[j].key = f.key <=> j = q
          /\ Holds(entries', order', stack') = [j \in 1 .. Len(h) |-> IF j = q THEN p ELSE h[j]]
    BY ReplaceKeeps
  <1>6. Contents = h /\ Contents' = [j \in 1 .. Len(h) |-> IF j = q THEN p ELSE h[j]]
    BY <1>5, MapIs
  <1>7. /\ Question # NoIter /\ Question' = NoIter
        /\ Question.op = f.op /\ Question.key = f.key /\ Question.value = f.value
    BY <1>2, Answered
  <1> HIDE DEF h, p
  <1>8. Map!At(f.key) = {q} /\ Map!At(f.key) # {} /\ DOMAIN Contents = 1 .. Len(h)
    <2>1. h = Contents /\ \A j \in 1 .. Len(h) : h[j].key = f.key <=> j = q
      BY <1>5, <1>6
    <2>2. Map!At(f.key) = {q} /\ Map!At(f.key) # {} /\ (CHOOSE j \in Map!At(f.key) : TRUE) = q
      BY <1>3, <2>1, AtOne
    <2>3. DOMAIN Contents = 1 .. Len(h)
      BY <1>3, <2>1, AtIs
    <2> QED BY <2>2, <2>3
  <1>9. Map!With(f.key, f.value) = Contents'
    BY <1>6, <1>8 DEF Map!With, p
  <1>10. Map!Put
    BY <1>2, <1>7, <1>9 DEF Map!Put, Map!Answer
  <1> QED BY <1>4, <1>10 DEF MapStep, Map!MapNext

(* A deleted key is gone, and the others keep their order. *)
LEMMA DeleteStep ==
    ASSUME DictIInv, NEW f, stack = <<f>>, LookOK(entries, fill, f), f.phase = "equal",
           Delete(f.at)
    PROVE  DictIInv' /\ MapStep
  <1> DEFINE h == Holds(entries, order, stack)
  <1>1. Top = f /\ Tail(stack) = <<>>
    BY TopIs
  <1>2. f \in Frame /\ f.todo = <<>> /\ f.op = "del" /\ stack' = <<>> /\ answer' = f.key
    BY <1>1 DEF Delete, Return, LookOK
  <1>3. h \in Seq(Pair)
    <2>1. Todo(stack) = <<>>
      BY <1>2, TodoIs
    <2> QED BY <2>1, HeldAtEnd
  <1>4. DictIInv'
    BY DeleteKeeps
  <1>5. PICK q \in 1 .. Len(h) :
          /\ \A j \in 1 .. Len(h) : h[j].key = f.key <=> j = q
          /\ Holds(entries', order', stack') = RemoveAt(h, q)
    BY DeleteKeeps
  <1>6. Contents = h /\ Contents' = RemoveAt(h, q)
    BY <1>5, MapIs
  <1>7. Question # NoIter /\ Question' = NoIter /\ Question.op = f.op /\ Question.key = f.key
    BY <1>2, Answered
  <1> HIDE DEF h
  <1>8. Map!At(f.key) # {} /\ (CHOOSE j \in Map!At(f.key) : TRUE) = q
    <2>1. h = Contents /\ \A j \in 1 .. Len(h) : h[j].key = f.key <=> j = q
      BY <1>5, <1>6
    <2>2. Map!At(f.key) = {q} /\ Map!At(f.key) # {} /\ (CHOOSE j \in Map!At(f.key) : TRUE) = q
      BY <1>3, <2>1, AtOne
    <2> QED BY <2>2
  <1>9. Map!Without(f.key) = Contents'
    <2>1. Map!RemoveAt(Contents, q) = RemoveAt(h, q)
      BY <1>6 DEF Map!RemoveAt, RemoveAt
    <2> QED BY <1>6, <1>8, <2>1 DEF Map!Without
  <1>10. Map!Delete
    BY <1>2, <1>7, <1>8, <1>9 DEF Map!Delete, Map!Answer
  <1> QED BY <1>4, <1>10 DEF MapStep, Map!MapNext

(* The other steps. *)

(* Calling an operation asks the map, and changes nothing in it, though    *)
(* the table may be replaced.                                              *)
LEMMA CallStep ==
    ASSUME Undisturbed, DictIInv, NEW op \in Op,
           NEW k \in Key, NEW v \in Value \cup {Missing},
           op \in {"put", "default"} => v \in Value,
           op \in {"get", "del"} => v = Missing, Call(op, k, v)
    PROVE  DictIInv' /\ MapStep
  <1>1. /\ DictIInv' /\ Holds(entries', order', stack') = Holds(entries, order, stack)
        /\ stack = <<>> /\ \E f \in Frame : stack' = <<f>> /\ f.op = op /\ f.key = k /\ f.value = v
    BY CallKeeps DEF Op
  <1>2. Question = NoIter /\ Question' = [op |-> op, key |-> k, value |-> v] /\ Contents' = Contents
    BY <1>1, MapIs, AskedIs
  <1>3. answer' = Missing
    BY DEF Call
  <1>4. Map!Ask(op, k, v)
    BY <1>2, <1>3 DEF Map!Ask
  <1>5. Map!MapNext
    BY <1>4 DEF Map!MapNext, Op
  <1> QED BY <1>1, <1>5 DEF MapStep

(* Everything else Python code may do with the dict. *)
LEMMA UserStep == ASSUME Undisturbed, DictIInv, User PROVE DictIInv' /\ MapStep
  <1>1. TableOK(entries, order, used, fill) /\ StackOK(entries, fill, stack)
        /\ IterOK(iter, Holds(entries, order, stack)) /\ answer \in Answer
    BY DEF DictIInv
  <1>2. ASSUME NEW k \in Key, Call("get", k, Missing) \/ Call("del", k, Missing)
        PROVE  DictIInv' /\ MapStep
    BY <1>2, CallStep DEF Op
  <1>3. ASSUME NEW k \in Key, NEW v \in Values[k], Call("put", k, v) \/ Call("default", k, v)
        PROVE  DictIInv' /\ MapStep
    <2>1. v \in Value
      BY DEF Value
    <2> QED BY <1>3, <2>1, CallStep DEF Op
  <1>4. CASE PopItem
    <2> DEFINE k == entries[Last(order)].key
    <2>1. /\ order \in Seq(0 .. Size(entries) - 1) /\ Size(entries) \in Nat
          /\ entries \in [0 .. Size(entries) - 1 -> {Empty, Dummy} \cup Pair]
      BY <1>1 DEF TableOK, TableTypes
    <2>2. Last(order) \in 0 .. Size(entries) - 1 /\ Live(Last(order))
      BY <1>4, <2>1 DEF PopItem, Last
    <2>3. k \in Key
      BY <2>1, <2>2 DEF Live, Pair
    <2>4. Call("del", k, Missing)
      BY <1>4 DEF PopItem
    <2> HIDE DEF k
    <2> QED BY <2>3, <2>4, CallStep DEF Op
  <1>5. CASE ClearAll
    <2>1. DictIInv'
      BY <1>5, ClearKeeps
    <2>2. stack = <<>> /\ stack' = <<>> /\ order' = <<>> /\ answer' = Missing
      <3>1. Len(stack) < 1
        BY <1>5 DEF ClearAll, Undisturbed
      <3>2. \A x : Len(<<x>>) = 1
        OBVIOUS
      <3> QED BY <1>1, <1>5, <3>1, <3>2 DEF StackOK, ClearAll
    <2>3. Question = NoIter /\ Question' = NoIter
      BY <2>2, MapIs, AskedIs
    <2>4. Contents' = <<>>
      <3>1. \A e : [i \in DOMAIN <<>> |-> e[<<>>[i]]] = <<>>
        OBVIOUS
      <3>2. \A e : Holds(e, <<>>, <<>>) = <<>>
        BY <3>1 DEF Holds
      <3> QED BY <2>2, <3>2, MapIs
    <2>5. Map!Clear
      BY <2>2, <2>3, <2>4 DEF Map!Clear
    <2> QED BY <2>1, <2>5 DEF MapStep, Map!MapNext
  <1>6. ASSUME NEW backwards \in BOOLEAN, NewIter(backwards) PROVE DictIInv' /\ MapStep
    <2>1. IterOK(iter', Holds(entries, order, stack))
      BY <1>1, <1>6, IterMade
    <2>2. DictIInv'
      BY <1>1, <1>6, <2>1 DEF NewIter, DictIInv
    <2> QED BY <1>6, <2>2, Stutters DEF NewIter
  <1>7. CASE Advance
    <2>1. IterOK(iter', Holds(entries, order, stack))
      BY <1>1, <1>7, IterAdvances
    <2>2. DictIInv'
      BY <1>1, <1>7, <2>1 DEF Advance, DictIInv
    <2> QED BY <1>7, <2>2, Stutters DEF Advance
  <1>8. CASE DropIter
    <2>1. DictIInv'
      BY <1>1, <1>8 DEF DropIter, DictIInv, IterOK
    <2> QED BY <1>8, <2>1, Stutters DEF DropIter
  <1> QED BY <1>2, <1>3, <1>4, <1>5, <1>6, <1>7, <1>8 DEF User

(* A lookup that looks at one slot more. *)
LEMMA LookStep ==
    ASSUME DictIInv, NEW f, stack = <<f>>, NEW g, stack' = <<g>>, LookOK(entries, fill, g),
           g.todo = f.todo, g.op = f.op, g.key = f.key, g.value = f.value, Untouched
    PROVE  DictIInv' /\ MapStep
  <1>1. DictIInv' /\ Holds(entries', order', stack') = Holds(entries, order, stack)
    BY ProbeKeeps
  <1>2. Asked(stack') = Asked(stack)
    BY AskedIs
  <1> QED BY <1>1, <1>2, Stutters DEF Untouched

(* Moving a pair to the new table changes nothing in the map. *)
LEMMA ReinsertStep ==
    ASSUME DictIInv, NEW f, stack = <<f>>, LookOK(entries, fill, f), NEW i,
           entries[f.at] = Empty, i = IF f.free >= 0 THEN f.free ELSE f.at, Reinsert(i)
    PROVE  DictIInv' /\ MapStep
  <1>1. DictIInv' /\ Holds(entries', order', stack') = Holds(entries, order, stack)
    BY ReinsertKeeps
  <1>2. Asked(stack') = Asked(stack)
    <2>1. Top = f /\ \A x : ReplaceTop(x) = <<x>>
      BY TopIs
    <2> DEFINE n == Cardinality(Slots)
               r == Tail(f.todo)
               g == [f EXCEPT !.todo = r]
    <2>2. stack' = <<Probe(g, n)>>
      BY <2>1 DEF Reinsert
    <2> HIDE DEF n, r
    <2>3. f \in Frame
      BY DEF LookOK
    <2>4. Probe(g, n).op = f.op /\ Probe(g, n).key = f.key /\ Probe(g, n).value = f.value
      BY <2>3 DEF Probe, Frame
    <2> HIDE DEF g
    <2> QED BY <2>2, <2>4, AskedIs
  <1>3. answer' = answer
    BY DEF Reinsert
  <1> QED BY <1>1, <1>2, <1>3, Stutters

(* A look at a slot, or the end of an __eq__. *)
LEMMA ProbingStep == ASSUME Undisturbed, DictIInv, Probing PROVE DictIInv' /\ MapStep
  <1>1. TableOK(entries, order, used, fill) /\ StackOK(entries, fill, stack)
    BY DEF DictIInv
  <1>2. stack # <<>>
    BY DEF Probing, LookAtEmpty, LookAtDummy, LookAtKey, Looking, CompareReturns
  <1>3. PICK f \in Frame : stack = <<f>> /\ LookOK(entries, fill, f)
    BY <1>1, <1>2 DEF StackOK
  <1>4. Top = f /\ \A x : ReplaceTop(x) = <<x>>
    BY <1>3, TopIs
  <1>5. Size(entries) \in Nat /\ Size(entries) >= 2 /\ f.size = Size(entries)
    BY <1>1, <1>3, SlotsAre DEF LookOK
  <1>6. CASE LookAtEmpty
    <2> DEFINE i == IF f.free >= 0 THEN f.free ELSE f.at
    <2>1. entries[f.at] = Empty /\ Miss(i)
      BY <1>4, <1>6 DEF LookAtEmpty
    <2> HIDE DEF i
    <2>2. i = IF f.free >= 0 THEN f.free ELSE f.at
      BY DEF i
    <2>3. CASE Reinsert(i)
      BY <1>3, <2>1, <2>2, <2>3, ReinsertStep
    <2>4. CASE Fetch(i, FALSE)
      BY <1>3, <2>1, <2>4, FetchStep
    <2>5. CASE Insert(i)
      BY <1>3, <2>1, <2>2, <2>5, InsertStep
    <2>6. CASE NotFound
      BY <1>3, <2>1, <2>6, NotFoundStep
    <2> QED BY <2>1, <2>3, <2>4, <2>5, <2>6 DEF Miss
  <1>7. CASE LookAtDummy
    <2> DEFINE g == [f EXCEPT !.free = IF @ >= 0 THEN @ ELSE f.at]
    <2>1. entries[f.at] = Dummy /\ f.phase = "probe" /\ stack' = <<NextSlot(g)>> /\ Untouched
      BY <1>4, <1>7 DEF LookAtDummy, Looking
    <2>2. LookOK(entries, fill, g) /\ g.at = f.at /\ g.todo = f.todo
      BY <1>3, <1>5, <2>1, LookKeepsDummy
    <2>3. g.op = f.op /\ g.key = f.key /\ g.value = f.value
      BY <1>3 DEF Frame
    <2> HIDE DEF g
    <2>4. g \in Frame /\ g.size >= 2
      BY <1>5, <2>2 DEF LookOK
    <2>5. LookOK(entries, fill, NextSlot(g))
      BY <1>5, <2>1, <2>2, LookGoesOn, Distinct DEF LiveIn
    <2>6. /\ NextSlot(g).op = f.op /\ NextSlot(g).key = f.key /\ NextSlot(g).value = f.value
          /\ NextSlot(g).todo = f.todo
      BY <2>2, <2>3, <2>4, NextSlotIs
    <2> QED BY <1>3, <2>1, <2>5, <2>6, LookStep
  <1>8. ASSUME LiveIn(entries, f.at), entries[f.at].key # Wanted(f), stack' = <<NextSlot(f)>>, Untouched
        PROVE  DictIInv' /\ MapStep
    <2>1. LookOK(entries, fill, NextSlot(f))
      BY <1>3, <1>5, <1>8, LookGoesOn DEF LiveIn
    <2>2. /\ NextSlot(f).op = f.op /\ NextSlot(f).key = f.key /\ NextSlot(f).value = f.value
          /\ NextSlot(f).todo = f.todo
      BY <1>3, <1>5, NextSlotIs
    <2> QED BY <1>3, <1>8, <2>1, <2>2, LookStep
  <1>9. CASE LookAtKey
    <2> DEFINE k == entries[f.at].key
    <2>1. LiveIn(entries, f.at) /\ Untouched
      BY <1>4, <1>9 DEF LookAtKey, Looking, Live, LiveIn
    <2>2. CASE Hash[k] # Hash[Wanted(f)]
      <3>1. stack' = <<NextSlot(f)>> /\ k # Wanted(f)
        BY <1>4, <1>9, <2>2 DEF LookAtKey
      <3> QED BY <1>8, <2>1, <3>1
    <2>3. CASE Hash[k] = Hash[Wanted(f)]
      <3> DEFINE ph == IF k = Wanted(f) THEN "equal" ELSE "differs"
                 g == [f EXCEPT !.phase = ph]
      <3>1. stack' = <<g>>
        BY <1>4, <1>9, <2>3 DEF LookAtKey
      <3>2. LookOK(entries, fill, g) /\ g.todo = f.todo
        BY <1>3, <2>1, LookCompares
      <3>3. g.op = f.op /\ g.key = f.key /\ g.value = f.value
        BY <1>3 DEF Frame
      <3> HIDE DEF g
      <3> QED BY <1>3, <2>1, <3>1, <3>2, <3>3, LookStep
    <2> QED BY <2>2, <2>3
  <1>10. CASE f.phase = "equal" /\ Hit(f.at)
    <2>1. CASE Reinsert(f.at)
      <3>1. f.todo = <<>>
        BY <1>1, <1>3, <1>10, HitIs
      <3> QED BY <1>4, <2>1, <3>1 DEF Reinsert
    <2>2. CASE Fetch(f.at, TRUE)
      BY <1>3, <1>10, <2>2, FetchStep
    <2>3. CASE Replace(f.at)
      BY <1>3, <1>10, <2>3, ReplaceStep
    <2>4. CASE Delete(f.at)
      BY <1>3, <1>10, <2>4, DeleteStep
    <2> QED BY <1>10, <2>1, <2>2, <2>3, <2>4 DEF Hit
  <1>11. CASE f.phase = "differs" /\ stack' = <<NextSlot(f)>> /\ Untouched
    <2>1. LiveIn(entries, f.at) /\ entries[f.at].key # Wanted(f)
      BY <1>3, <1>11 DEF LookOK, WalkOK
    <2> QED BY <1>8, <1>11, <2>1
  <1>12. CASE CompareReturns
    <2>1. (f.phase = "equal" /\ Hit(f.at)) \/ (f.phase = "differs" /\ stack' = <<NextSlot(f)>> /\ Untouched)
      BY <1>4, <1>12 DEF CompareReturns
    <2> QED BY <1>10, <1>11, <2>1
  <1> QED BY <1>6, <1>7, <1>9, <1>12 DEF Probing

(* A comparison that raises ends the operation; what was still to be moved *)
(* is lost.                                                                *)
LEMMA RaisesStep == ASSUME DictIInv, CompareRaises PROVE DictIInv' /\ (~MayRaise => MapStep)
  <1>1. TableOK(entries, order, used, fill) /\ StackOK(entries, fill, stack)
        /\ IterOK(iter, Holds(entries, order, stack))
    BY DEF DictIInv
  <1>2. PICK f \in Frame : stack = <<f>> /\ LookOK(entries, fill, f)
    BY <1>1 DEF StackOK, CompareRaises
  <1>3. Top = f /\ Tail(stack) = <<>>
    BY <1>2, TopIs
  <1>4. /\ f.todo # <<>> => MayRaise
        /\ stack' = <<>> /\ answer' = Raised
        /\ UNCHANGED <<entries, order, used, fill, iter>>
    BY <1>3 DEF CompareRaises
  <1>5. CASE f.todo # <<>>
    <2> DEFINE h == Holds(entries, order, stack)
               g == Holds(entries, order, <<>>)
    <2>1. /\ h \in Seq(Pair) /\ Len(order) \in Nat /\ Len(Todo(stack)) \in Nat
          /\ Len(h) = Len(order) + Len(Todo(stack))
          /\ \A i \in 1 .. Len(order) : h[i] = entries[order[i]]
      <3> HIDE DEF h
      <3> QED BY <1>1, HoldsIs DEF h
    <2>2. StackOK(entries, fill, <<>>) /\ Todo(<<>>) = <<>> /\ Len(<<>>) = 0
      BY DEF StackOK, Todo
    <2>3. /\ g \in Seq(Pair) /\ Len(g) = Len(order) + Len(Todo(<<>>))
          /\ \A i \in 1 .. Len(order) : g[i] = entries[order[i]]
      <3> HIDE DEF g
      <3> QED BY <1>1, <2>2, HoldsIs DEF g
    <2> HIDE DEF g, h
    <2>4. Len(g) = Len(order)
      BY <2>1, <2>2, <2>3
    <2>5. Len(g) <= Len(h) /\ \A i \in 1 .. Len(g) : g[i].key = h[i].key
      BY <2>1, <2>3, <2>4
    <2>6. IterOK(iter, g)
      BY <1>1, <2>1, <2>3, <2>5, IterKeeps DEF h
    <2>7. DictIInv'
      BY <1>1, <1>4, <2>2, <2>6 DEF DictIInv, Answer, g
    <2> QED BY <1>4, <1>5, <2>7
  <1>6. CASE f.todo = <<>>
    <2>1. DictIInv' /\ Holds(entries', order', stack') = Holds(entries, order, stack)
      BY <1>2, <1>4, <1>6, EndKeeps DEF Answer
    <2>2. Contents' = Contents /\ Question # NoIter /\ Question' = NoIter
      BY <1>2, <1>4, <2>1, MapIs, Answered
    <2>3. Map!Fail
      BY <1>4, <2>2 DEF Map!Fail, Map!Answer
    <2> QED BY <2>1, <2>3 DEF MapStep, Map!MapNext
  <1> QED BY <1>5, <1>6

(* All steps keep the invariant, and are a map's steps if none raises. *)
LEMMA DictStep ==
    ASSUME Undisturbed, DictIInv, [DictNext]_vars
    PROVE  DictIInv' /\ (~MayRaise => MapStep)
  <1>1. CASE User
    BY <1>1, UserStep
  <1>2. CASE Probing
    BY <1>2, ProbingStep
  <1>3. CASE CompareRaises
    BY <1>3, RaisesStep
  <1>4. CASE UNCHANGED vars
    <2>1. DictIInv'
      BY <1>4 DEF vars, DictIInv
    <2> QED BY <1>4, <2>1, Stutters DEF vars
  <1> QED BY <1>1, <1>2, <1>3, <1>4 DEF DictNext

(* Every state of a dict has the invariant: the table is sound and every   *)
(* key in it is found by a walk that starts at its hash; a lookup under    *)
(* way has gone the way it had to and has room for what it is to put in;   *)
(* an iterator has given what was there, in order.                         *)
THEOREM TableInvariance == ASSUME Undisturbed PROVE DictSpec => []DictIInv
  <1>1. DictInit => DictIInv
    BY InitDict
  <1>2. DictIInv /\ [DictNext]_vars => DictIInv'
    BY DictStep
  <1> QED BY <1>1, <1>2, PTL DEF DictSpec

(* The inductive invariant says what the runs check. *)
LEMMA SoundIs == ASSUME Undisturbed, DictIInv PROVE TableIsSound
  <1> DEFINE n == Size(entries)
  <1>1. TableOK(entries, order, used, fill) /\ StackOK(entries, fill, stack)
    BY DEF DictIInv
  <1>2. Slots = 0 .. n - 1 /\ Cardinality(Slots) = n /\ n \in Nat
    BY <1>1, SlotsAre
  <1>3. \A s : Live(s) <=> LiveIn(entries, s)
    BY DEF Live, LiveIn
  <1>4. /\ entries \in [0 .. n - 1 -> {Empty, Dummy} \cup Pair]
        /\ order \in Seq(0 .. n - 1) /\ used \in Nat /\ fill \in Nat
    BY <1>1 DEF TableOK, TableTypes
  <1>5. /\ used = Cardinality({ s \in DOMAIN entries : LiveIn(entries, s) })
        /\ fill = Cardinality({ s \in DOMAIN entries : entries[s] # Empty })
        /\ fill < n /\ Len(order) = used
    BY <1>1 DEF TableOK, Counts
  <1>6. DictTypeOK
    <2>1. Len(stack) <= MaxDepth
      <3>1. \A f : Len(<<f>>) = 1
        OBVIOUS
      <3>2. Len(<<>>) = 0
        OBVIOUS
      <3>3. Len(stack) = 0 \/ Len(stack) = 1
        BY <1>1, <3>1, <3>2 DEF StackOK
      <3>4. MaxDepth = 1
        BY DEF Undisturbed
      <3>5. Len(stack) <= 1
        <4>1. CASE Len(stack) = 0
          BY <4>1
        <4>2. CASE Len(stack) = 1
          BY <4>2
        <4> QED BY <3>3, <4>1, <4>2
      <3> QED BY <3>4, <3>5
    <2>2. answer \in Answer
      BY DEF DictIInv
    <2> QED BY <1>2, <1>4, <2>1, <2>2 DEF DictTypeOK, Answer
  <1>7. UsedIsActive /\ fill = Cardinality({ s \in Slots : entries[s] # Empty }) /\ fill < Cardinality(Slots)
    <2>1. { s \in Slots : Live(s) } = { s \in DOMAIN entries : LiveIn(entries, s) }
      BY <1>3 DEF Slots
    <2> QED BY <1>2, <1>5, <2>1 DEF UsedIsActive, Slots
  <1>8. ToSet(order) = { s \in Slots : Live(s) }
    <2>1. Listed(entries, order)
      BY <1>1 DEF TableOK
    <2>2. DOMAIN order = 1 .. Len(order) /\ \A j \in 1 .. Len(order) : order[j] \in Slots
      <3> DEFINE S == 0 .. n - 1
      <3>1. order \in Seq(S)
        BY <1>4
      <3> HIDE DEF S
      <3>2. DOMAIN order = 1 .. Len(order) /\ \A j \in 1 .. Len(order) : order[j] \in S
        BY <3>1
      <3> QED BY <1>2, <3>2 DEF S
    <2>3. ToSet(order) = { order[j] : j \in 1 .. Len(order) }
      BY <2>2 DEF ToSet
    <2>4. ASSUME NEW s \in ToSet(order) PROVE s \in Slots /\ Live(s)
      BY <1>3, <2>1, <2>2, <2>3 DEF Listed
    <2>5. ASSUME NEW s \in Slots, Live(s) PROVE s \in ToSet(order)
      BY <1>2, <1>3, <2>1, <2>3, <2>5 DEF Listed
    <2> QED BY <2>4, <2>5
  <1>9. \A s, t \in Slots : Live(s) /\ Live(t) /\ s # t => entries[s].key # entries[t].key
    BY <1>1, <1>2, <1>3 DEF TableOK, KeysApart
  <1> QED BY <1>5, <1>6, <1>7, <1>8, <1>9 DEF TableIsSound

(* It says of an iterator what the runs check. *)
LEMMA FaithfulIs == ASSUME DictIInv PROVE IteratorIsFaithful
  <1> SUFFICES ASSUME iter # NoIter
               PROVE  IsPrefix(iter.gave, iter.start) /\ (iter.ended => iter.gave = iter.start)
    BY DEF IteratorIsFaithful
  <1> DEFINE a == iter.gave
             b == iter.start
  <1>1. /\ a \in Seq(Key) /\ b \in Seq(Key) /\ Len(a) \in Nat /\ Len(b) \in Nat /\ Len(a) <= Len(b)
        /\ \A i \in 1 .. Len(a) : a[i] = b[i]
        /\ iter.ended => Len(a) = Len(b)
    BY DEF DictIInv, IterOK, Iterator
  <1> HIDE DEF a, b
  <1>2. SubSeq(a, 1, Len(a)) = SubSeq(b, 1, Len(a))
    BY <1>1
  <1>3. iter.ended => a = b
    BY <1>1, SeqEqual
  <1> QED BY <1>1, <1>2, <1>3 DEF IsPrefix, a, b

(* What MCMaps checks of dict_lookup.go and dict_mutate.go, for any keys,  *)
(* hashes and sizes: used and fill count what is in the table, there is    *)
(* always an empty slot to end a lookup, the order list names the live     *)
(* slots once each, and no key is there twice.                             *)
THEOREM TableSound == Undisturbed => (DictSpec => []TableIsSound)
  <1> SUFFICES ASSUME Undisturbed PROVE DictSpec => []TableIsSound
    OBVIOUS
  <1>1. DictIInv => TableIsSound
    BY SoundIs
  <1> QED BY <1>1, TableInvariance, PTL

(* What MCMaps checks of dict_iter.go: an iterator gives the keys it found *)
(* when it was made, in their order and each once, or raises; it never     *)
(* ends early.                                                             *)
THEOREM IteratorsFaithful == Undisturbed => (DictSpec => []IteratorIsFaithful)
  <1> SUFFICES ASSUME Undisturbed PROVE DictSpec => []IteratorIsFaithful
    OBVIOUS
  <1>1. DictIInv => IteratorIsFaithful
    BY FaithfulIs
  <1> QED BY <1>1, TableInvariance, PTL

(* What MCMaps checks of all of them: lookups slot by slot, dummies,       *)
(* resizes pair by pair come down to a map that keeps the order of its     *)
(* keys and answers each operation once, if no __eq__ raises in a resize.  *)
THEOREM DictIsOrderedMap == Undisturbed /\ ~MayRaise => (DictSpec => ImplementsOrderedMap)
  <1> SUFFICES ASSUME Undisturbed, ~MayRaise PROVE DictSpec => ImplementsOrderedMap
    OBVIOUS
  <1>1. DictInit => Map!MapInit
    <2> SUFFICES ASSUME DictInit PROVE Map!MapInit
      OBVIOUS
    <2>1. Contents = Holds(entries, <<>>, <<>>) /\ Question = NoIter /\ answer = Missing
      BY MapIs, AskedIs DEF DictInit
    <2>2. Holds(entries, <<>>, <<>>) = <<>>
      <3>1. [i \in DOMAIN <<>> |-> entries[<<>>[i]]] = <<>>
        OBVIOUS
      <3> QED BY <3>1 DEF Holds
    <2> QED BY <2>1, <2>2 DEF Map!MapInit
  <1>2. DictIInv /\ [DictNext]_vars => [Map!MapNext]_<<Contents, Question, answer>>
    BY DictStep DEF MapStep
  <1> QED BY <1>1, <1>2, TableInvariance, PTL DEF DictSpec, ImplementsOrderedMap, Map!MapSpec

-----------------------------------------------------------------------------
(* ContextVars: the context that a thread is in.  Why Exit does not fail   *)
(* takes all of a thread's contexts: those that its goroutine's runs are   *)
(* in, each remembering the next one out, and its own, which nobody can    *)
(* enter (CxRunsOK).                                                       *)

CONSTANTS Goid, Thread, ThreadOf, Var, Val, Unset, NoContext, MaxContexts, MaxTokens, MaxSwitches

VARIABLES contexts, current, version, cache, tokens, runs

Cx == INSTANCE ContextVars

(* No generator body uses variables: it would share its creator's thread,  *)
(* and with two goroutines of one thread RunsNest does not hold.           *)
CxAssumption ==
    /\ Cx!ContextAssumption
    /\ \A g, h \in Goid : ThreadOf[g] = ThreadOf[h] => g = h

Bound == Val \cup {Unset}

CxContext == [vars : [Var -> Bound], prev : Nat, entered : BOOLEAN, base : BOOLEAN]
CxToken == [context : Nat, var : Var, old : Bound, used : BOOLEAN]
CxCache == [valid : {FALSE}] \cup [valid : {TRUE}, thread : Thread, version : Nat, value : Bound]

(* The parts of the invariant, of any values of the variables.             *)
CxTypes(cs, cur, ver, ca, toks, rs) ==
    /\ cs \in Seq(CxContext)
    /\ \A c \in 1 .. Len(cs) : cs[c].prev \in 0 .. Len(cs)
    /\ cur \in [Thread -> 0 .. Len(cs)]
    /\ ver \in [Thread -> Nat]
    /\ ca \in [Var -> CxCache]
    /\ toks \in Seq(CxToken)
    /\ \A i \in 1 .. Len(toks) : toks[i].context \in 1 .. Len(cs)
    /\ rs \in [Goid -> Seq(1 .. Len(cs))]

(* What a variable remembers was so at a version of the thread's context.  *)
CxCacheOK(cs, cur, ver, ca) ==
    \A v \in Var : ca[v].valid =>
        /\ ca[v].version <= ver[ca[v].thread]
        /\ ca[v].version = ver[ca[v].thread] =>
              /\ cur[ca[v].thread] # 0
              /\ cs[cur[ca[v].thread]].vars[v] = ca[v].value

(* A token would unset the variable v of the context c. *)
Unsets(tok, c, v) == tok.context = c /\ tok.var = v /\ tok.old = Unset /\ ~tok.used

(* It is set then, and no other token would unset it. *)
CxTokensOK(cs, toks) ==
    \A i \in 1 .. Len(toks) : \A c \in 1 .. Len(cs), v \in Var :
        Unsets(toks[i], c, v) =>
            /\ cs[c].vars[v] # Unset
            /\ \A j \in 1 .. Len(toks) : Unsets(toks[j], c, v) => i = j

(* The context that a goroutine's thread is in outside all of its runs.    *)
Home(cs, cur, rs, g) ==
    IF rs[g] = <<>> THEN cur[ThreadOf[g]] ELSE cs[rs[g][Len(rs[g])]].prev

Nested(cs, cur, rs, g) ==
    /\ rs[g] # <<>> => cur[ThreadOf[g]] = rs[g][1]
    /\ \A i \in 1 .. Len(rs[g]) - 1 : cs[rs[g][i]].prev = rs[g][i + 1]
    /\ Home(cs, cur, rs, g) # 0 => cs[Home(cs, cur, rs, g)].base

InRuns(rs, c) == \E g \in Goid : \E i \in 1 .. Len(rs[g]) : rs[g][i] = c

(* A context that is entered is in one goroutine's runs, once; outside of  *)
(* them a thread is in a context of its own, that nobody can enter.        *)
CxRunsOK(cs, cur, rs) ==
    /\ \A g \in Goid : Nested(cs, cur, rs, g)
    /\ \A g, h \in Goid : Home(cs, cur, rs, g) = Home(cs, cur, rs, h) =>
          Home(cs, cur, rs, g) = 0 \/ g = h
    /\ \A g, h \in Goid : \A i \in 1 .. Len(rs[g]), j \in 1 .. Len(rs[h]) :
          rs[g][i] = rs[h][j] => g = h /\ i = j
    /\ \A c \in 1 .. Len(cs) : cs[c].entered => InRuns(rs, c) /\ ~cs[c].base
    /\ \A c \in 1 .. Len(cs) : InRuns(rs, c) => cs[c].entered
    /\ \A t \in Thread : (\A g \in Goid : ThreadOf[g] # t) => cur[t] = 0

CxIs(cs, cur, ver, ca, toks, rs) ==
    /\ CxTypes(cs, cur, ver, ca, toks, rs)
    /\ CxCacheOK(cs, cur, ver, ca)
    /\ CxTokensOK(cs, toks)
    /\ CxRunsOK(cs, cur, rs)

CxIInv == CxIs(contexts, current, version, cache, tokens, runs)

-----------------------------------------------------------------------------

(* What the proofs use of the constants. *)
LEMMA CxConstants ==
    ASSUME CxAssumption
    PROVE  /\ ThreadOf \in [Goid -> Thread] /\ NoContext = 0 /\ Unset \notin Val
           /\ \A g, h \in Goid : ThreadOf[g] = ThreadOf[h] => g = h
  BY DEF CxAssumption, Cx!ContextAssumption

(* What a new context is. *)
LEMMA NewContextIs ==
    ASSUME CxAssumption, NEW x \in [Var -> Bound], NEW b \in BOOLEAN
    PROVE  /\ Cx!NewContext(x, b) \in CxContext
           /\ Cx!NewContext(x, b).vars = x
           /\ Cx!NewContext(x, b).prev = 0
           /\ ~Cx!NewContext(x, b).entered
           /\ Cx!NewContext(x, b).base = b
  BY CxConstants DEF Cx!NewContext, CxContext

(* One more context. *)
LEMMA OneMore ==
    ASSUME NEW cs \in Seq(CxContext), NEW d \in CxContext
    PROVE  /\ Append(cs, d) \in Seq(CxContext)
           /\ Len(cs) \in Nat
           /\ Len(Append(cs, d)) = Len(cs) + 1
           /\ \A i \in 1 .. Len(cs) : Append(cs, d)[i] = cs[i]
           /\ Append(cs, d)[Len(cs) + 1] = d
  OBVIOUS

(* Numbers of contexts are numbers of contexts when there are more. *)
LEMMA MoreNumbers ==
    ASSUME NEW n \in Nat, NEW rs \in [Goid -> Seq(1 .. n)]
    PROVE  /\ rs \in [Goid -> Seq(1 .. n + 1)]
           /\ \A g \in Goid : Len(rs[g]) \in Nat /\ \A i \in 1 .. Len(rs[g]) : rs[g][i] \in 1 .. n
  <1>1. \A s \in Seq(1 .. n) : s \in Seq(1 .. n + 1)
    <2> SUFFICES ASSUME NEW s \in Seq(1 .. n) PROVE s \in Seq(1 .. n + 1)
      OBVIOUS
    <2>1. 1 .. n \subseteq 1 .. n + 1
      OBVIOUS
    <2> QED BY <2>1
  <1>2. \A s \in Seq(1 .. n) : Len(s) \in Nat /\ \A i \in 1 .. Len(s) : s[i] \in 1 .. n
    OBVIOUS
  <1> QED BY <1>1, <1>2

(* Where a goroutine is outside of its runs is a context, or none. *)
LEMMA HomeNumber ==
    ASSUME CxAssumption,
           NEW cs, NEW cur, NEW ver, NEW ca, NEW toks, NEW rs,
           CxTypes(cs, cur, ver, ca, toks, rs), NEW g \in Goid
    PROVE  Home(cs, cur, rs, g) \in 0 .. Len(cs)
  <1>1. CASE rs[g] = <<>>
    BY <1>1, CxConstants DEF Home, CxTypes
  <1>2. CASE rs[g] # <<>>
    <2>1. rs[g] \in Seq(1 .. Len(cs))
      BY DEF CxTypes
    <2>2. rs[g][Len(rs[g])] \in 1 .. Len(cs)
      BY <1>2, <2>1
    <2> QED BY <1>2, <2>2 DEF Home, CxTypes
  <1> QED BY <1>1, <1>2

(* A context is made that is nobody's yet. *)
LEMMA AddedKeeps ==
    ASSUME CxAssumption,
           NEW cs, NEW cur, NEW ver, NEW ca, NEW toks, NEW rs,
           CxIs(cs, cur, ver, ca, toks, rs), NEW x \in [Var -> Bound]
    PROVE  CxIs(Append(cs, Cx!NewContext(x, FALSE)), cur, ver, ca, toks, rs)
  <1> DEFINE d == Cx!NewContext(x, FALSE)
             ds == Append(cs, d)
             n == Len(cs) + 1
  <1>1. /\ d \in CxContext /\ d.prev = 0 /\ ~d.entered /\ ~d.base
    BY NewContextIs
  <1> HIDE DEF d
  <1>2. cs \in Seq(CxContext)
    BY DEF CxIs, CxTypes
  <1>3. /\ ds \in Seq(CxContext) /\ Len(cs) \in Nat /\ Len(ds) = n
        /\ \A i \in 1 .. Len(cs) : ds[i] = cs[i]
        /\ ds[n] = d
    BY <1>1, <1>2, OneMore
  <1> HIDE DEF ds
  <1>4. /\ rs \in [Goid -> Seq(1 .. n)]
        /\ \A g \in Goid : Len(rs[g]) \in Nat /\ \A i \in 1 .. Len(rs[g]) : rs[g][i] \in 1 .. Len(cs)
    BY <1>3, MoreNumbers DEF CxIs, CxTypes
  <1>5. CxTypes(ds, cur, ver, ca, toks, rs)
    <2>1. \A c \in 1 .. Len(ds) : ds[c].prev \in 0 .. Len(ds)
      <3> SUFFICES ASSUME NEW c \in 1 .. Len(ds) PROVE ds[c].prev \in 0 .. Len(ds)
        OBVIOUS
      <3>1. CASE c \in 1 .. Len(cs)
        <4>1. cs[c].prev \in 0 .. Len(cs)
          BY <3>1 DEF CxIs, CxTypes
        <4> QED BY <1>3, <3>1, <4>1
      <3>2. CASE c = n
        BY <1>1, <1>3, <3>2
      <3> QED BY <1>3, <3>1, <3>2
    <2>2. cur \in [Thread -> 0 .. Len(ds)]
      BY <1>3 DEF CxIs, CxTypes
    <2>3. \A i \in 1 .. Len(toks) : toks[i].context \in 1 .. Len(ds)
      BY <1>3 DEF CxIs, CxTypes
    <2> QED BY <1>3, <1>4, <2>1, <2>2, <2>3 DEF CxIs, CxTypes
  <1>6. CxCacheOK(ds, cur, ver, ca)
    <2> SUFFICES ASSUME NEW v \in Var, ca[v].valid
                 PROVE  /\ ca[v].version <= ver[ca[v].thread]
                        /\ ca[v].version = ver[ca[v].thread] =>
                              /\ cur[ca[v].thread] # 0
                              /\ ds[cur[ca[v].thread]].vars[v] = ca[v].value
      BY DEF CxCacheOK
    <2>1. ca[v].thread \in Thread
      BY DEF CxIs, CxTypes, CxCache
    <2>2. cur[ca[v].thread] \in 0 .. Len(cs)
      BY <2>1 DEF CxIs, CxTypes
    <2> QED BY <1>3, <2>2 DEF CxIs, CxCacheOK
  <1>7. CxTokensOK(ds, toks)
    <2> SUFFICES ASSUME NEW i \in 1 .. Len(toks), NEW c \in 1 .. Len(ds), NEW v \in Var,
                        Unsets(toks[i], c, v)
                 PROVE  /\ ds[c].vars[v] # Unset
                        /\ \A j \in 1 .. Len(toks) : Unsets(toks[j], c, v) => i = j
      BY DEF CxTokensOK
    <2>1. c \in 1 .. Len(cs)
      BY DEF CxIs, CxTypes, Unsets
    <2> QED BY <1>3, <2>1 DEF CxIs, CxTokensOK
  <1>8. CxRunsOK(ds, cur, rs)
    <2>1. \A g \in Goid : Home(ds, cur, rs, g) = Home(cs, cur, rs, g)
      <3> SUFFICES ASSUME NEW g \in Goid PROVE Home(ds, cur, rs, g) = Home(cs, cur, rs, g)
        OBVIOUS
      <3>1. CASE rs[g] = <<>>
        BY <3>1 DEF Home
      <3>2. CASE rs[g] # <<>>
        <4>1. Len(rs[g]) \in 1 .. Len(rs[g])
          BY <1>4, <3>2
        <4> QED BY <1>3, <1>4, <3>2, <4>1 DEF Home
      <3> QED BY <3>1, <3>2
    <2>2. \A g \in Goid : Home(cs, cur, rs, g) \in 0 .. Len(cs)
      BY CxConstants, HomeNumber DEF CxIs
    <2>3. \A g \in Goid : Nested(ds, cur, rs, g)
      <3> SUFFICES ASSUME NEW g \in Goid PROVE Nested(ds, cur, rs, g)
        OBVIOUS
      <3>1. Nested(cs, cur, rs, g)
        BY DEF CxIs, CxRunsOK
      <3>2. \A i \in 1 .. Len(rs[g]) - 1 : rs[g][i] \in 1 .. Len(cs)
        BY <1>4
      <3>3. \A i \in 1 .. Len(rs[g]) - 1 : ds[rs[g][i]].prev = rs[g][i + 1]
        BY <1>3, <3>1, <3>2 DEF Nested
      <3>4. Home(ds, cur, rs, g) # 0 => ds[Home(ds, cur, rs, g)].base
        BY <1>3, <2>1, <2>2, <3>1 DEF Nested
      <3> QED BY <3>1, <3>3, <3>4 DEF Nested
    <2>4. \A c \in 1 .. Len(ds) : ds[c].entered => InRuns(rs, c) /\ ~ds[c].base
      BY <1>1, <1>3 DEF CxIs, CxRunsOK
    <2>5. \A c \in 1 .. Len(ds) : InRuns(rs, c) => ds[c].entered
      <3> SUFFICES ASSUME NEW c \in 1 .. Len(ds), InRuns(rs, c) PROVE ds[c].entered
        OBVIOUS
      <3>1. c \in 1 .. Len(cs)
        BY <1>4 DEF InRuns
      <3> QED BY <1>3, <3>1 DEF CxIs, CxRunsOK
    <2> QED BY <2>1, <2>3, <2>4, <2>5 DEF CxIs, CxRunsOK
  <1> QED BY <1>5, <1>6, <1>7, <1>8 DEF CxIs, ds, d

(* A thread in no context gets one of its own, and a new version. *)
LEMMA FreshKeeps ==
    ASSUME CxAssumption,
           NEW cs, NEW cur, NEW ver, NEW ca, NEW toks, NEW rs,
           CxIs(cs, cur, ver, ca, toks, rs), NEW x \in [Var -> Bound],
           NEW g0 \in Goid, cur[ThreadOf[g0]] = 0
    PROVE  CxIs(Append(cs, Cx!NewContext(x, TRUE)),
                [cur EXCEPT ![ThreadOf[g0]] = Len(cs) + 1],
                [ver EXCEPT ![ThreadOf[g0]] = @ + 1], ca, toks, rs)
  <1> DEFINE d == Cx!NewContext(x, TRUE)
             ds == Append(cs, d)
             n == Len(cs) + 1
             t == ThreadOf[g0]
             cur2 == [cur EXCEPT ![t] = n]
             ver2 == [ver EXCEPT ![t] = @ + 1]
  <1>1. /\ d \in CxContext /\ d.prev = 0 /\ ~d.entered /\ d.base
    BY NewContextIs
  <1> HIDE DEF d
  <1>2. /\ cs \in Seq(CxContext) /\ cur \in [Thread -> 0 .. Len(cs)] /\ ver \in [Thread -> Nat]
    BY DEF CxIs, CxTypes
  <1>3. /\ ds \in Seq(CxContext) /\ Len(cs) \in Nat /\ Len(ds) = n
        /\ \A i \in 1 .. Len(cs) : ds[i] = cs[i]
        /\ ds[n] = d
    BY <1>1, <1>2, OneMore
  <1> HIDE DEF ds
  <1>4. /\ rs \in [Goid -> Seq(1 .. n)]
        /\ \A g \in Goid : Len(rs[g]) \in Nat /\ \A i \in 1 .. Len(rs[g]) : rs[g][i] \in 1 .. Len(cs)
    BY <1>3, MoreNumbers DEF CxIs, CxTypes
  <1>5. t \in Thread /\ cur[t] = 0
    BY CxConstants
  <1>6. /\ cur2 \in [Thread -> 0 .. n] /\ cur2[t] = n
        /\ \A u \in Thread : u # t => cur2[u] = cur[u]
    BY <1>2, <1>3, <1>5
  <1>7. /\ ver2 \in [Thread -> Nat] /\ ver2[t] = ver[t] + 1
        /\ \A u \in Thread : u # t => ver2[u] = ver[u]
    BY <1>2, <1>5
  <1>8. \A g \in Goid : g # g0 => ThreadOf[g] \in Thread /\ ThreadOf[g] # t
    BY CxConstants
  <1> HIDE DEF cur2, ver2, t
  <1>9. CxTypes(ds, cur2, ver2, ca, toks, rs)
    <2>1. \A c \in 1 .. Len(ds) : ds[c].prev \in 0 .. Len(ds)
      <3> SUFFICES ASSUME NEW c \in 1 .. Len(ds) PROVE ds[c].prev \in 0 .. Len(ds)
        OBVIOUS
      <3>1. CASE c \in 1 .. Len(cs)
        <4>1. cs[c].prev \in 0 .. Len(cs)
          BY <3>1 DEF CxIs, CxTypes
        <4> QED BY <1>3, <3>1, <4>1
      <3>2. CASE c = n
        BY <1>1, <1>3, <3>2
      <3> QED BY <1>3, <3>1, <3>2
    <2>2. \A i \in 1 .. Len(toks) : toks[i].context \in 1 .. Len(ds)
      BY <1>3 DEF CxIs, CxTypes
    <2> QED BY <1>3, <1>4, <1>6, <1>7, <2>1, <2>2 DEF CxIs, CxTypes
  <1>10. CxCacheOK(ds, cur2, ver2, ca)
    <2> SUFFICES ASSUME NEW v \in Var, ca[v].valid
                 PROVE  /\ ca[v].version <= ver2[ca[v].thread]
                        /\ ca[v].version = ver2[ca[v].thread] =>
                              /\ cur2[ca[v].thread] # 0
                              /\ ds[cur2[ca[v].thread]].vars[v] = ca[v].value
      BY DEF CxCacheOK
    <2>1. ca[v].thread \in Thread /\ ca[v].version \in Nat
      BY DEF CxIs, CxTypes, CxCache
    <2>2. cur[ca[v].thread] \in 0 .. Len(cs) /\ ver[ca[v].thread] \in Nat
      BY <1>2, <2>1
    <2>3. /\ ca[v].version <= ver[ca[v].thread]
          /\ ca[v].version = ver[ca[v].thread] =>
                /\ cur[ca[v].thread] # 0
                /\ cs[cur[ca[v].thread]].vars[v] = ca[v].value
      BY DEF CxIs, CxCacheOK
    <2>4. CASE ca[v].thread = t
      BY <1>7, <2>1, <2>2, <2>3, <2>4
    <2>5. CASE ca[v].thread # t
      BY <1>3, <1>6, <1>7, <2>1, <2>2, <2>3, <2>5
    <2> QED BY <2>4, <2>5
  <1>11. CxTokensOK(ds, toks)
    <2> SUFFICES ASSUME NEW i \in 1 .. Len(toks), NEW c \in 1 .. Len(ds), NEW v \in Var,
                        Unsets(toks[i], c, v)
                 PROVE  /\ ds[c].vars[v] # Unset
                        /\ \A j \in 1 .. Len(toks) : Unsets(toks[j], c, v) => i = j
      BY DEF CxTokensOK
    <2>1. c \in 1 .. Len(cs)
      BY DEF CxIs, CxTypes, Unsets
    <2> QED BY <1>3, <2>1 DEF CxIs, CxTokensOK
  <1>12. CxRunsOK(ds, cur2, rs)
    <2>1. rs[g0] = <<>>
      <3> SUFFICES ASSUME rs[g0] # <<>> PROVE FALSE
        OBVIOUS
      <3>1. cur[ThreadOf[g0]] = rs[g0][1]
        BY DEF CxIs, CxRunsOK, Nested
      <3>2. rs[g0] \in Seq(1 .. n) /\ 1 \in 1 .. Len(rs[g0])
        BY <1>4
      <3>3. rs[g0][1] \in 1 .. Len(cs)
        BY <1>4, <3>2
      <3> QED BY <1>5, <3>1, <3>3 DEF t
    <2>2. \A g \in Goid : g # g0 => Home(ds, cur2, rs, g) = Home(cs, cur, rs, g)
      <3> SUFFICES ASSUME NEW g \in Goid, g # g0
                   PROVE  Home(ds, cur2, rs, g) = Home(cs, cur, rs, g)
        OBVIOUS
      <3>1. CASE rs[g] = <<>>
        BY <1>6, <1>8, <3>1 DEF Home
      <3>2. CASE rs[g] # <<>>
        <4>1. Len(rs[g]) \in 1 .. Len(rs[g])
          BY <1>4, <3>2
        <4> QED BY <1>3, <1>4, <3>2, <4>1 DEF Home
      <3> QED BY <3>1, <3>2
    <2>3. Home(ds, cur2, rs, g0) = n
      BY <1>6, <2>1 DEF Home, t
    <2>4. \A g \in Goid : Home(cs, cur, rs, g) \in 0 .. Len(cs)
      BY HomeNumber DEF CxIs
    <2>5. \A g \in Goid : Nested(ds, cur2, rs, g)
      <3> SUFFICES ASSUME NEW g \in Goid PROVE Nested(ds, cur2, rs, g)
        OBVIOUS
      <3>1. Nested(cs, cur, rs, g)
        BY DEF CxIs, CxRunsOK
      <3>2. \A i \in 1 .. Len(rs[g]) - 1 : rs[g][i] \in 1 .. Len(cs)
        BY <1>4
      <3>3. \A i \in 1 .. Len(rs[g]) - 1 : ds[rs[g][i]].prev = rs[g][i + 1]
        BY <1>3, <3>1, <3>2 DEF Nested
      <3>4. CASE g # g0
        <4>1. Home(ds, cur2, rs, g) # 0 => ds[Home(ds, cur2, rs, g)].base
          BY <1>3, <2>2, <2>4, <3>1, <3>4 DEF Nested
        <4>2. cur2[ThreadOf[g]] = cur[ThreadOf[g]]
          BY <1>6, <1>8, <3>4
        <4> QED BY <3>1, <3>3, <4>1, <4>2 DEF Nested
      <3>5. CASE g = g0
        BY <1>1, <1>3, <2>1, <2>3, <3>3, <3>5 DEF Nested
      <3> QED BY <3>4, <3>5
    <2>6. \A g, h \in Goid : Home(ds, cur2, rs, g) = Home(ds, cur2, rs, h) =>
              Home(ds, cur2, rs, g) = 0 \/ g = h
      <3> SUFFICES ASSUME NEW g \in Goid, NEW h \in Goid,
                          Home(ds, cur2, rs, g) = Home(ds, cur2, rs, h), g # h
                   PROVE  Home(ds, cur2, rs, g) = 0
        OBVIOUS
      <3>1. CASE g = g0 \/ h = g0
        BY <1>3, <2>2, <2>3, <2>4, <3>1
      <3>2. CASE g # g0 /\ h # g0
        BY <2>2, <3>2 DEF CxIs, CxRunsOK
      <3> QED BY <3>1, <3>2
    <2>7. \A c \in 1 .. Len(ds) : ds[c].entered => InRuns(rs, c) /\ ~ds[c].base
      BY <1>1, <1>3 DEF CxIs, CxRunsOK
    <2>8. \A c \in 1 .. Len(ds) : InRuns(rs, c) => ds[c].entered
      <3> SUFFICES ASSUME NEW c \in 1 .. Len(ds), InRuns(rs, c) PROVE ds[c].entered
        OBVIOUS
      <3>1. c \in 1 .. Len(cs)
        BY <1>4 DEF InRuns
      <3> QED BY <1>3, <3>1 DEF CxIs, CxRunsOK
    <2>9. \A u \in Thread : (\A g \in Goid : ThreadOf[g] # u) => cur2[u] = 0
      BY <1>6 DEF CxIs, CxRunsOK, t
    <2> QED BY <2>5, <2>6, <2>7, <2>8, <2>9 DEF CxIs, CxRunsOK
  <1> QED BY <1>9, <1>10, <1>11, <1>12 DEF CxIs, ds, d, cur2, ver2, t

(* A variable of one context is bound. *)
LEMMA Rebound ==
    ASSUME NEW cs \in Seq(CxContext), NEW c \in 1 .. Len(cs), NEW v \in Var, NEW x \in Bound
    PROVE  /\ [cs EXCEPT ![c].vars[v] = x] \in Seq(CxContext)
           /\ Len([cs EXCEPT ![c].vars[v] = x]) = Len(cs)
           /\ \A e \in 1 .. Len(cs) :
                 /\ [cs EXCEPT ![c].vars[v] = x][e].prev = cs[e].prev
                 /\ [cs EXCEPT ![c].vars[v] = x][e].entered = cs[e].entered
                 /\ [cs EXCEPT ![c].vars[v] = x][e].base = cs[e].base
                 /\ \A w \in Var : [cs EXCEPT ![c].vars[v] = x][e].vars[w] =
                        IF e = c /\ w = v THEN x ELSE cs[e].vars[w]
  <1> DEFINE ds == [cs EXCEPT ![c].vars[v] = x]
             d == [cs[c] EXCEPT !.vars[v] = x]
  <1>0. cs[c] \in CxContext
    OBVIOUS
  <1>1. cs[c].vars \in [Var -> Bound]
    BY <1>0 DEF CxContext
  <1>2. /\ d \in CxContext /\ d.prev = cs[c].prev /\ d.entered = cs[c].entered /\ d.base = cs[c].base
        /\ d.vars = [cs[c].vars EXCEPT ![v] = x]
    BY <1>0, <1>1 DEF CxContext
  <1>3. ds = [cs EXCEPT ![c] = d]
    OBVIOUS
  <1>4. \A w \in Var : d.vars[w] = IF w = v THEN x ELSE cs[c].vars[w]
    BY <1>1, <1>2
  <1> HIDE DEF d
  <1>5. /\ ds \in Seq(CxContext) /\ Len(ds) = Len(cs)
        /\ \A e \in 1 .. Len(cs) : ds[e] = IF e = c THEN d ELSE cs[e]
    BY <1>2, <1>3, ExceptSeq
  <1> HIDE DEF ds
  <1>6. \A e \in 1 .. Len(cs) : ds[e].prev = cs[e].prev
    BY <1>2, <1>5
  <1>7. \A e \in 1 .. Len(cs) : ds[e].entered = cs[e].entered
    BY <1>2, <1>5
  <1>8. \A e \in 1 .. Len(cs) : ds[e].base = cs[e].base
    BY <1>2, <1>5
  <1>9. \A e \in 1 .. Len(cs) : \A w \in Var :
            ds[e].vars[w] = IF e = c /\ w = v THEN x ELSE cs[e].vars[w]
    BY <1>4, <1>5
  <1> QED BY <1>5, <1>6, <1>7, <1>8, <1>9 DEF ds

(* What contexts hold does not matter to who is in which. *)
LEMMA RunsNeedFramesOnly ==
    ASSUME CxAssumption,
           NEW cs, NEW cur, NEW ver, NEW ca, NEW toks, NEW rs, NEW ds,
           CxIs(cs, cur, ver, ca, toks, rs), Len(ds) = Len(cs),
           \A e \in 1 .. Len(cs) : /\ ds[e].prev = cs[e].prev
                                   /\ ds[e].entered = cs[e].entered
                                   /\ ds[e].base = cs[e].base
    PROVE  CxRunsOK(ds, cur, rs)
  <1>1. \A g \in Goid : Len(rs[g]) \in Nat /\ \A i \in 1 .. Len(rs[g]) : rs[g][i] \in 1 .. Len(cs)
    <2>1. cs \in Seq(CxContext) /\ rs \in [Goid -> Seq(1 .. Len(cs))]
      BY DEF CxIs, CxTypes
    <2>2. Len(cs) \in Nat
      BY <2>1
    <2> QED BY <2>1, <2>2, MoreNumbers
  <1>2. \A g \in Goid : Home(ds, cur, rs, g) = Home(cs, cur, rs, g)
    <2> SUFFICES ASSUME NEW g \in Goid PROVE Home(ds, cur, rs, g) = Home(cs, cur, rs, g)
      OBVIOUS
    <2>1. CASE rs[g] = <<>>
      BY <2>1 DEF Home
    <2>2. CASE rs[g] # <<>>
      <3>1. rs[g] \in Seq(1 .. Len(cs))
        BY DEF CxIs, CxTypes
      <3>2. Len(rs[g]) \in 1 .. Len(rs[g])
        BY <2>2, <3>1
      <3> QED BY <1>1, <2>2, <3>2 DEF Home
    <2> QED BY <2>1, <2>2
  <1>3. \A g \in Goid : Nested(ds, cur, rs, g)
    <2> SUFFICES ASSUME NEW g \in Goid PROVE Nested(ds, cur, rs, g)
      OBVIOUS
    <2>1. Nested(cs, cur, rs, g)
      BY DEF CxIs, CxRunsOK
    <2>2. \A i \in 1 .. Len(rs[g]) - 1 : rs[g][i] \in 1 .. Len(cs)
      BY <1>1
    <2>3. \A i \in 1 .. Len(rs[g]) - 1 : ds[rs[g][i]].prev = rs[g][i + 1]
      BY <2>1, <2>2 DEF Nested
    <2>4. Home(cs, cur, rs, g) \in 0 .. Len(cs)
      BY HomeNumber DEF CxIs
    <2>5. Home(ds, cur, rs, g) # 0 => ds[Home(ds, cur, rs, g)].base
      BY <1>2, <2>1, <2>4 DEF Nested
    <2> QED BY <2>1, <2>3, <2>5 DEF Nested
  <1> QED BY <1>2, <1>3 DEF CxIs, CxRunsOK

(* A get: the variable remembers what the thread's context holds. *)
LEMMA RememberKeeps ==
    ASSUME CxAssumption,
           NEW cs, NEW cur, NEW ver, NEW ca, NEW toks, NEW rs,
           CxIs(cs, cur, ver, ca, toks, rs), NEW t \in Thread, NEW v \in Var, cur[t] # 0
    PROVE  CxIs(cs, cur, ver,
                [ca EXCEPT ![v] = [valid |-> TRUE, thread |-> t, version |-> ver[t],
                                   value |-> cs[cur[t]].vars[v]]], toks, rs)
  <1> DEFINE m == [valid |-> TRUE, thread |-> t, version |-> ver[t], value |-> cs[cur[t]].vars[v]]
             ca2 == [ca EXCEPT ![v] = m]
  <1>1. /\ cs \in Seq(CxContext) /\ cur[t] \in 1 .. Len(cs) /\ ver[t] \in Nat
        /\ ca \in [Var -> CxCache]
    BY DEF CxIs, CxTypes
  <1>2. cs[cur[t]] \in CxContext
    BY <1>1
  <1>3. cs[cur[t]].vars[v] \in Bound
    BY <1>2 DEF CxContext
  <1>4. /\ m \in CxCache /\ m.valid /\ m.thread = t /\ m.version = ver[t]
        /\ m.value = cs[cur[t]].vars[v]
    BY <1>1, <1>3 DEF CxCache
  <1> HIDE DEF m
  <1>5. ca2 \in [Var -> CxCache] /\ ca2[v] = m /\ \A w \in Var : w # v => ca2[w] = ca[w]
    BY <1>1, <1>4
  <1> HIDE DEF ca2
  <1>6. CxCacheOK(cs, cur, ver, ca2)
    <2> SUFFICES ASSUME NEW w \in Var, ca2[w].valid
                 PROVE  /\ ca2[w].version <= ver[ca2[w].thread]
                        /\ ca2[w].version = ver[ca2[w].thread] =>
                              /\ cur[ca2[w].thread] # 0
                              /\ cs[cur[ca2[w].thread]].vars[w] = ca2[w].value
      BY DEF CxCacheOK
    <2>1. CASE w = v
      BY <1>1, <1>4, <1>5, <2>1
    <2>2. CASE w # v
      BY <1>5, <2>2 DEF CxIs, CxCacheOK
    <2> QED BY <2>1, <2>2
  <1> QED BY <1>5, <1>6 DEF CxIs, CxTypes, ca2, m

(* A set, in the thread's context, and the token that it gives out. *)
LEMMA SetKeeps ==
    ASSUME CxAssumption,
           NEW cs, NEW cur, NEW ver, NEW ca, NEW toks, NEW rs,
           CxIs(cs, cur, ver, ca, toks, rs),
           NEW t \in Thread, NEW v \in Var, NEW x \in Val, cur[t] # 0
    PROVE  CxIs([cs EXCEPT ![cur[t]].vars[v] = x], cur, ver,
                [ca EXCEPT ![v] = [valid |-> TRUE, thread |-> t, version |-> ver[t], value |-> x]],
                Append(toks, [context |-> cur[t], var |-> v, old |-> cs[cur[t]].vars[v],
                              used |-> FALSE]), rs)
  <1> DEFINE c == cur[t]
             ds == [cs EXCEPT ![c].vars[v] = x]
             m == [valid |-> TRUE, thread |-> t, version |-> ver[t], value |-> x]
             ca2 == [ca EXCEPT ![v] = m]
             tok == [context |-> c, var |-> v, old |-> cs[c].vars[v], used |-> FALSE]
             toks2 == Append(toks, tok)
             n == Len(toks) + 1
  <1>1. /\ cs \in Seq(CxContext) /\ c \in 1 .. Len(cs) /\ ver[t] \in Nat
        /\ ca \in [Var -> CxCache] /\ toks \in Seq(CxToken) /\ Len(cs) \in Nat
    BY DEF CxIs, CxTypes
  <1>2. cs[c] \in CxContext
    BY <1>1
  <1>3. cs[c].vars[v] \in Bound
    BY <1>2 DEF CxContext
  <1>4. /\ m \in CxCache /\ m.valid /\ m.thread = t /\ m.version = ver[t] /\ m.value = x
    BY <1>1 DEF CxCache, Bound
  <1> HIDE DEF m
  <1>5. ca2 \in [Var -> CxCache] /\ ca2[v] = m /\ \A w \in Var : w # v => ca2[w] = ca[w]
    BY <1>1, <1>4
  <1>6. /\ tok \in CxToken /\ tok.context = c /\ tok.var = v /\ tok.old = cs[c].vars[v]
    BY <1>1, <1>3 DEF CxToken
  <1> HIDE DEF ca2, tok
  <1>7. /\ toks2 \in Seq(CxToken) /\ Len(toks2) = n /\ toks2[n] = tok /\ n \in Nat
        /\ \A i \in 1 .. Len(toks) : toks2[i] = toks[i]
    BY <1>1, <1>6
  <1>8. x \in Bound /\ x # Unset
    BY CxConstants DEF Bound
  <1>9. /\ ds \in Seq(CxContext) /\ Len(ds) = Len(cs)
        /\ \A e \in 1 .. Len(cs) :
              /\ ds[e].prev = cs[e].prev /\ ds[e].entered = cs[e].entered /\ ds[e].base = cs[e].base
              /\ \A w \in Var : ds[e].vars[w] = IF e = c /\ w = v THEN x ELSE cs[e].vars[w]
    BY <1>1, <1>8, Rebound
  <1> HIDE DEF ds, toks2
  <1>10. CxTypes(ds, cur, ver, ca2, toks2, rs)
    <2>1. \A i \in 1 .. Len(toks2) : toks2[i].context \in 1 .. Len(ds)
      <3> SUFFICES ASSUME NEW i \in 1 .. Len(toks2) PROVE toks2[i].context \in 1 .. Len(ds)
        OBVIOUS
      <3>1. CASE i \in 1 .. Len(toks)
        BY <1>7, <1>9, <3>1 DEF CxIs, CxTypes
      <3>2. CASE i = n
        BY <1>1, <1>6, <1>7, <1>9, <3>2
      <3> QED BY <1>7, <3>1, <3>2
    <2>2. \A e \in 1 .. Len(ds) : ds[e].prev \in 0 .. Len(ds)
      BY <1>9 DEF CxIs, CxTypes
    <2> QED BY <1>5, <1>7, <1>9, <2>1, <2>2 DEF CxIs, CxTypes
  <1>11. CxCacheOK(ds, cur, ver, ca2)
    <2> SUFFICES ASSUME NEW w \in Var, ca2[w].valid
                 PROVE  /\ ca2[w].version <= ver[ca2[w].thread]
                        /\ ca2[w].version = ver[ca2[w].thread] =>
                              /\ cur[ca2[w].thread] # 0
                              /\ ds[cur[ca2[w].thread]].vars[w] = ca2[w].value
      BY DEF CxCacheOK
    <2>1. CASE w = v
      BY <1>1, <1>4, <1>5, <1>9, <2>1
    <2>2. CASE w # v
      <3>1. ca2[w] = ca[w] /\ ca[w].valid
        BY <1>5, <2>2
      <3>2. ca[w].thread \in Thread
        BY <3>1 DEF CxIs, CxTypes, CxCache
      <3>3. cur[ca[w].thread] \in 0 .. Len(cs)
        BY <3>2 DEF CxIs, CxTypes
      <3>4. /\ ca[w].version <= ver[ca[w].thread]
            /\ ca[w].version = ver[ca[w].thread] =>
                  /\ cur[ca[w].thread] # 0
                  /\ cs[cur[ca[w].thread]].vars[w] = ca[w].value
        BY <3>1 DEF CxIs, CxCacheOK
      <3> QED BY <1>1, <1>9, <2>2, <3>1, <3>3, <3>4
    <2> QED BY <2>1, <2>2
  <1>12. CxTokensOK(ds, toks2)
    <2> SUFFICES ASSUME NEW i \in 1 .. Len(toks2), NEW e \in 1 .. Len(ds), NEW w \in Var,
                        Unsets(toks2[i], e, w)
                 PROVE  /\ ds[e].vars[w] # Unset
                        /\ \A j \in 1 .. Len(toks2) : Unsets(toks2[j], e, w) => i = j
      BY DEF CxTokensOK
    <2>1. Unsets(toks2[n], e, w) => e = c /\ w = v /\ cs[c].vars[v] = Unset
      BY <1>6, <1>7 DEF Unsets
    <2>2. \A j \in 1 .. Len(toks) : Unsets(toks2[j], e, w) =>
              /\ cs[e].vars[w] # Unset
              /\ \A k \in 1 .. Len(toks) : Unsets(toks2[k], e, w) => j = k
      BY <1>7, <1>9 DEF CxIs, CxTokensOK
    <2>3. ds[e].vars[w] # Unset
      <3>1. CASE i \in 1 .. Len(toks)
        <4>1. cs[e].vars[w] # Unset
          BY <2>2, <3>1
        <4> QED BY <1>8, <1>9, <4>1
      <3>2. CASE i = n
        BY <1>1, <1>8, <1>9, <2>1, <3>2
      <3> QED BY <1>7, <3>1, <3>2
    <2>4. \A j \in 1 .. Len(toks2) : Unsets(toks2[j], e, w) => i = j
      <3> SUFFICES ASSUME NEW j \in 1 .. Len(toks2), Unsets(toks2[j], e, w) PROVE i = j
        OBVIOUS
      <3>1. /\ i \in 1 .. Len(toks) \/ i = n
            /\ j \in 1 .. Len(toks) \/ j = n
        BY <1>7
      <3> QED BY <2>1, <2>2, <3>1
    <2> QED BY <2>3, <2>4
  <1>13. CxRunsOK(ds, cur, rs)
    BY <1>9, RunsNeedFramesOnly
  <1> QED BY <1>10, <1>11, <1>12, <1>13 DEF CxIs, ds, toks2, tok, ca2, m

(* A reset, by a token of the thread's context. *)
LEMMA ResetKeeps ==
    ASSUME CxAssumption,
           NEW cs, NEW cur, NEW ver, NEW ca, NEW toks, NEW rs,
           CxIs(cs, cur, ver, ca, toks, rs),
           NEW i \in 1 .. Len(toks), ~toks[i].used
    PROVE  CxIs([cs EXCEPT ![toks[i].context].vars[toks[i].var] = toks[i].old], cur, ver,
                [ca EXCEPT ![toks[i].var] = [valid |-> FALSE]],
                [toks EXCEPT ![i].used = TRUE], rs)
  <1> DEFINE tok == toks[i]
             c == tok.context
             v == tok.var
             x == tok.old
             ds == [cs EXCEPT ![c].vars[v] = x]
             m == [valid |-> FALSE]
             ca2 == [ca EXCEPT ![v] = m]
             new == [tok EXCEPT !.used = TRUE]
             toks2 == [toks EXCEPT ![i].used = TRUE]
  <1>1. /\ cs \in Seq(CxContext) /\ Len(cs) \in Nat /\ c \in 1 .. Len(cs)
        /\ ca \in [Var -> CxCache] /\ toks \in Seq(CxToken)
    BY DEF CxIs, CxTypes
  <1>2. tok \in CxToken
    BY <1>1
  <1>3. v \in Var /\ x \in Bound /\ new \in CxToken /\ new.used /\ new.context = c
    BY <1>2 DEF CxToken
  <1>4. m \in CxCache /\ ~m.valid
    BY DEF CxCache
  <1> HIDE DEF m
  <1>5. ca2 \in [Var -> CxCache] /\ ca2[v] = m /\ \A w \in Var : w # v => ca2[w] = ca[w]
    BY <1>1, <1>3, <1>4
  <1> HIDE DEF ca2
  <1>6. toks2 = [toks EXCEPT ![i] = new]
    BY <1>1
  <1> HIDE DEF new, toks2
  <1>7. /\ toks2 \in Seq(CxToken) /\ Len(toks2) = Len(toks)
        /\ \A j \in 1 .. Len(toks) : toks2[j] = IF j = i THEN new ELSE toks[j]
    BY <1>1, <1>3, <1>6, ExceptSeq
  <1>8. /\ ds \in Seq(CxContext) /\ Len(ds) = Len(cs)
        /\ \A e \in 1 .. Len(cs) :
              /\ ds[e].prev = cs[e].prev /\ ds[e].entered = cs[e].entered /\ ds[e].base = cs[e].base
              /\ \A w \in Var : ds[e].vars[w] = IF e = c /\ w = v THEN x ELSE cs[e].vars[w]
    <2> HIDE DEF c, v, x
    <2> QED BY <1>1, <1>3, Rebound
  <1> HIDE DEF ds
  <1>9. CxTypes(ds, cur, ver, ca2, toks2, rs)
    <2>1. \A j \in 1 .. Len(toks2) : toks2[j].context \in 1 .. Len(ds)
      BY <1>1, <1>3, <1>7, <1>8 DEF CxIs, CxTypes
    <2>2. \A e \in 1 .. Len(ds) : ds[e].prev \in 0 .. Len(ds)
      BY <1>8 DEF CxIs, CxTypes
    <2> QED BY <1>5, <1>7, <1>8, <2>1, <2>2 DEF CxIs, CxTypes
  <1>10. CxCacheOK(ds, cur, ver, ca2)
    <2> SUFFICES ASSUME NEW w \in Var, ca2[w].valid
                 PROVE  /\ ca2[w].version <= ver[ca2[w].thread]
                        /\ ca2[w].version = ver[ca2[w].thread] =>
                              /\ cur[ca2[w].thread] # 0
                              /\ ds[cur[ca2[w].thread]].vars[w] = ca2[w].value
      BY DEF CxCacheOK
    <2>1. w # v
      BY <1>4, <1>5
    <2>2. ca2[w] = ca[w] /\ ca[w].valid
      BY <1>5, <2>1
    <2>3. ca[w].thread \in Thread
      BY <2>2 DEF CxIs, CxTypes, CxCache
    <2>4. cur[ca[w].thread] \in 0 .. Len(cs)
      BY <2>3 DEF CxIs, CxTypes
    <2>5. /\ ca[w].version <= ver[ca[w].thread]
          /\ ca[w].version = ver[ca[w].thread] =>
                /\ cur[ca[w].thread] # 0
                /\ cs[cur[ca[w].thread]].vars[w] = ca[w].value
      BY <2>2 DEF CxIs, CxCacheOK
    <2> QED BY <1>1, <1>8, <2>1, <2>2, <2>4, <2>5
  <1>11. CxTokensOK(ds, toks2)
    <2> SUFFICES ASSUME NEW j \in 1 .. Len(toks2), NEW e \in 1 .. Len(ds), NEW w \in Var,
                        Unsets(toks2[j], e, w)
                 PROVE  /\ ds[e].vars[w] # Unset
                        /\ \A k \in 1 .. Len(toks2) : Unsets(toks2[k], e, w) => j = k
      BY DEF CxTokensOK
    <2>1. \A k \in 1 .. Len(toks) : Unsets(toks2[k], e, w) => k # i /\ Unsets(toks[k], e, w)
      BY <1>3, <1>7 DEF Unsets
    <2>2. /\ j \in 1 .. Len(toks) /\ j # i /\ Unsets(toks[j], e, w)
          /\ cs[e].vars[w] # Unset
          /\ \A k \in 1 .. Len(toks) : Unsets(toks[k], e, w) => j = k
      BY <1>7, <1>8, <2>1 DEF CxIs, CxTokensOK
    <2>3. e = c /\ w = v => x # Unset
      BY <2>2 DEF Unsets
    <2> QED BY <1>7, <1>8, <2>1, <2>2, <2>3
  <1>12. CxRunsOK(ds, cur, rs)
    BY <1>8, RunsNeedFramesOnly
  <1> QED BY <1>9, <1>10, <1>11, <1>12 DEF CxIs, ds, toks2, ca2, m

(* A context is entered. *)
LEMMA EnterKeeps ==
    ASSUME CxAssumption,
           NEW cs, NEW cur, NEW ver, NEW ca, NEW toks, NEW rs,
           CxIs(cs, cur, ver, ca, toks, rs),
           NEW g0 \in Goid, NEW c \in 1 .. Len(cs), ~cs[c].base, ~cs[c].entered
    PROVE  CxIs([cs EXCEPT ![c].prev = cur[ThreadOf[g0]], ![c].entered = TRUE],
                [cur EXCEPT ![ThreadOf[g0]] = c], [ver EXCEPT ![ThreadOf[g0]] = @ + 1],
                ca, toks, [rs EXCEPT ![g0] = <<c>> \o @])
  <1> DEFINE t == ThreadOf[g0]
             p == cur[t]
             d == [cs[c] EXCEPT !.prev = p, !.entered = TRUE]
             ds == [cs EXCEPT ![c].prev = p, ![c].entered = TRUE]
             cur2 == [cur EXCEPT ![t] = c]
             ver2 == [ver EXCEPT ![t] = @ + 1]
             s == <<c>> \o rs[g0]
             rs2 == [rs EXCEPT ![g0] = <<c>> \o @]
  <1>1. /\ cs \in Seq(CxContext) /\ Len(cs) \in Nat /\ ver \in [Thread -> Nat]
        /\ cur \in [Thread -> 0 .. Len(cs)] /\ rs \in [Goid -> Seq(1 .. Len(cs))]
    BY DEF CxIs, CxTypes
  <1>2. t \in Thread /\ p \in 0 .. Len(cs) /\ p \in Nat
    BY <1>1, CxConstants
  <1>3. \A g \in Goid : g # g0 => ThreadOf[g] \in Thread /\ ThreadOf[g] # t
    BY CxConstants
  <1>4. cs[c] \in CxContext
    BY <1>1
  <1>5. /\ d \in CxContext /\ d.prev = p /\ d.entered /\ d.base = cs[c].base
        /\ d.vars = cs[c].vars
    <2> HIDE DEF p
    <2> QED BY <1>2, <1>4 DEF CxContext
  <1>6. ds = [cs EXCEPT ![c] = d]
    BY <1>1
  <1> HIDE DEF d, ds
  <1>7. /\ ds \in Seq(CxContext) /\ Len(ds) = Len(cs)
        /\ \A e \in 1 .. Len(cs) : ds[e] = IF e = c THEN d ELSE cs[e]
    BY <1>1, <1>5, <1>6, ExceptSeq
  <1>8. /\ cur2 \in [Thread -> 0 .. Len(cs)] /\ cur2[t] = c
        /\ \A u \in Thread : u # t => cur2[u] = cur[u]
    BY <1>1, <1>2
  <1>9. /\ ver2 \in [Thread -> Nat] /\ ver2[t] = ver[t] + 1
        /\ \A u \in Thread : u # t => ver2[u] = ver[u]
    BY <1>1, <1>2
  <1>10. rs[g0] \in Seq(1 .. Len(cs))
    BY <1>1
  <1>11. /\ s \in Seq(1 .. Len(cs)) /\ Len(rs[g0]) \in Nat /\ Len(s) = Len(rs[g0]) + 1
         /\ s[1] = c /\ \A i \in 1 .. Len(rs[g0]) : s[i + 1] = rs[g0][i]
    BY <1>10
  <1>12. /\ rs2 \in [Goid -> Seq(1 .. Len(cs))] /\ rs2[g0] = s
         /\ \A g \in Goid : g # g0 => rs2[g] = rs[g]
    BY <1>1, <1>11
  <1> HIDE DEF cur2, ver2, rs2, s
  <1>13. \A g \in Goid : Len(rs[g]) \in Nat /\ \A i \in 1 .. Len(rs[g]) : rs[g][i] \in 1 .. Len(cs)
    BY <1>1, MoreNumbers
  <1>14. CxTypes(ds, cur2, ver2, ca, toks, rs2)
    <2>1. \A e \in 1 .. Len(ds) : ds[e].prev \in 0 .. Len(ds)
      BY <1>2, <1>5, <1>7 DEF CxIs, CxTypes
    <2> QED BY <1>7, <1>8, <1>9, <1>12, <2>1 DEF CxIs, CxTypes
  <1>15. \A e \in 1 .. Len(cs) : ds[e].vars = cs[e].vars /\ ds[e].base = cs[e].base
    BY <1>5, <1>7
  <1>16. CxCacheOK(ds, cur2, ver2, ca)
    <2> SUFFICES ASSUME NEW v \in Var, ca[v].valid
                 PROVE  /\ ca[v].version <= ver2[ca[v].thread]
                        /\ ca[v].version = ver2[ca[v].thread] =>
                              /\ cur2[ca[v].thread] # 0
                              /\ ds[cur2[ca[v].thread]].vars[v] = ca[v].value
      BY DEF CxCacheOK
    <2>1. ca[v].thread \in Thread /\ ca[v].version \in Nat
      BY DEF CxIs, CxTypes, CxCache
    <2>2. cur[ca[v].thread] \in 0 .. Len(cs) /\ ver[ca[v].thread] \in Nat
      BY <1>1, <2>1
    <2>3. /\ ca[v].version <= ver[ca[v].thread]
          /\ ca[v].version = ver[ca[v].thread] =>
                /\ cur[ca[v].thread] # 0
                /\ cs[cur[ca[v].thread]].vars[v] = ca[v].value
      BY DEF CxIs, CxCacheOK
    <2>4. CASE ca[v].thread = t
      BY <1>9, <2>1, <2>2, <2>3, <2>4
    <2>5. CASE ca[v].thread # t
      BY <1>8, <1>9, <1>15, <2>1, <2>2, <2>3, <2>5
    <2> QED BY <2>4, <2>5
  <1>17. CxTokensOK(ds, toks)
    BY <1>7, <1>15 DEF CxIs, CxTokensOK
  <1>18. CxRunsOK(ds, cur2, rs2)
    <2>1. \A g \in Goid : \A i \in 1 .. Len(rs[g]) : rs[g][i] # c
      BY DEF CxIs, CxRunsOK, InRuns
    <2>2. \A g \in Goid : Home(ds, cur2, rs2, g) = Home(cs, cur, rs, g)
      <3> SUFFICES ASSUME NEW g \in Goid PROVE Home(ds, cur2, rs2, g) = Home(cs, cur, rs, g)
        OBVIOUS
      <3>1. rs[g] # <<>> => /\ Len(rs[g]) \in 1 .. Len(rs[g])
                            /\ ds[rs[g][Len(rs[g])]].prev = cs[rs[g][Len(rs[g])]].prev
        <4> SUFFICES ASSUME rs[g] # <<>>
                     PROVE  /\ Len(rs[g]) \in 1 .. Len(rs[g])
                            /\ ds[rs[g][Len(rs[g])]].prev = cs[rs[g][Len(rs[g])]].prev
          OBVIOUS
        <4>1. rs[g] \in Seq(1 .. Len(cs))
          BY <1>1
        <4>2. Len(rs[g]) \in 1 .. Len(rs[g])
          BY <4>1
        <4> QED BY <1>7, <1>13, <2>1, <4>2
      <3>2. CASE g # g0
        <4>1. rs2[g] = rs[g] /\ cur2[ThreadOf[g]] = cur[ThreadOf[g]]
          BY <1>3, <1>8, <1>12, <3>2
        <4> QED BY <3>1, <4>1 DEF Home
      <3>3. CASE g = g0 /\ rs[g0] = <<>>
        <4>0. Len(rs[g0]) = 0
          BY <3>3
        <4>1. Len(s) = 1 /\ s # <<>>
          BY <1>11, <4>0
        <4>2. rs2[g0] # <<>> /\ rs2[g0][Len(rs2[g0])] = c
          BY <1>11, <1>12, <4>1
        <4> QED BY <1>5, <1>7, <3>3, <4>2 DEF Home
      <3>4. CASE g = g0 /\ rs[g0] # <<>>
        <4>1. rs2[g0] # <<>> /\ rs2[g0][Len(rs2[g0])] = rs[g0][Len(rs[g0])]
          <5>1. Len(rs[g0]) \in 1 .. Len(rs[g0])
            BY <3>1, <3>4
          <5>2. s[Len(rs[g0]) + 1] = rs[g0][Len(rs[g0])]
            BY <1>11, <5>1
          <5>3. s # <<>>
            BY <1>11, <5>1
          <5> QED BY <1>11, <1>12, <5>2, <5>3
        <4> QED BY <3>1, <3>4, <4>1 DEF Home
      <3> QED BY <3>2, <3>3, <3>4
    <2>3. \A g \in Goid : Nested(ds, cur2, rs2, g)
      <3> SUFFICES ASSUME NEW g \in Goid PROVE Nested(ds, cur2, rs2, g)
        OBVIOUS
      <3>1. Nested(cs, cur, rs, g)
        BY DEF CxIs, CxRunsOK
      <3>2. Home(cs, cur, rs, g) \in 0 .. Len(cs)
        BY HomeNumber DEF CxIs
      <3>3. Home(ds, cur2, rs2, g) # 0 => ds[Home(ds, cur2, rs2, g)].base
        BY <1>15, <2>2, <3>1, <3>2 DEF Nested
      <3>4. \A i \in 1 .. Len(rs[g]) - 1 : ds[rs[g][i]].prev = rs[g][i + 1]
        <4> SUFFICES ASSUME NEW i \in 1 .. Len(rs[g]) - 1 PROVE ds[rs[g][i]].prev = rs[g][i + 1]
          OBVIOUS
        <4>1. i \in 1 .. Len(rs[g])
          BY <1>13
        <4>2. rs[g][i] \in 1 .. Len(cs) /\ rs[g][i] # c
          BY <1>13, <2>1, <4>1
        <4>3. cs[rs[g][i]].prev = rs[g][i + 1]
          BY <3>1 DEF Nested
        <4> QED BY <1>7, <4>2, <4>3
      <3>5. CASE g # g0
        <4>1. rs2[g] = rs[g] /\ cur2[ThreadOf[g]] = cur[ThreadOf[g]]
          BY <1>3, <1>8, <1>12, <3>5
        <4> QED BY <3>1, <3>3, <3>4, <4>1 DEF Nested
      <3>6. CASE g = g0
        <4>1. cur2[ThreadOf[g]] = rs2[g][1]
          BY <1>8, <1>11, <1>12, <3>6
        <4>2. \A i \in 1 .. Len(s) - 1 : ds[s[i]].prev = s[i + 1]
          <5> SUFFICES ASSUME NEW i \in 1 .. Len(s) - 1 PROVE ds[s[i]].prev = s[i + 1]
            OBVIOUS
          <5>1. CASE i = 1
            <6>1. 1 \in 1 .. Len(rs[g0]) /\ rs[g0] # <<>>
              BY <1>11, <5>1
            <6>2. s[2] = rs[g0][1]
              BY <1>11, <6>1
            <6>3. p = rs[g0][1]
              BY <3>1, <3>6, <6>1 DEF Nested
            <6> QED BY <1>5, <1>7, <1>11, <5>1, <6>2, <6>3
          <5>2. CASE i # 1
            <6>1. i - 1 \in 1 .. Len(rs[g0]) - 1 /\ i - 1 \in 1 .. Len(rs[g0]) /\ i \in 1 .. Len(rs[g0])
              <7>1. Len(rs[g0]) \in Nat /\ Len(s) = Len(rs[g0]) + 1 /\ i \in Int
                BY <1>11
              <7>2. i >= 2 /\ i <= Len(rs[g0])
                BY <5>2, <7>1
              <7> QED BY <7>1, <7>2
            <6>2. s[(i - 1) + 1] = rs[g0][i - 1] /\ s[i + 1] = rs[g0][i]
              BY <1>11, <6>1
            <6>3. (i - 1) + 1 = i
              OBVIOUS
            <6>4. ds[rs[g0][i - 1]].prev = rs[g0][(i - 1) + 1]
              BY <3>4, <3>6, <6>1
            <6> QED BY <6>2, <6>3, <6>4
          <5> QED BY <5>1, <5>2
        <4> QED BY <1>12, <3>3, <3>6, <4>1, <4>2 DEF Nested
      <3> QED BY <3>5, <3>6
    <2>4. \A g, h \in Goid : Home(ds, cur2, rs2, g) = Home(ds, cur2, rs2, h) =>
              Home(ds, cur2, rs2, g) = 0 \/ g = h
      BY <2>2 DEF CxIs, CxRunsOK
    <2>5. \A g \in Goid : \A i \in 1 .. Len(rs2[g]) :
              \/ g = g0 /\ i = 1 /\ rs2[g][i] = c
              \/ g = g0 /\ i - 1 \in 1 .. Len(rs[g]) /\ rs2[g][i] = rs[g][i - 1]
              \/ g # g0 /\ i \in 1 .. Len(rs[g]) /\ rs2[g][i] = rs[g][i]
      <3> SUFFICES ASSUME NEW g \in Goid, NEW i \in 1 .. Len(rs2[g])
                   PROVE  \/ g = g0 /\ i = 1 /\ rs2[g][i] = c
                          \/ g = g0 /\ i - 1 \in 1 .. Len(rs[g]) /\ rs2[g][i] = rs[g][i - 1]
                          \/ g # g0 /\ i \in 1 .. Len(rs[g]) /\ rs2[g][i] = rs[g][i]
        OBVIOUS
      <3>1. CASE g # g0
        BY <1>12, <3>1
      <3>2. CASE g = g0 /\ i = 1
        BY <1>11, <1>12, <3>2
      <3>3. CASE g = g0 /\ i # 1
        <4>1. i \in 1 .. Len(s) /\ i - 1 \in 1 .. Len(rs[g0])
          <5>1. i \in 1 .. Len(s)
            BY <1>12, <3>3
          <5>2. Len(rs[g0]) \in Nat /\ Len(s) = Len(rs[g0]) + 1
            BY <1>11
          <5> QED BY <3>3, <5>1, <5>2
        <4>2. s[(i - 1) + 1] = rs[g0][i - 1] /\ (i - 1) + 1 = i
          BY <1>11, <4>1
        <4> QED BY <1>12, <3>3, <4>1, <4>2
      <3> QED BY <3>1, <3>2, <3>3
    <2>6. \A g, h \in Goid : \A i \in 1 .. Len(rs2[g]), j \in 1 .. Len(rs2[h]) :
              rs2[g][i] = rs2[h][j] => g = h /\ i = j
      <3> SUFFICES ASSUME NEW g \in Goid, NEW h \in Goid, NEW i \in 1 .. Len(rs2[g]),
                          NEW j \in 1 .. Len(rs2[h]), rs2[g][i] = rs2[h][j]
                   PROVE  g = h /\ i = j
        OBVIOUS
      <3>1. \A k \in 1 .. Len(rs[g]), l \in 1 .. Len(rs[h]) : rs[g][k] = rs[h][l] => g = h /\ k = l
        BY DEF CxIs, CxRunsOK
      <3>2. i \in Int /\ j \in Int
        OBVIOUS
      <3>3. CASE g = g0 /\ i = 1
        <4>1. rs2[h][j] = c
          BY <2>5, <3>3
        <4> QED BY <2>1, <2>5, <3>3, <4>1
      <3>4. CASE h = g0 /\ j = 1
        <4>1. rs2[g][i] = c
          BY <2>5, <3>4
        <4> QED BY <2>1, <2>5, <3>4, <4>1
      <3>5. CASE ~(g = g0 /\ i = 1) /\ ~(h = g0 /\ j = 1)
        <4>1. PICK k \in 1 .. Len(rs[g]) : /\ rs2[g][i] = rs[g][k]
                                           /\ k = IF g = g0 THEN i - 1 ELSE i
          BY <2>5, <3>5
        <4>2. PICK l \in 1 .. Len(rs[h]) : /\ rs2[h][j] = rs[h][l]
                                           /\ l = IF h = g0 THEN j - 1 ELSE j
          BY <2>5, <3>5
        <4>3. g = h /\ k = l
          BY <3>1, <4>1, <4>2
        <4> QED BY <3>2, <4>1, <4>2, <4>3
      <3> QED BY <3>3, <3>4, <3>5
    <2>7. \A e \in 1 .. Len(cs) : InRuns(rs2, e) => e = c \/ InRuns(rs, e)
      <3> SUFFICES ASSUME NEW e \in 1 .. Len(cs), InRuns(rs2, e), e # c PROVE InRuns(rs, e)
        OBVIOUS
      <3>1. PICK g \in Goid : \E i \in 1 .. Len(rs2[g]) : rs2[g][i] = e
        BY DEF InRuns
      <3>2. PICK i \in 1 .. Len(rs2[g]) : rs2[g][i] = e
        BY <3>1
      <3> QED BY <2>5, <3>2 DEF InRuns
    <2>8. \A e \in 1 .. Len(cs) : e = c \/ InRuns(rs, e) => InRuns(rs2, e)
      <3> SUFFICES ASSUME NEW e \in 1 .. Len(cs), e = c \/ InRuns(rs, e) PROVE InRuns(rs2, e)
        OBVIOUS
      <3>1. CASE e = c
        <4>1. 1 \in 1 .. Len(rs2[g0]) /\ rs2[g0][1] = c
          BY <1>11, <1>12
        <4> QED BY <3>1, <4>1 DEF InRuns
      <3>2. CASE InRuns(rs, e)
        <4>1. PICK g \in Goid : \E i \in 1 .. Len(rs[g]) : rs[g][i] = e
          BY <3>2 DEF InRuns
        <4>2. PICK i \in 1 .. Len(rs[g]) : rs[g][i] = e
          BY <4>1
        <4>3. CASE g # g0
          BY <1>12, <4>2, <4>3 DEF InRuns
        <4>4. CASE g = g0
          <5>1. i + 1 \in 1 .. Len(rs2[g0]) /\ rs2[g0][i + 1] = e
            <6>1. i \in 1 .. Len(rs[g0]) /\ rs[g0][i] = e
              BY <4>2, <4>4
            <6>2. Len(rs[g0]) \in Nat /\ Len(s) = Len(rs[g0]) + 1
              BY <1>11
            <6>3. i + 1 \in 1 .. Len(s)
              BY <6>1, <6>2
            <6>4. s[i + 1] = e
              BY <1>11, <6>1
            <6> QED BY <1>12, <6>3, <6>4
          <5> QED BY <5>1 DEF InRuns
        <4> QED BY <4>3, <4>4
      <3> QED BY <3>1, <3>2
    <2>9. \A e \in 1 .. Len(ds) : ds[e].entered => InRuns(rs2, e) /\ ~ds[e].base
      BY <1>5, <1>7, <2>8 DEF CxIs, CxRunsOK
    <2>10. \A e \in 1 .. Len(ds) : InRuns(rs2, e) => ds[e].entered
      BY <1>5, <1>7, <2>7 DEF CxIs, CxRunsOK
    <2>11. \A u \in Thread : (\A g \in Goid : ThreadOf[g] # u) => cur2[u] = 0
      BY <1>8 DEF CxIs, CxRunsOK
    <2> QED BY <2>3, <2>4, <2>6, <2>9, <2>10, <2>11 DEF CxRunsOK
  <1> QED BY <1>14, <1>16, <1>17, <1>18 DEF CxIs, ds, cur2, ver2, rs2, d, s

(* The innermost run of a goroutine is over.  Its thread is in that context *)
(* still, and so Exit does not fail.                                       *)
LEMMA ExitKeeps ==
    ASSUME CxAssumption,
           NEW cs, NEW cur, NEW ver, NEW ca, NEW toks, NEW rs,
           CxIs(cs, cur, ver, ca, toks, rs),
           NEW g0 \in Goid, rs[g0] # <<>>
    PROVE  /\ cs[Head(rs[g0])].entered /\ cur[ThreadOf[g0]] = Head(rs[g0])
           /\ CxIs([cs EXCEPT ![Head(rs[g0])].prev = 0, ![Head(rs[g0])].entered = FALSE],
                   [cur EXCEPT ![ThreadOf[g0]] = cs[Head(rs[g0])].prev],
                   [ver EXCEPT ![ThreadOf[g0]] = @ + 1],
                   ca, toks, [rs EXCEPT ![g0] = Tail(@)])
  <1> DEFINE t == ThreadOf[g0]
             c == Head(rs[g0])
             p == cs[c].prev
             d == [cs[c] EXCEPT !.prev = 0, !.entered = FALSE]
             ds == [cs EXCEPT ![c].prev = 0, ![c].entered = FALSE]
             cur2 == [cur EXCEPT ![t] = p]
             ver2 == [ver EXCEPT ![t] = @ + 1]
             s == Tail(rs[g0])
             rs2 == [rs EXCEPT ![g0] = Tail(@)]
  <1>1. /\ cs \in Seq(CxContext) /\ Len(cs) \in Nat /\ ver \in [Thread -> Nat]
        /\ cur \in [Thread -> 0 .. Len(cs)] /\ rs \in [Goid -> Seq(1 .. Len(cs))]
    BY DEF CxIs, CxTypes
  <1>2. rs[g0] \in Seq(1 .. Len(cs))
    BY <1>1
  <1>3. /\ Len(rs[g0]) \in Nat /\ Len(rs[g0]) >= 1 /\ c = rs[g0][1] /\ c \in 1 .. Len(cs)
        /\ 1 \in 1 .. Len(rs[g0])
    <2>1. Len(rs[g0]) \in Nat /\ Len(rs[g0]) # 0
      BY <1>2, EmptySeq
    <2>2. c = rs[g0][1] /\ 1 \in 1 .. Len(rs[g0])
      BY <1>2, <2>1
    <2> QED BY <1>2, <2>1, <2>2
  <1>4. /\ s \in Seq(1 .. Len(cs)) /\ Len(s) = Len(rs[g0]) - 1
        /\ \A i \in 1 .. Len(s) : s[i] = rs[g0][i + 1]
    BY <1>2, HeadTailProperties
  <1> HIDE DEF c, s
  <1>5. cs[c] \in CxContext /\ p \in 0 .. Len(cs)
    BY <1>1, <1>3 DEF CxIs, CxTypes
  <1>6. t \in Thread
    BY CxConstants
  <1>7. \A g \in Goid : g # g0 => ThreadOf[g] \in Thread /\ ThreadOf[g] # t
    BY CxConstants
  <1>8. cs[c].entered /\ ~cs[c].base /\ cur[t] = c
    <2>1. InRuns(rs, c)
      BY <1>3 DEF InRuns
    <2>2. cs[c].entered
      BY <1>3, <2>1 DEF CxIs, CxRunsOK
    <2>3. ~cs[c].base
      BY <1>3, <2>2 DEF CxIs, CxRunsOK
    <2>4. cur[t] = c
      BY <1>3 DEF CxIs, CxRunsOK, Nested
    <2> QED BY <2>2, <2>3, <2>4
  <1>9. /\ d \in CxContext /\ d.prev = 0 /\ ~d.entered /\ d.base = cs[c].base
        /\ d.vars = cs[c].vars
    BY <1>5 DEF CxContext
  <1>10. ds = [cs EXCEPT ![c] = d]
    BY <1>1, <1>3
  <1> HIDE DEF d, ds, p
  <1>11. /\ ds \in Seq(CxContext) /\ Len(ds) = Len(cs)
         /\ \A e \in 1 .. Len(cs) : ds[e] = IF e = c THEN d ELSE cs[e]
    BY <1>1, <1>3, <1>9, <1>10, ExceptSeq
  <1>12. /\ cur2 \in [Thread -> 0 .. Len(cs)] /\ cur2[t] = p
         /\ \A u \in Thread : u # t => cur2[u] = cur[u]
    BY <1>1, <1>5, <1>6
  <1>13. /\ ver2 \in [Thread -> Nat] /\ ver2[t] = ver[t] + 1
         /\ \A u \in Thread : u # t => ver2[u] = ver[u]
    BY <1>1, <1>6
  <1>14. /\ rs2 \in [Goid -> Seq(1 .. Len(cs))] /\ rs2[g0] = s
         /\ \A g \in Goid : g # g0 => rs2[g] = rs[g]
    BY <1>1, <1>4 DEF s
  <1> HIDE DEF cur2, ver2, rs2
  <1>15. \A g \in Goid : Len(rs[g]) \in Nat /\ \A i \in 1 .. Len(rs[g]) : rs[g][i] \in 1 .. Len(cs)
    BY <1>1, MoreNumbers
  <1>16. CxTypes(ds, cur2, ver2, ca, toks, rs2)
    <2>1. \A e \in 1 .. Len(ds) : ds[e].prev \in 0 .. Len(ds)
      BY <1>1, <1>9, <1>11 DEF CxIs, CxTypes
    <2> QED BY <1>11, <1>12, <1>13, <1>14, <2>1 DEF CxIs, CxTypes
  <1>17. \A e \in 1 .. Len(cs) : ds[e].vars = cs[e].vars /\ ds[e].base = cs[e].base
    BY <1>9, <1>11
  <1>18. CxCacheOK(ds, cur2, ver2, ca)
    <2> SUFFICES ASSUME NEW v \in Var, ca[v].valid
                 PROVE  /\ ca[v].version <= ver2[ca[v].thread]
                        /\ ca[v].version = ver2[ca[v].thread] =>
                              /\ cur2[ca[v].thread] # 0
                              /\ ds[cur2[ca[v].thread]].vars[v] = ca[v].value
      BY DEF CxCacheOK
    <2>1. ca[v].thread \in Thread /\ ca[v].version \in Nat
      BY DEF CxIs, CxTypes, CxCache
    <2>2. cur[ca[v].thread] \in 0 .. Len(cs) /\ ver[ca[v].thread] \in Nat
      BY <1>1, <2>1
    <2>3. /\ ca[v].version <= ver[ca[v].thread]
          /\ ca[v].version = ver[ca[v].thread] =>
                /\ cur[ca[v].thread] # 0
                /\ cs[cur[ca[v].thread]].vars[v] = ca[v].value
      BY DEF CxIs, CxCacheOK
    <2>4. CASE ca[v].thread = t
      BY <1>13, <2>1, <2>2, <2>3, <2>4
    <2>5. CASE ca[v].thread # t
      BY <1>12, <1>13, <1>17, <2>1, <2>2, <2>3, <2>5
    <2> QED BY <2>4, <2>5
  <1>19. CxTokensOK(ds, toks)
    BY <1>11, <1>17 DEF CxIs, CxTokensOK
  <1>20. CxRunsOK(ds, cur2, rs2)
    <2>1. \A g, h \in Goid : \A i \in 1 .. Len(rs[g]), j \in 1 .. Len(rs[h]) :
              rs[g][i] = rs[h][j] => g = h /\ i = j
      BY DEF CxIs, CxRunsOK
    <2>2. \A g \in Goid : \A i \in 1 .. Len(rs[g]) : rs[g][i] = c => g = g0 /\ i = 1
      BY <1>3, <2>1
    <2>3. \A g \in Goid : Home(ds, cur2, rs2, g) = Home(cs, cur, rs, g)
      <3> SUFFICES ASSUME NEW g \in Goid PROVE Home(ds, cur2, rs2, g) = Home(cs, cur, rs, g)
        OBVIOUS
      <3>1. rs[g] # <<>> => Len(rs[g]) \in 1 .. Len(rs[g])
        <4>1. rs[g] \in Seq(1 .. Len(cs))
          BY <1>1
        <4> QED BY <4>1
      <3>2. CASE g # g0
        <4>1. rs2[g] = rs[g] /\ cur2[ThreadOf[g]] = cur[ThreadOf[g]]
          BY <1>7, <1>12, <1>14, <3>2
        <4>2. rs[g] # <<>> => ds[rs[g][Len(rs[g])]].prev = cs[rs[g][Len(rs[g])]].prev
          BY <1>11, <1>15, <2>2, <3>1, <3>2
        <4> QED BY <4>1, <4>2 DEF Home
      <3>3. CASE g = g0 /\ Len(rs[g0]) = 1
        <4>1. s = <<>>
          BY <1>4, <3>3
        <4>2. rs[g0][Len(rs[g0])] = c
          BY <1>3, <3>3
        <4> QED BY <1>12, <1>14, <3>3, <4>1, <4>2 DEF Home, p
      <3>4. CASE g = g0 /\ Len(rs[g0]) # 1
        <4>1. Len(s) \in 1 .. Len(s) /\ Len(s) + 1 = Len(rs[g0]) /\ s # <<>>
          <5>1. Len(s) \in Nat /\ Len(s) # 0 /\ Len(s) + 1 = Len(rs[g0])
            BY <1>3, <1>4, <3>4
          <5>2. s # <<>>
            BY <5>1
          <5> QED BY <5>1, <5>2
        <4>2. s[Len(s)] = rs[g0][Len(rs[g0])]
          BY <1>4, <4>1
        <4>3. rs[g0][Len(rs[g0])] # c
          BY <2>2, <3>1, <3>4
        <4>4. ds[rs[g0][Len(rs[g0])]].prev = cs[rs[g0][Len(rs[g0])]].prev
          BY <1>11, <1>15, <3>1, <3>4, <4>3
        <4> QED BY <1>14, <3>4, <4>1, <4>2, <4>4 DEF Home
      <3> QED BY <3>2, <3>3, <3>4
    <2>4. \A g \in Goid : Nested(ds, cur2, rs2, g)
      <3> SUFFICES ASSUME NEW g \in Goid PROVE Nested(ds, cur2, rs2, g)
        OBVIOUS
      <3>1. Nested(cs, cur, rs, g)
        BY DEF CxIs, CxRunsOK
      <3>2. Home(cs, cur, rs, g) \in 0 .. Len(cs)
        BY HomeNumber DEF CxIs
      <3>3. Home(ds, cur2, rs2, g) # 0 => ds[Home(ds, cur2, rs2, g)].base
        BY <1>17, <2>3, <3>1, <3>2 DEF Nested
      <3>4. CASE g # g0
        <4>1. rs2[g] = rs[g] /\ cur2[ThreadOf[g]] = cur[ThreadOf[g]]
          BY <1>7, <1>12, <1>14, <3>4
        <4>2. \A i \in 1 .. Len(rs[g]) - 1 : i \in 1 .. Len(rs[g])
          BY <1>15
        <4>3. \A i \in 1 .. Len(rs[g]) - 1 : ds[rs[g][i]].prev = rs[g][i + 1]
          BY <1>11, <1>15, <2>2, <3>1, <3>4, <4>2 DEF Nested
        <4> QED BY <3>1, <3>3, <4>1, <4>3 DEF Nested
      <3>5. CASE g = g0
        <4>1. s # <<>> => p = s[1]
          <5> SUFFICES ASSUME s # <<>> PROVE p = s[1]
            OBVIOUS
          <5>1. 1 \in 1 .. Len(s) /\ 1 \in 1 .. Len(rs[g0]) - 1
            BY <1>4
          <5>2. cs[rs[g0][1]].prev = rs[g0][1 + 1]
            BY <3>1, <3>5, <5>1 DEF Nested
          <5> QED BY <1>3, <1>4, <5>1, <5>2 DEF p
        <4>2. \A i \in 1 .. Len(s) - 1 : ds[s[i]].prev = s[i + 1]
          <5> SUFFICES ASSUME NEW i \in 1 .. Len(s) - 1 PROVE ds[s[i]].prev = s[i + 1]
            OBVIOUS
          <5>1. /\ i \in 1 .. Len(s) /\ i + 1 \in 1 .. Len(s) /\ i + 1 \in 1 .. Len(rs[g0]) - 1
                /\ i + 1 \in 1 .. Len(rs[g0]) /\ i + 1 # 1
            <6>1. Len(rs[g0]) \in Nat /\ Len(s) = Len(rs[g0]) - 1
              BY <1>3, <1>4
            <6>2. i \in Int /\ i >= 1 /\ i + 1 <= Len(s)
              BY <6>1
            <6> QED BY <6>1, <6>2
          <5>2. s[i] = rs[g0][i + 1] /\ s[i + 1] = rs[g0][(i + 1) + 1]
            BY <1>4, <5>1
          <5>3. cs[rs[g0][i + 1]].prev = rs[g0][(i + 1) + 1]
            BY <3>1, <3>5, <5>1 DEF Nested
          <5>4. rs[g0][i + 1] # c /\ rs[g0][i + 1] \in 1 .. Len(cs)
            BY <1>15, <2>2, <5>1
          <5> QED BY <1>11, <5>2, <5>3, <5>4
        <4> QED BY <1>12, <1>14, <3>3, <3>5, <4>1, <4>2 DEF Nested
      <3> QED BY <3>4, <3>5
    <2>5. \A g, h \in Goid : Home(ds, cur2, rs2, g) = Home(ds, cur2, rs2, h) =>
              Home(ds, cur2, rs2, g) = 0 \/ g = h
      BY <2>3 DEF CxIs, CxRunsOK
    <2>6. \A g \in Goid : \A i \in 1 .. Len(rs2[g]) :
              \E k \in 1 .. Len(rs[g]) : /\ rs2[g][i] = rs[g][k]
                                         /\ k = IF g = g0 THEN i + 1 ELSE i
      <3> SUFFICES ASSUME NEW g \in Goid, NEW i \in 1 .. Len(rs2[g])
                   PROVE  \E k \in 1 .. Len(rs[g]) : /\ rs2[g][i] = rs[g][k]
                                                     /\ k = IF g = g0 THEN i + 1 ELSE i
        OBVIOUS
      <3>1. CASE g # g0
        BY <1>14, <3>1
      <3>2. CASE g = g0
        <4>1. i \in 1 .. Len(s) /\ i + 1 \in 1 .. Len(rs[g0]) /\ s[i] = rs[g0][i + 1]
          BY <1>3, <1>4, <1>14, <3>2
        <4> QED BY <1>14, <3>2, <4>1
      <3> QED BY <3>1, <3>2
    <2>7. \A g, h \in Goid : \A i \in 1 .. Len(rs2[g]), j \in 1 .. Len(rs2[h]) :
              rs2[g][i] = rs2[h][j] => g = h /\ i = j
      <3> SUFFICES ASSUME NEW g \in Goid, NEW h \in Goid, NEW i \in 1 .. Len(rs2[g]),
                          NEW j \in 1 .. Len(rs2[h]), rs2[g][i] = rs2[h][j]
                   PROVE  g = h /\ i = j
        OBVIOUS
      <3>1. PICK k \in 1 .. Len(rs[g]) : rs2[g][i] = rs[g][k] /\ k = IF g = g0 THEN i + 1 ELSE i
        BY <2>6
      <3>2. PICK l \in 1 .. Len(rs[h]) : rs2[h][j] = rs[h][l] /\ l = IF h = g0 THEN j + 1 ELSE j
        BY <2>6
      <3>3. g = h /\ k = l
        <4>1. rs[g][k] = rs[h][l]
          BY <3>1, <3>2
        <4> QED BY <2>1, <4>1
      <3>4. i \in Int /\ j \in Int
        OBVIOUS
      <3> QED BY <3>1, <3>2, <3>3, <3>4
    <2>8. \A e \in 1 .. Len(cs) : InRuns(rs2, e) => e # c /\ InRuns(rs, e)
      <3> SUFFICES ASSUME NEW e \in 1 .. Len(cs), InRuns(rs2, e) PROVE e # c /\ InRuns(rs, e)
        OBVIOUS
      <3>1. PICK g \in Goid : \E i \in 1 .. Len(rs2[g]) : rs2[g][i] = e
        BY DEF InRuns
      <3>2. PICK i \in 1 .. Len(rs2[g]) : rs2[g][i] = e
        BY <3>1
      <3>3. PICK k \in 1 .. Len(rs[g]) : rs2[g][i] = rs[g][k] /\ k = IF g = g0 THEN i + 1 ELSE i
        BY <2>6
      <3>4. InRuns(rs, e)
        BY <3>2, <3>3 DEF InRuns
      <3>5. i \in Nat /\ i >= 1
        BY <1>4, <1>14, <1>15
      <3>6. e # c
        BY <2>2, <3>2, <3>3, <3>5
      <3> QED BY <3>4, <3>6
    <2>9. \A e \in 1 .. Len(cs) : e # c /\ InRuns(rs, e) => InRuns(rs2, e)
      <3> SUFFICES ASSUME NEW e \in 1 .. Len(cs), e # c, InRuns(rs, e) PROVE InRuns(rs2, e)
        OBVIOUS
      <3>1. PICK g \in Goid : \E i \in 1 .. Len(rs[g]) : rs[g][i] = e
        BY DEF InRuns
      <3>2. PICK i \in 1 .. Len(rs[g]) : rs[g][i] = e
        BY <3>1
      <3>3. CASE g # g0
        BY <1>14, <3>2, <3>3 DEF InRuns
      <3>4. CASE g = g0
        <4>1. i # 1
          BY <1>3, <3>2, <3>4
        <4>2. i - 1 \in 1 .. Len(s) /\ (i - 1) + 1 = i
          BY <1>3, <1>4, <3>4, <4>1
        <4>3. s[i - 1] = e
          BY <1>4, <3>2, <3>4, <4>2
        <4> QED BY <1>14, <4>2, <4>3 DEF InRuns
      <3> QED BY <3>3, <3>4
    <2>10. \A e \in 1 .. Len(ds) : ds[e].entered => InRuns(rs2, e) /\ ~ds[e].base
      BY <1>9, <1>11, <2>9 DEF CxIs, CxRunsOK
    <2>11. \A e \in 1 .. Len(ds) : InRuns(rs2, e) => ds[e].entered
      BY <1>11, <2>8 DEF CxIs, CxRunsOK
    <2>12. \A u \in Thread : (\A g \in Goid : ThreadOf[g] # u) => cur2[u] = 0
      BY <1>12 DEF CxIs, CxRunsOK
    <2> QED BY <2>4, <2>5, <2>7, <2>10, <2>11, <2>12 DEF CxRunsOK
  <1> QED BY <1>8, <1>16, <1>18, <1>19, <1>20 DEF CxIs, ds, cur2, ver2, rs2, d, s, c, p

(* In an empty context no variable is set. *)
LEMMA NoVarsIs ==
    ASSUME CxAssumption
    PROVE  Cx!NoVars \in [Var -> Bound]
  BY DEF Cx!NoVars, Bound

(* The invariant holds when nothing has been made yet. *)
LEMMA CxInit == CxAssumption /\ Cx!ContextInit => CxIInv
  <1> SUFFICES ASSUME CxAssumption, Cx!ContextInit PROVE CxIInv
    OBVIOUS
  <1>1. /\ contexts = <<>> /\ Len(contexts) = 0 /\ tokens = <<>> /\ Len(tokens) = 0
        /\ current = [t \in Thread |-> 0] /\ version = [t \in Thread |-> 0]
        /\ cache = [v \in Var |-> [valid |-> FALSE]] /\ runs = [g \in Goid |-> <<>>]
    BY CxConstants DEF Cx!ContextInit
  <1>2. CxTypes(contexts, current, version, cache, tokens, runs)
    <2>1. contexts \in Seq(CxContext) /\ tokens \in Seq(CxToken)
      BY <1>1
    <2>2. current \in [Thread -> 0 .. Len(contexts)] /\ version \in [Thread -> Nat]
      BY <1>1
    <2>3. cache \in [Var -> CxCache]
      BY <1>1 DEF CxCache
    <2>4. runs \in [Goid -> Seq(1 .. Len(contexts))]
      BY <1>1
    <2> QED BY <1>1, <2>1, <2>2, <2>3, <2>4 DEF CxTypes
  <1>3. CxCacheOK(contexts, current, version, cache)
    BY <1>1 DEF CxCacheOK
  <1>4. CxTokensOK(contexts, tokens)
    BY <1>1 DEF CxTokensOK
  <1>5. CxRunsOK(contexts, current, runs)
    <2>1. \A g \in Goid : runs[g] = <<>> /\ Len(runs[g]) = 0 /\ Home(contexts, current, runs, g) = 0
      BY <1>1, CxConstants DEF Home
    <2>2. \A g \in Goid : Nested(contexts, current, runs, g)
      BY <2>1 DEF Nested
    <2> QED BY <1>1, <2>1, <2>2 DEF CxRunsOK
  <1> QED BY <1>2, <1>3, <1>4, <1>5 DEF CxIInv, CxIs

(* A step of the thread t = ThreadOf[g] that wants a context begins in one *)
(* of its own or with a fresh one; either way the invariant holds between. *)
LEMMA GotKeeps ==
    ASSUME CxAssumption, CxIInv, NEW g \in Goid, NEW c, NEW made,
           Cx!ContextGet(ThreadOf[g], c, made)
    PROVE  /\ CxIs(made, current', version', cache, tokens, runs)
           /\ current'[ThreadOf[g]] = c /\ c # 0 /\ c \in 1 .. Len(made)
  <1> DEFINE t == ThreadOf[g]
  <1>1. /\ t \in Thread /\ contexts \in Seq(CxContext) /\ Len(contexts) \in Nat
        /\ current \in [Thread -> 0 .. Len(contexts)]
    BY CxConstants DEF CxIInv, CxIs, CxTypes
  <1>2. CASE current[t] # 0
    <2>1. c = current[t] /\ made = contexts /\ current' = current /\ version' = version
      BY <1>2, CxConstants DEF Cx!ContextGet
    <2> QED BY <1>1, <1>2, <2>1 DEF CxIInv
  <1>3. CASE current[t] = 0
    <2>1. /\ c = Len(contexts) + 1 /\ made = Append(contexts, Cx!NewContext(Cx!NoVars, TRUE))
          /\ current' = [current EXCEPT ![t] = Len(contexts) + 1]
          /\ version' = [version EXCEPT ![t] = @ + 1]
      BY <1>3, CxConstants DEF Cx!ContextGet, Cx!SetContext
    <2>2. CxIs(made, current', version', cache, tokens, runs)
      BY <1>3, <2>1, FreshKeeps, NoVarsIs DEF CxIInv
    <2>3. Cx!NewContext(Cx!NoVars, TRUE) \in CxContext
      BY NewContextIs, NoVarsIs
    <2>4. Len(made) = Len(contexts) + 1
      BY <1>1, <2>1, <2>3, OneMore
    <2>5. current'[t] = c
      BY <1>1, <2>1
    <2>6. c # 0 /\ c \in 1 .. Len(made)
      BY <1>1, <2>1, <2>4
    <2> QED BY <2>2, <2>5, <2>6
  <1> QED BY <1>2, <1>3

(* Every step of ContextVars keeps it, and Exit never fails. *)
LEMMA CxNext == CxAssumption /\ CxIInv /\ [Cx!ContextNext]_(Cx!ctxVars) => CxIInv'
  <1> SUFFICES ASSUME CxAssumption, CxIInv, [Cx!ContextNext]_(Cx!ctxVars) PROVE CxIInv'
    OBVIOUS
  <1>0. CxIs(contexts, current, version, cache, tokens, runs)
    BY DEF CxIInv
  <1>t. /\ contexts \in Seq(CxContext) /\ Len(contexts) \in Nat
        /\ current \in [Thread -> 0 .. Len(contexts)] /\ tokens \in Seq(CxToken)
        /\ runs \in [Goid -> Seq(1 .. Len(contexts))]
        /\ DOMAIN contexts = 1 .. Len(contexts) /\ DOMAIN tokens = 1 .. Len(tokens)
    BY <1>0 DEF CxIs, CxTypes
  <1> SUFFICES CxIs(contexts', current', version', cache', tokens', runs')
    BY DEF CxIInv
  <1>1. CASE Cx!MakeContext
    BY <1>0, <1>1, AddedKeeps, NoVarsIs DEF Cx!MakeContext
  <1>2. ASSUME NEW c \in DOMAIN contexts, Cx!Copy(c)
        PROVE  CxIs(contexts', current', version', cache', tokens', runs')
    <2>1. contexts[c] \in CxContext
      BY <1>t
    <2>2. contexts[c].vars \in [Var -> Bound]
      BY <2>1 DEF CxContext
    <2> QED BY <1>0, <1>2, <2>2, AddedKeeps DEF Cx!Copy
  <1>3. ASSUME NEW g \in Goid, NEW v \in Var, Cx!Get(g, v)
        PROVE  CxIs(contexts', current', version', cache', tokens', runs')
    <2> DEFINE t == ThreadOf[g]
    <2>1. t \in Thread
      BY CxConstants
    <2>2. /\ current[t] # 0 /\ version' = version /\ contexts' = contexts /\ current' = current
          /\ tokens' = tokens /\ runs' = runs
          /\ cache' = [cache EXCEPT ![v] = [valid |-> TRUE, thread |-> t, version |-> version[t],
                                            value |-> contexts[current[t]].vars[v]]]
      BY <1>3, CxConstants DEF Cx!Get, Cx!CacheStore
    <2> QED BY <1>0, <2>1, <2>2, RememberKeeps DEF CxIs
  <1>4. ASSUME NEW g \in Goid, NEW v \in Var, NEW x \in Val, Cx!Set(g, v, x)
        PROVE  CxIs(contexts', current', version', cache', tokens', runs')
    <2> DEFINE t == ThreadOf[g]
    <2>1. t \in Thread
      BY CxConstants
    <2>2. PICK made, c :
            /\ Cx!ContextGet(t, c, made)
            /\ contexts' = [made EXCEPT ![c].vars[v] = x]
            /\ tokens' = Append(tokens, [context |-> c, var |-> v, old |-> made[c].vars[v],
                                         used |-> FALSE])
            /\ cache' = [cache EXCEPT ![v] = [valid |-> TRUE, thread |-> t, version |-> version'[t],
                                              value |-> x]]
            /\ runs' = runs
      BY <1>4 DEF Cx!Set, Cx!Bind, Cx!CacheStore
    <2>3. /\ CxIs(made, current', version', cache, tokens, runs)
          /\ current'[t] = c /\ c # 0
      BY <2>2, GotKeeps
    <2>4. CxIs([made EXCEPT ![current'[t]].vars[v] = x], current', version',
               [cache EXCEPT ![v] = [valid |-> TRUE, thread |-> t, version |-> version'[t], value |-> x]],
               Append(tokens, [context |-> current'[t], var |-> v, old |-> made[current'[t]].vars[v],
                               used |-> FALSE]), runs)
      BY <2>1, <2>3, SetKeeps
    <2> QED BY <2>2, <2>3, <2>4
  <1>5. ASSUME NEW g \in Goid, NEW i \in DOMAIN tokens, Cx!Reset(g, i)
        PROVE  CxIs(contexts', current', version', cache', tokens', runs')
    BY <1>0, <1>t, <1>5, ResetKeeps DEF Cx!Reset, Cx!Bind
  <1>6. ASSUME NEW g \in Goid, Cx!CopyCurrent(g)
        PROVE  CxIs(contexts', current', version', cache', tokens', runs')
    <2> DEFINE t == ThreadOf[g]
    <2>1. PICK made, c :
            /\ Cx!ContextGet(t, c, made)
            /\ contexts' = Append(made, Cx!NewContext(made[c].vars, FALSE))
            /\ cache' = cache /\ tokens' = tokens /\ runs' = runs
      BY <1>6 DEF Cx!CopyCurrent
    <2>2. CxIs(made, current', version', cache, tokens, runs) /\ c \in 1 .. Len(made)
      BY <2>1, GotKeeps
    <2>3. made[c] \in CxContext
      BY <2>2 DEF CxIs, CxTypes
    <2>4. made[c].vars \in [Var -> Bound]
      BY <2>3 DEF CxContext
    <2> QED BY <2>1, <2>2, <2>4, AddedKeeps
  <1>7. ASSUME NEW g \in Goid, NEW c \in DOMAIN contexts, Cx!Enter(g, c)
        PROVE  CxIs(contexts', current', version', cache', tokens', runs')
    BY <1>0, <1>t, <1>7, EnterKeeps DEF Cx!Enter, Cx!SetContext
  <1>8. ASSUME NEW g \in Goid, Cx!Exit(g)
        PROVE  CxIs(contexts', current', version', cache', tokens', runs')
    <2> DEFINE c == Head(runs[g])
    <2>1. runs[g] # <<>>
      BY <1>8 DEF Cx!Exit
    <2>2. /\ contexts[c].entered /\ current[ThreadOf[g]] = c
          /\ CxIs([contexts EXCEPT ![c].prev = 0, ![c].entered = FALSE],
                  [current EXCEPT ![ThreadOf[g]] = contexts[c].prev],
                  [version EXCEPT ![ThreadOf[g]] = @ + 1],
                  cache, tokens, [runs EXCEPT ![g] = Tail(@)])
      BY <1>0, <2>1, ExitKeeps
    <2>3. ~Cx!ExitFails(g)
      BY <2>2 DEF Cx!ExitFails
    <2>4. /\ contexts' = [contexts EXCEPT ![c].prev = 0, ![c].entered = FALSE]
          /\ current' = [current EXCEPT ![ThreadOf[g]] = contexts[c].prev]
          /\ version' = [version EXCEPT ![ThreadOf[g]] = @ + 1]
          /\ runs' = [runs EXCEPT ![g] = Tail(@)] /\ cache' = cache /\ tokens' = tokens
      BY <1>8, <2>3, CxConstants DEF Cx!Exit, Cx!SetContext
    <2> HIDE DEF c
    <2> QED BY <2>2, <2>4
  <1>9. CASE UNCHANGED Cx!ctxVars
    BY <1>0, <1>9 DEF Cx!ctxVars
  <1> QED BY <1>1, <1>2, <1>3, <1>4, <1>5, <1>6, <1>7, <1>8, <1>9 DEF Cx!ContextNext

(* ContextVars: what CxIInv says holds always, of threads that no two      *)
(* goroutines share.                                                       *)
THEOREM ContextInvariance == ASSUME CxAssumption PROVE Cx!ContextSpec => []CxIInv
  <1>1. Cx!ContextInit => CxIInv
    BY CxInit
  <1>2. CxIInv /\ [Cx!ContextNext]_(Cx!ctxVars) => CxIInv'
    BY CxNext
  <1> QED BY <1>1, <1>2, PTL DEF Cx!ContextSpec

(* The thread in a context is one goroutine's: that whose run the context  *)
(* is the innermost of, or whose own it is.                                *)
LEMMA ThreadsApart ==
    ASSUME CxAssumption, CxIInv, NEW t \in Thread, NEW u \in Thread, t # u, current[t] # 0
    PROVE  current[t] # current[u]
  <1>1. /\ CxRunsOK(contexts, current, runs)
        /\ runs \in [Goid -> Seq(1 .. Len(contexts))]
        /\ Len(contexts) \in Nat /\ current \in [Thread -> 0 .. Len(contexts)]
    BY DEF CxIInv, CxIs, CxTypes
  <1> SUFFICES ASSUME current[t] = current[u] PROVE FALSE
    OBVIOUS
  <1>2. PICK g \in Goid : ThreadOf[g] = t
    BY <1>1 DEF CxRunsOK
  <1>3. PICK h \in Goid : ThreadOf[h] = u
    BY <1>1 DEF CxRunsOK
  <1>4. g # h
    BY <1>2, <1>3
  <1>5. \A k \in Goid : runs[k] # <<>> => 1 \in 1 .. Len(runs[k]) /\ current[ThreadOf[k]] = runs[k][1]
    <2> SUFFICES ASSUME NEW k \in Goid, runs[k] # <<>>
                 PROVE  1 \in 1 .. Len(runs[k]) /\ current[ThreadOf[k]] = runs[k][1]
      OBVIOUS
    <2>1. Len(runs[k]) \in Nat /\ Len(runs[k]) # 0
      BY <1>1, EmptySeq
    <2> QED BY <1>1, <2>1 DEF CxRunsOK, Nested
  <1>6. \A k \in Goid : runs[k] = <<>> /\ current[ThreadOf[k]] # 0 =>
            contexts[current[ThreadOf[k]]].base
    BY <1>1 DEF CxRunsOK, Nested, Home
  <1>7. \A k \in Goid : runs[k] # <<>> =>
            current[ThreadOf[k]] \in 1 .. Len(contexts) /\ ~contexts[current[ThreadOf[k]]].base
    <2> SUFFICES ASSUME NEW k \in Goid, runs[k] # <<>>
                 PROVE  /\ current[ThreadOf[k]] \in 1 .. Len(contexts)
                        /\ ~contexts[current[ThreadOf[k]]].base
      OBVIOUS
    <2>1. InRuns(runs, current[ThreadOf[k]])
      BY <1>5 DEF InRuns
    <2>2. runs[k][1] \in 1 .. Len(contexts)
      BY <1>1, <1>5, MoreNumbers
    <2>3. current[ThreadOf[k]] \in 1 .. Len(contexts)
      BY <1>5, <2>2
    <2> QED BY <1>1, <2>1, <2>3 DEF CxRunsOK
  <1>8. CASE runs[g] = <<>> /\ runs[h] = <<>>
    <2>1. Home(contexts, current, runs, g) = current[t] /\ Home(contexts, current, runs, h) = current[t]
      BY <1>2, <1>3, <1>8 DEF Home
    <2> QED BY <1>1, <1>4, <2>1 DEF CxRunsOK
  <1>9. CASE runs[g] # <<>> /\ runs[h] # <<>>
    <2>1. runs[g][1] = runs[h][1] /\ 1 \in 1 .. Len(runs[g]) /\ 1 \in 1 .. Len(runs[h])
      BY <1>2, <1>3, <1>5, <1>9
    <2> QED BY <1>1, <1>4, <2>1 DEF CxRunsOK
  <1>10. CASE runs[g] = <<>> /\ runs[h] # <<>>
    BY <1>2, <1>3, <1>6, <1>7, <1>10
  <1>11. CASE runs[g] # <<>> /\ runs[h] = <<>>
    BY <1>2, <1>3, <1>6, <1>7, <1>11
  <1> QED BY <1>8, <1>9, <1>10, <1>11

(* A set without two elements has at most one. *)
LEMMA AtMostOne ==
    ASSUME NEW S, \A x, y \in S : x = y
    PROVE  Cardinality(S) <= 1 /\ (S = {} => Cardinality(S) = 0)
  <1>1. CASE S = {}
    BY <1>1, FS_EmptySet
  <1>2. CASE S # {}
    <2>1. PICK x : x \in S
      BY <1>2
    <2>2. S = {x}
      BY <2>1
    <2> QED BY <1>2, <2>2, FS_Singleton
  <1> QED BY <1>1, <1>2

(* The instance's Cardinality is FiniteSets'. *)
LEMMA CxCardinality ==
    \A S : Cx!Cardinality(S) = Cardinality(S)
  BY Zenon DEF Cx!Cardinality, Cardinality, Cx!IsFiniteSet, IsFiniteSet

(* It implies what ContextVars promises. *)
LEMMA CxImplies == CxAssumption /\ CxIInv => Cx!ContextInv
  <1> SUFFICES ASSUME CxAssumption, CxIInv PROVE Cx!ContextInv
    OBVIOUS
  <1>1. /\ CxTypes(contexts, current, version, cache, tokens, runs)
        /\ CxCacheOK(contexts, current, version, cache)
        /\ CxTokensOK(contexts, tokens)
        /\ CxRunsOK(contexts, current, runs)
    BY DEF CxIInv, CxIs
  <1>2. /\ contexts \in Seq(CxContext) /\ Len(contexts) \in Nat
        /\ DOMAIN contexts = 1 .. Len(contexts)
        /\ tokens \in Seq(CxToken) /\ DOMAIN tokens = 1 .. Len(tokens)
        /\ runs \in [Goid -> Seq(1 .. Len(contexts))] /\ NoContext = 0
        /\ \A c \in 1 .. Len(contexts) : contexts[c] \in CxContext
        /\ \A i \in 1 .. Len(tokens) : tokens[i] \in CxToken
    BY <1>1, CxConstants DEF CxTypes
  <1>3. Cx!ContextTypeOK
    <2>1. \A c \in DOMAIN contexts : /\ contexts[c].vars \in [Var -> Val \cup {Unset}]
                                     /\ contexts[c].prev \in DOMAIN contexts \cup {NoContext}
      <3> SUFFICES ASSUME NEW c \in 1 .. Len(contexts)
                   PROVE  /\ contexts[c].vars \in [Var -> Val \cup {Unset}]
                          /\ contexts[c].prev \in DOMAIN contexts \cup {NoContext}
        BY <1>2
      <3>1. contexts[c].vars \in [Var -> Val \cup {Unset}]
        BY <1>2 DEF CxContext, Bound
      <3>2. contexts[c].prev \in 0 .. Len(contexts)
        BY <1>1 DEF CxTypes
      <3> QED BY <1>2, <3>1, <3>2
    <2>2. current \in [Thread -> DOMAIN contexts \cup {NoContext}]
      <3>1. 0 .. Len(contexts) = 1 .. Len(contexts) \cup {0}
        BY <1>2
      <3> QED BY <1>1, <1>2, <3>1 DEF CxTypes
    <2>3. \A i \in DOMAIN tokens : tokens[i].context \in DOMAIN contexts /\ tokens[i].var \in Var
      <3> SUFFICES ASSUME NEW i \in 1 .. Len(tokens)
                   PROVE  tokens[i].context \in DOMAIN contexts /\ tokens[i].var \in Var
        BY <1>2
      <3>1. tokens[i] \in CxToken
        BY <1>2
      <3> QED BY <1>1, <1>2, <3>1 DEF CxTypes, CxToken
    <2> QED BY <2>1, <2>2, <2>3 DEF Cx!ContextTypeOK
  <1>4. Cx!CacheIsCurrent
    BY <1>1, <1>2 DEF Cx!CacheIsCurrent, Cx!CacheHit, CxCacheOK
  <1>5. Cx!ResetFindsBinding
    <2> SUFFICES ASSUME NEW c \in 1 .. Len(contexts), NEW v \in Var
                 PROVE  Cx!Cardinality({ i \in DOMAIN tokens :
                            tokens[i].context = c /\ tokens[i].var = v /\ tokens[i].old = Unset
                            /\ ~tokens[i].used }) <= IF contexts[c].vars[v] = Unset THEN 0 ELSE 1
      BY <1>2 DEF Cx!ResetFindsBinding
    <2> DEFINE S == { i \in DOMAIN tokens :
                        tokens[i].context = c /\ tokens[i].var = v /\ tokens[i].old = Unset
                        /\ ~tokens[i].used }
    <2>1. \A i \in S : i \in 1 .. Len(tokens) /\ Unsets(tokens[i], c, v)
      BY <1>2 DEF Unsets
    <2> HIDE DEF S
    <2>2. \A i, j \in S : i = j
      BY <1>1, <2>1 DEF CxTokensOK
    <2>3. contexts[c].vars[v] = Unset => S = {}
      BY <1>1, <2>1 DEF CxTokensOK
    <2>4. Cardinality(S) <= 1 /\ (S = {} => Cardinality(S) = 0)
      BY <2>2, AtMostOne
    <2>5. Cx!Cardinality(S) <= IF contexts[c].vars[v] = Unset THEN 0 ELSE 1
      BY <2>3, <2>4, CxCardinality
    <2> QED BY <2>5 DEF S
  <1>6. Cx!RunsNest
    <2>1. \A g \in Goid : Len(runs[g]) \in Nat /\ \A i \in 1 .. Len(runs[g]) : runs[g][i] \in 1 .. Len(contexts)
      BY <1>2, MoreNumbers
    <2>2. \A g \in Goid : runs[g] # <<>> => ~Cx!ExitFails(g)
      <3> SUFFICES ASSUME NEW g \in Goid, runs[g] # <<>> PROVE ~Cx!ExitFails(g)
        OBVIOUS
      <3>1. CxIs(contexts, current, version, cache, tokens, runs)
        BY DEF CxIInv
      <3>2. contexts[Head(runs[g])].entered /\ current[ThreadOf[g]] = Head(runs[g])
        <4>1. /\ contexts[Head(runs[g])].entered /\ current[ThreadOf[g]] = Head(runs[g])
              /\ CxIs([contexts EXCEPT ![Head(runs[g])].prev = 0, ![Head(runs[g])].entered = FALSE],
                      [current EXCEPT ![ThreadOf[g]] = contexts[Head(runs[g])].prev],
                      [version EXCEPT ![ThreadOf[g]] = @ + 1],
                      cache, tokens, [runs EXCEPT ![g] = Tail(@)])
          BY <3>1, ExitKeeps
        <4> QED BY <4>1
      <3> QED BY <3>2 DEF Cx!ExitFails
    <2>3. \A g \in Goid : \A i \in 1 .. Len(runs[g]) - 1 : contexts[runs[g][i]].prev = runs[g][i + 1]
      BY <1>1 DEF CxRunsOK, Nested
    <2>4. \A t, u \in Thread : t # u /\ current[t] # NoContext => current[t] # current[u]
      BY <1>2, ThreadsApart
    <2>5. { c \in DOMAIN contexts : contexts[c].entered } = UNION { Cx!ToSet(runs[g]) : g \in Goid }
      <3>1. ASSUME NEW c \in DOMAIN contexts, contexts[c].entered
            PROVE  c \in UNION { Cx!ToSet(runs[g]) : g \in Goid }
        <4>1. InRuns(runs, c)
          BY <1>1, <1>2, <3>1 DEF CxRunsOK
        <4>2. PICK g \in Goid : \E i \in 1 .. Len(runs[g]) : runs[g][i] = c
          BY <4>1 DEF InRuns
        <4>3. runs[g] \in Seq(1 .. Len(contexts))
          BY <1>2
        <4>4. c \in Cx!ToSet(runs[g])
          BY <4>2, <4>3 DEF Cx!ToSet
        <4> QED BY <4>4
      <3>2. ASSUME NEW c \in UNION { Cx!ToSet(runs[g]) : g \in Goid }
            PROVE  c \in DOMAIN contexts /\ contexts[c].entered
        <4>1. PICK g \in Goid : c \in Cx!ToSet(runs[g])
          OBVIOUS
        <4>2. runs[g] \in Seq(1 .. Len(contexts))
          BY <1>2
        <4>3. \E i \in 1 .. Len(runs[g]) : runs[g][i] = c
          BY <4>1, <4>2 DEF Cx!ToSet
        <4>4. c \in 1 .. Len(contexts)
          BY <2>1, <4>3
        <4>5. InRuns(runs, c)
          BY <4>3 DEF InRuns
        <4> QED BY <1>1, <1>2, <4>4, <4>5 DEF CxRunsOK
      <3> QED BY <3>1, <3>2
    <2> QED BY <2>2, <2>3, <2>4, <2>5 DEF Cx!RunsNest
  <1> QED BY <1>3, <1>4, <1>5, <1>6 DEF Cx!ContextInv

(* context.go:99-137, contextvar.go:260-294: a value that a variable       *)
(* remembers is the one in the context of the thread that asks, a token    *)
(* that unsets a variable finds it set, and contexts are left innermost    *)
(* first, by the thread that entered them, of any number of contexts,      *)
(* variables and goroutines, where no two goroutines have one thread.      *)
THEOREM ContextsCorrect == ASSUME CxAssumption PROVE Cx!ContextSpec => []Cx!ContextInv
  <1>1. CxIInv => Cx!ContextInv
    BY CxImplies
  <1> QED BY <1>1, ContextInvariance, PTL

-----------------------------------------------------------------------------
(* The walks of a HAMT, for any keys, any digits of theirs and any number  *)
(* of levels.  A walk is determined by what is stored: whether an entry is *)
(* there by whether a pair is below it, what its pairs are, and how wide   *)
(* an array node is.  What is not is the kind of a node, which depends on  *)
(* what was there before; but a leaf is below no array node, a bitmap node *)
(* has no node with one pair, and only pairs of one hash share a node.     *)

HasPairs(k, l) == shape[k][l] \in {"leaf", "collision"}

(* Of one hash. *)
OneHash(S) == \A x, y \in S : Same(x, y, Levels)

(* What k's walk comes to at level l, for what it comes from and for what  *)
(* is stored below it.                                                     *)
Fits(k, l) ==
    /\ l = 0 => Inner(k, 0)
    /\ l > 0 => (shape[k][l] # "none" <=> Inner(k, l - 1) /\ Under(k, l) # {})
    /\ pairs[k][l] = IF HasPairs(k, l) THEN PairsOf(Under(k, l)) ELSE NoPairs
    /\ shape[k][l] = "leaf" => Alone(k, l) /\ shape[k][l - 1] # "array"
    /\ shape[k][l] = "collision" => ~Alone(k, l) /\ OneHash(Under(k, l))
    /\ Inner(k, l) /\ l > 0 /\ shape[k][l - 1] = "bitmap" => ~Alone(k, l)
    /\ Inner(k, l) => l < Levels
    /\ shape[k][l] = "array" =>
          l < Levels - 1 /\ width[k][l] = Cardinality(Kids(k, l)) /\ width[k][l] >= Threshold

Shared ==
    \A j, k \in Keys, l \in Depths : Same(j, k, l) =>
        shape[j][l] = shape[k][l] /\ pairs[j][l] = pairs[k][l] /\ width[j][l] = width[k][l]

Counted == IsFiniteSet(Held) /\ total = Cardinality(Held)

TreeOK ==
    /\ shape \in [Keys -> [Depths -> Shapes]]
    /\ pairs \in [Keys -> [Depths -> [Keys -> Vals \cup {Absent}]]]
    /\ width \in [Keys -> [Depths -> Nat]]
    /\ Shared
    /\ \A k \in Keys, l \in Depths : Fits(k, l)

(* The inductive invariant of the walks: keys that share an entry see the  *)
(* same there, every entry is what is below it, and the pairs are counted. *)
WalksInv ==
    TreeOK /\ Counted /\ stored \in [Keys -> Vals \cup {Absent}]

-----------------------------------------------------------------------------

LEMMA LevelsAre == WalksAssumption => Levels \in Nat /\ Levels >= 1 /\ Depths = 0 .. Levels
  BY DEF WalksAssumption, Depths

(* Keys whose walks are the same down to a level. *)
LEMMA SameIs ==
    ASSUME NEW j, NEW k, NEW l \in Int
    PROVE  /\ Same(j, j, l) /\ (l <= 0 => Same(j, k, l))
           /\ Same(j, k, l) => Same(k, j, l)
           /\ \A x : Same(j, k, l) /\ Same(k, x, l) => Same(j, x, l)
           /\ \A m \in Int : m <= l /\ Same(j, k, l) => Same(j, k, m)
  BY DEF Same

LEMMA SameNext ==
    ASSUME NEW j, NEW k, NEW l \in Nat
    PROVE  Same(j, k, l + 1) <=> Same(j, k, l) /\ Digits[j][l + 1] = Digits[k][l + 1]
  BY DEF Same

(* What is below an entry, and the digits of its children. *)
LEMMA UnderIs ==
    ASSUME NEW k, NEW l
    PROVE  /\ \A x : x \in Under(k, l) <=> x \in Keys /\ stored[x] # Absent /\ Same(x, k, l)
           /\ Under(k, l) \subseteq Held /\ Under(k, l) \subseteq Keys
  BY DEF Under, Held

LEMMA UnderSame ==
    ASSUME NEW j, NEW k, NEW l \in Int, Same(j, k, l)
    PROVE  Under(j, l) = Under(k, l) /\ Kids(j, l) = Kids(k, l) /\ (Alone(j, l) <=> Alone(k, l))
  <1>1. Same(k, j, l)
    BY SameIs
  <1>2. \A x : Same(x, j, l) <=> Same(x, k, l)
    BY <1>1, SameIs
  <1>3. Under(j, l) = Under(k, l)
    BY <1>2 DEF Under
  <1> QED BY <1>3 DEF Kids, Alone

LEMMA UnderUp ==
    ASSUME NEW k, NEW l \in Int, NEW m \in Int, m <= l
    PROVE  Under(k, l) \subseteq Under(k, m)
  BY SameIs, UnderIs

LEMMA KidsAre ==
    ASSUME NEW k, NEW l \in Nat
    PROVE  /\ \A d : d \in Kids(k, l) <=> \E x \in Under(k, l) : Digits[x][l + 1] = d
           /\ Digits[k][l + 1] \in Kids(k, l) <=> Under(k, l + 1) # {}
  <1>1. \A d : d \in Kids(k, l) <=> \E x \in Under(k, l) : Digits[x][l + 1] = d
    BY DEF Kids
  <1>2. \A x : x \in Under(k, l + 1) <=> x \in Under(k, l) /\ Digits[x][l + 1] = Digits[k][l + 1]
    BY SameNext, UnderIs
  <1> QED BY <1>1, <1>2

LEMMA KidsFinite ==
    ASSUME Counted, NEW k, NEW l
    PROVE  IsFiniteSet(Under(k, l)) /\ IsFiniteSet(Kids(k, l)) /\ Cardinality(Kids(k, l)) \in Nat
  <1>1. IsFiniteSet(Under(k, l))
    BY UnderIs, FS_Subset DEF Counted
  <1>2. IsFiniteSet(Kids(k, l))
    <2> DEFINE f == [x \in Under(k, l) |-> Digits[x][l + 1]]
    <2>1. f \in Surjection(Under(k, l), Kids(k, l))
      BY DEF Kids, Surjection
    <2> QED BY <1>1, <2>1, FS_Surjection
  <1> QED BY <1>1, <1>2, FS_CardinalityType

(* Where a walk ends. *)
LEMMA EndIs ==
    ASSUME WalksAssumption, WalksInv, NEW k \in Keys
    PROVE  /\ End(k) \in 1 .. Levels /\ Ends(k, End(k))
           /\ \A i \in Depths : i < End(k) => Inner(k, i)
           /\ \A i \in Depths : i > End(k) => shape[k][i] = "none"
           /\ \A l \in 1 .. Levels : Ends(k, l) => l = End(k)
  <1> USE LevelsAre
  <1>1. \A l \in Depths : Fits(k, l)
    BY DEF WalksInv, TreeOK
  <1> DEFINE O == { i \in 1 .. Levels : ~Inner(k, i) }
  <1>2. Levels \in O
    BY <1>1 DEF Fits
  <1>3. PICK e \in O : \A y \in O : e <= y
    <2> HIDE DEF O
    <2>1. O \subseteq Nat
      BY DEF O
    <2> QED BY <2>1, <1>2, Least
  <1>4. e \in 1 .. Levels /\ ~Inner(k, e) /\ \A i \in Depths : i < e => Inner(k, i)
    <2>1. Inner(k, 0)
      BY <1>1 DEF Fits
    <2> QED BY <2>1, <1>3
  <1>5. \A i \in Depths : i > e => shape[k][i] = "none"
    <2> SUFFICES ASSUME NEW a \in Depths, a > e, shape[k][a] # "none" PROVE FALSE
      OBVIOUS
    <2> DEFINE T == { i \in e + 1 .. Levels : shape[k][i] # "none" }
    <2>1. a \in T
      BY <1>4
    <2>2. PICK t \in T : \A y \in T : t <= y
      <3> HIDE DEF T
      <3>1. T \subseteq Nat
        BY <1>4 DEF T
      <3> QED BY <3>1, <2>1, Least
    <2>3. t \in Depths /\ t > 0 /\ t - 1 \in Depths /\ Inner(k, t - 1)
      BY <2>2, <1>1, <1>4 DEF Fits
    <2>4. t - 1 \in T
      BY <2>2, <2>3, <1>4 DEF Inner
    <2> QED BY <2>2, <2>3, <2>4
  <1>6. Ends(k, e)
    BY <1>4 DEF Ends
  <1>7. \A l \in 1 .. Levels : Ends(k, l) => l = e
    <2> SUFFICES ASSUME NEW l \in 1 .. Levels, Inner(k, l - 1), ~Inner(k, l), l # e PROVE FALSE
      BY DEF Ends
    <2>1. l - 1 = e \/ (l - 1 \in Depths /\ l - 1 > e)
      BY <1>3, <1>4
    <2> QED BY <2>1, <1>4, <1>5 DEF Inner
  <1>8. End(k) = e
    BY <1>4, <1>6, <1>7 DEF End
  <1> QED BY <1>4, <1>5, <1>6, <1>7, <1>8

-----------------------------------------------------------------------------
(* What is below an entry when the map changes. *)

Gains(k, v) ==
    /\ \A j \in Keys, i \in Nat :
          /\ Same(j, k, i) => Under(j, i)' = Under(j, i) \cup {k}
          /\ ~Same(j, k, i) => /\ Under(j, i)' = Under(j, i) /\ Kids(j, i)' = Kids(j, i)
                               /\ PairsOf(Under(j, i))' = PairsOf(Under(j, i))
    /\ PairsOf({k})' = Single(k, v)
    /\ \A x \in Keys : stored'[x] = IF x = k THEN v ELSE stored[x]

Drops(k) ==
    /\ \A j \in Keys, i \in Nat :
          /\ Under(j, i)' = Under(j, i) \ {k}
          /\ Same(j, k, i) => Under(j, i)' = Left(k, i)
          /\ ~Same(j, k, i) => Under(j, i)' = Under(j, i) /\ Kids(j, i)' = Kids(j, i)
    /\ \A S : k \notin S => PairsOf(S)' = PairsOf(S)
    /\ \A x \in Keys : stored'[x] = IF x = k THEN Absent ELSE stored[x]

(* assoc adds a key to what is below the entries of its walk. *)
LEMMA PutUnder ==
    ASSUME WalksInv, NEW k \in Keys, NEW v \in Vals, Absent \notin Vals,
           stored' = [stored EXCEPT ![k] = v]
    PROVE  Gains(k, v)
  <1>0. stored \in [Keys -> Vals \cup {Absent}]
    BY DEF WalksInv
  <1>1. \A x \in Keys : stored'[x] = IF x = k THEN v ELSE stored[x]
    BY <1>0
  <1>2. Held' = Held \cup {k}
    BY <1>1 DEF Held
  <1>3. ASSUME NEW j \in Keys, NEW i \in Nat
        PROVE  /\ Same(j, k, i) => Under(j, i)' = Under(j, i) \cup {k}
               /\ ~Same(j, k, i) => /\ Under(j, i)' = Under(j, i) /\ Kids(j, i)' = Kids(j, i)
                                    /\ PairsOf(Under(j, i))' = PairsOf(Under(j, i))
    <2>1. Same(k, j, i) <=> Same(j, k, i)
      BY SameIs
    <2>2. Same(j, k, i) => Under(j, i)' = Under(j, i) \cup {k}
      BY <1>2, <2>1 DEF Under
    <2>3. ASSUME ~Same(j, k, i)
          PROVE  /\ Under(j, i)' = Under(j, i) /\ Kids(j, i)' = Kids(j, i)
                 /\ PairsOf(Under(j, i))' = PairsOf(Under(j, i))
      <3>1. k \notin Under(j, i) /\ Under(j, i)' = Under(j, i)
        BY <1>2, <2>1, <2>3 DEF Under
      <3> QED BY <3>1, <1>1 DEF PairsOf, Kids
    <2> QED BY <2>2, <2>3
  <1>4. PairsOf({k})' = Single(k, v)
    BY <1>1 DEF PairsOf, Single, NoPairs
  <1> QED BY <1>1, <1>3, <1>4 DEF Gains

(* without takes it away. *)
LEMMA TakeUnder ==
    ASSUME WalksInv, NEW k \in Keys, stored' = [stored EXCEPT ![k] = Absent]
    PROVE  Drops(k)
  <1>0. stored \in [Keys -> Vals \cup {Absent}]
    BY DEF WalksInv
  <1>1. \A x \in Keys : stored'[x] = IF x = k THEN Absent ELSE stored[x]
    BY <1>0
  <1>2. Held' = Held \ {k}
    BY <1>1 DEF Held
  <1>3. ASSUME NEW j \in Keys, NEW i \in Nat
        PROVE  /\ Under(j, i)' = Under(j, i) \ {k}
               /\ Same(j, k, i) => Under(j, i)' = Left(k, i)
               /\ ~Same(j, k, i) => Under(j, i)' = Under(j, i) /\ Kids(j, i)' = Kids(j, i)
    <2>1. Same(k, j, i) <=> Same(j, k, i)
      BY SameIs
    <2>2. Under(j, i)' = Under(j, i) \ {k}
      BY <1>2 DEF Under
    <2>3. Same(j, k, i) => Under(j, i)' = Left(k, i)
      BY <2>2, UnderSame DEF Left
    <2>4. ~Same(j, k, i) => Under(j, i)' = Under(j, i)
      BY <2>1, <2>2 DEF Under
    <2>5. Under(j, i)' = Under(j, i) => Kids(j, i)' = Kids(j, i)
      BY DEF Kids
    <2> QED BY <2>2, <2>3, <2>4, <2>5
  <1>4. \A S : k \notin S => PairsOf(S)' = PairsOf(S)
    BY <1>1 DEF PairsOf
  <1> QED BY <1>1, <1>3, <1>4 DEF Drops

LEMMA PutKids ==
    ASSUME NEW k \in Keys, NEW j, NEW i \in Nat, Same(j, k, i),
           Under(j, i)' = Under(j, i) \cup {k}
    PROVE  /\ Kids(j, i)' = Kids(j, i) \cup {Digits[k][i + 1]}
           /\ Under(k, i + 1) # {} => Kids(j, i)' = Kids(j, i)
  <1>1. Kids(j, i)' = Kids(j, i) \cup {Digits[k][i + 1]}
    BY DEF Kids
  <1>2. Under(k, i + 1) # {} => Digits[k][i + 1] \in Kids(j, i)
    BY KidsAre, UnderSame
  <1> QED BY <1>1, <1>2

LEMMA TakeKids ==
    ASSUME NEW k \in Keys, NEW j, NEW i \in Nat, Same(j, k, i),
           Under(j, i)' = Under(j, i) \ {k}, k \in Under(j, i)
    PROVE  /\ Left(k, i + 1) # {} => Kids(j, i)' = Kids(j, i)
           /\ Left(k, i + 1) = {} => Kids(j, i)' = Kids(j, i) \ {Digits[k][i + 1]}
  <1>1. \A x \in Under(j, i) : x \in Under(k, i + 1) <=> Digits[x][i + 1] = Digits[k][i + 1]
    BY SameNext, UnderIs, UnderSame
  <1>2. \A x \in Under(k, i + 1) : x \in Under(j, i) /\ Digits[x][i + 1] = Digits[k][i + 1]
    BY SameNext, UnderIs, UnderSame
  <1>3. Kids(j, i)' = { Digits[x][i + 1] : x \in Under(j, i) \ {k} }
    BY DEF Kids
  <1> QED BY <1>1, <1>2, <1>3 DEF Left, Kids

-----------------------------------------------------------------------------
(* Entries that a step leaves as they are. *)

(* Nothing below them changes either. *)
LEMMA Stays ==
    ASSUME NEW j \in Keys, NEW i \in Nat, Fits(j, i),
           shape'[j][i] = shape[j][i], pairs'[j][i] = pairs[j][i], width'[j][i] = width[j][i],
           i > 0 => \/ shape'[j][i - 1] = shape[j][i - 1]
                    \/ ~Inner(j, i - 1) /\ ~Inner(j, i - 1)'
                    \/ /\ shape[j][i - 1] = "bitmap" /\ shape'[j][i - 1] = "array"
                       /\ shape[j][i] # "leaf"
                    \/ /\ shape[j][i - 1] = "array" /\ shape'[j][i - 1] = "bitmap"
                       /\ ~Alone(j, i),
           Under(j, i)' = Under(j, i), Kids(j, i)' = Kids(j, i),
           PairsOf(Under(j, i))' = PairsOf(Under(j, i))
    PROVE  Fits(j, i)'
  <1>1. i > 0 => (shape'[j][i] # "none" <=> Inner(j, i - 1)' /\ Under(j, i)' # {})
    BY DEF Fits, Inner
  <1>2. pairs'[j][i] = IF HasPairs(j, i)' THEN PairsOf(Under(j, i))' ELSE NoPairs'
    BY DEF Fits, HasPairs, NoPairs
  <1>3. Alone(j, i)' <=> Alone(j, i)
    BY DEF Alone
  <1>4. OneHash(Under(j, i))' <=> OneHash(Under(j, i))
    BY DEF OneHash
  <1>5. HasPairs(j, i) => i > 0
    BY DEF Fits, Inner, HasPairs
  <1> QED BY <1>1, <1>2, <1>3, <1>4, <1>5 DEF Fits, Inner, HasPairs

(* A key is stored below it, or is not any more. *)
LEMMA Above ==
    ASSUME NEW j \in Keys, NEW i \in Nat, Fits(j, i), Inner(j, i),
           shape'[j][i] = shape[j][i], pairs'[j][i] = pairs[j][i], width'[j][i] = width[j][i],
           i > 0 => /\ shape'[j][i - 1] = shape[j][i - 1] /\ Under(j, i)' # {}
                    /\ shape[j][i - 1] = "bitmap" => ~Alone(j, i)',
           shape[j][i] = "array" => Kids(j, i)' = Kids(j, i)
    PROVE  Fits(j, i)'
  BY DEF Fits, Inner, HasPairs, NoPairs

(* There is none. *)
LEMMA Nothing ==
    ASSUME NEW j \in Keys, NEW i \in Nat, i > 0,
           shape'[j][i] = "none", pairs'[j][i] = NoPairs,
           ~Inner(j, i - 1)' \/ Under(j, i)' = {}
    PROVE  Fits(j, i)'
  BY DEF Fits, Inner, HasPairs, NoPairs

(* It is a leaf now. *)
LEMMA IsLeaf ==
    ASSUME NEW j \in Keys, NEW i \in Nat, i > 0,
           shape'[j][i] = "leaf", shape'[j][i - 1] = "bitmap",
           NEW x \in Keys, Under(j, i)' = {x}, pairs'[j][i] = PairsOf({x})'
    PROVE  Fits(j, i)'
  BY DEF Fits, Inner, HasPairs, NoPairs, Alone, PairsOf

(* It is a bitmap node now. *)
LEMMA IsBitmap ==
    ASSUME NEW j \in Keys, NEW i \in Nat, i < Levels,
           shape'[j][i] = "bitmap", pairs'[j][i] = NoPairs,
           i > 0 => /\ Inner(j, i - 1)' /\ Under(j, i)' # {}
                    /\ shape'[j][i - 1] = "bitmap" => ~Alone(j, i)'
    PROVE  Fits(j, i)'
  BY DEF Fits, Inner, HasPairs, NoPairs

(* It is an array node. *)
LEMMA IsArray ==
    ASSUME NEW j \in Keys, NEW i \in Nat, Levels \in Nat, i < Levels - 1,
           shape'[j][i] = "array", pairs'[j][i] = NoPairs,
           width'[j][i] = Cardinality(Kids(j, i)'), width'[j][i] >= Threshold,
           i > 0 => Inner(j, i - 1)' /\ Under(j, i)' # {} /\ ~Alone(j, i)'
    PROVE  Fits(j, i)'
  BY DEF Fits, Inner, HasPairs, NoPairs

(* It has pairs, of one hash. *)
LEMMA IsCollision ==
    ASSUME NEW j \in Keys, NEW i \in Nat, i > 0,
           shape'[j][i] = "collision", Inner(j, i - 1)',
           Under(j, i)' # {}, ~Alone(j, i)', OneHash(Under(j, i))',
           pairs'[j][i] = PairsOf(Under(j, i))'
    PROVE  Fits(j, i)'
  BY DEF Fits, Inner, HasPairs

-----------------------------------------------------------------------------
(* Where an operation begins. *)

(* A walk and its end, and those that it shares entries with. *)
Route(k, l) ==
    /\ Levels \in Nat /\ Depths = 0 .. Levels /\ l \in 1 .. Levels
    /\ Inner(k, l - 1) /\ ~Inner(k, l)
    /\ \A i \in 1 .. l - 1 : Under(k, i) # {}
    /\ \A j \in Keys, i \in Depths : Same(j, k, i) =>
          /\ i < l => Inner(j, i)
          /\ i > l => shape[j][i] = "none" /\ pairs[j][i] = NoPairs
          /\ shape[j][i] = shape[k][i] /\ pairs[j][i] = pairs[k][i] /\ width[j][i] = width[k][i]
    /\ shape[k][l] = "none" => Under(k, l) = {} /\ stored[k] = Absent

(* The walk of a key has inner nodes to its end and nothing from there on. *)
LEMMA AtEnd ==
    ASSUME WalksAssumption, WalksInv, NEW k \in Keys
    PROVE  Route(k, End(k)) /\ Absent \notin Vals /\ \A j \in Keys, i \in Depths : Fits(j, i)
  <1> DEFINE l == End(k)
  <1> HIDE DEF l
  <1> USE LevelsAre
  <1>1. /\ l \in 1 .. Levels /\ Inner(k, l - 1) /\ ~Inner(k, l)
        /\ \A i \in Depths : i < l => Inner(k, i)
        /\ \A i \in Depths : i > l => shape[k][i] = "none"
    BY EndIs DEF Ends, l
  <1>2. /\ \A j \in Keys, i \in Depths : Fits(j, i)
        /\ \A j \in Keys, i \in Depths : Same(j, k, i) =>
              shape[j][i] = shape[k][i] /\ pairs[j][i] = pairs[k][i] /\ width[j][i] = width[k][i]
    BY DEF WalksInv, TreeOK, Shared
  <1>3. \A i \in 1 .. l - 1 : Under(k, i) # {}
    <2> SUFFICES ASSUME NEW i \in 1 .. l - 1 PROVE Under(k, i) # {}
      OBVIOUS
    <2>1. i \in Depths /\ i > 0 /\ Inner(k, i)
      BY <1>1
    <2> QED BY <1>2, <2>1 DEF Fits, Inner
  <1>4. \A j \in Keys, i \in Depths : Same(j, k, i) =>
              (i < l => Inner(j, i)) /\ (i > l => shape[j][i] = "none" /\ pairs[j][i] = NoPairs)
    BY <1>1, <1>2 DEF Inner, Fits, HasPairs
  <1>5. shape[k][l] = "none" => Under(k, l) = {}
    BY <1>1, <1>2 DEF Fits
  <1>6. Under(k, l) = {} => stored[k] = Absent
    BY <1>1, UnderIs, SameIs
  <1>7. Route(k, l)
    BY <1>1, <1>2, <1>3, <1>4, <1>5, <1>6 DEF Route
  <1> QED BY <1>7, <1>2 DEF l, WalksAssumption

(* Walks that are the same are like a third one alike. *)
LEMMA SameFor ==
    ASSUME NEW j, NEW h, NEW i \in Int, Same(j, h, i), NEW k, NEW m \in Int, m <= i
    PROVE  (Same(j, k, m) <=> Same(h, k, m)) /\ (Same(k, j, m) <=> Same(k, h, m))
  BY SameIs

(* A key that is new is one of several above where it goes. *)
LEMMA PutCrowds ==
    ASSUME NEW k \in Keys, NEW v, Gains(k, v), stored[k] = Absent,
           NEW l, Route(k, l), NEW j \in Keys, NEW i \in Nat, i < l, Same(j, k, i)
    PROVE  /\ Under(j, i)' = Under(j, i) \cup {k} /\ Inner(j, i)
           /\ i > 0 => Under(j, i)' # {} /\ ~Alone(j, i)'
  <1>1. Under(j, i)' = Under(j, i) \cup {k} /\ k \notin Under(j, i)
    BY UnderIs DEF Gains
  <1>2. Inner(j, i)
    BY DEF Route
  <1>3. i > 0 => Under(j, i) # {}
    BY UnderSame DEF Route
  <1>4. i > 0 => ~Alone(j, i)'
    BY <1>1, <1>3 DEF Alone
  <1> QED BY <1>1, <1>2, <1>4

(* So what is above where it goes stays as it is. *)
LEMMA PutAbove ==
    ASSUME NEW k \in Keys, NEW v, Gains(k, v), stored[k] = Absent,
           NEW l, Route(k, l), NEW j \in Keys, NEW i \in Nat, i < l, Same(j, k, i),
           Fits(j, i), shape'[j][i] = shape[j][i], pairs'[j][i] = pairs[j][i], width'[j][i] = width[j][i],
           i > 0 => shape'[j][i - 1] = shape[j][i - 1],
           i = l - 1 => shape[j][i] # "array" \/ Under(k, l) # {}
    PROVE  Fits(j, i)'
  <1>1. /\ Under(j, i)' = Under(j, i) \cup {k} /\ Inner(j, i)
        /\ i > 0 => Under(j, i)' # {} /\ ~Alone(j, i)'
    BY PutCrowds
  <1>2. shape[j][i] = "array" => Under(k, i + 1) # {}
    BY DEF Route
  <1>3. shape[j][i] = "array" => Kids(j, i)' = Kids(j, i)
    BY <1>1, <1>2, PutKids
  <1> QED BY <1>1, <1>3, Above

-----------------------------------------------------------------------------

(* A bitmap node that gets a pair. *)
LEMMA AddLeafFits ==
    ASSUME WalksAssumption, WalksInv, NEW k \in Keys, NEW v \in Vals,
           Gains(k, v), NEW l, l = End(k), AddLeaf(k, v, l)
    PROVE  TreeOK'
  <1>1. Route(k, l) /\ Absent \notin Vals /\ \A j \in Keys, i \in Depths : Fits(j, i)
    BY AtEnd
  <1>2. shape[k][l] = "none" /\ shape[k][l - 1] = "bitmap" /\ stored[k] = Absent /\ l \in 1 .. Levels
    BY <1>1 DEF AddLeaf, Route
  <1>3. ASSUME NEW j \in Keys, NEW i \in Depths
        PROVE  /\ shape'[j][i] = IF i = l /\ Same(j, k, l) THEN "leaf" ELSE shape[j][i]
               /\ pairs'[j][i] = IF i = l /\ Same(j, k, l) THEN Single(k, v) ELSE pairs[j][i]
               /\ width'[j][i] = width[j][i]
    BY DEF AddLeaf, ThatOf
  <1>4. ASSUME NEW j \in Keys, NEW i \in Depths
        PROVE  Fits(j, i)'
    <2>0. i \in Nat /\ Fits(j, i) /\ (i > 0 => i - 1 \in Depths)
      BY <1>1 DEF Route
    <2>1. CASE ~Same(j, k, i)
      <3>1. /\ Under(j, i)' = Under(j, i) /\ Kids(j, i)' = Kids(j, i)
            /\ PairsOf(Under(j, i))' = PairsOf(Under(j, i))
        BY <2>0, <2>1 DEF Gains
      <3>2. shape'[j][i] = shape[j][i] /\ pairs'[j][i] = pairs[j][i] /\ width'[j][i] = width[j][i]
        BY <1>3, <2>1
      <3>3. i > 0 => shape'[j][i - 1] = shape[j][i - 1] \/ (~Inner(j, i - 1) /\ ~Inner(j, i - 1)')
        BY <1>1, <1>2, <1>3, <2>0 DEF Route, Inner
      <3> QED BY <2>0, <3>1, <3>2, <3>3, Stays
    <2>2. CASE Same(j, k, i) /\ i < l
      <3>1. /\ shape'[j][i] = shape[j][i] /\ pairs'[j][i] = pairs[j][i] /\ width'[j][i] = width[j][i]
            /\ i > 0 => shape'[j][i - 1] = shape[j][i - 1]
        BY <1>2, <1>3, <2>0, <2>2
      <3>2. i = l - 1 => shape[j][i] # "array"
        BY <1>1, <1>2, <2>2 DEF Route
      <3> QED BY <1>1, <1>2, <2>0, <2>2, <3>1, <3>2, PutAbove
    <2>3. CASE Same(j, k, i) /\ i = l
      <3>1. Under(j, i)' = {k} /\ pairs'[j][i] = PairsOf({k})'
        BY <1>1, <1>2, <1>3, <2>0, <2>3, UnderSame DEF Route, Gains
      <3>2. Same(j, k, i - 1)
        BY <2>0, <2>3, SameIs
      <3>3. i > 0 /\ shape'[j][i] = "leaf" /\ shape'[j][i - 1] = "bitmap"
        BY <1>1, <1>2, <1>3, <2>0, <2>3, <3>2 DEF Route
      <3> QED BY <2>0, <3>1, <3>3, IsLeaf
    <2>4. CASE Same(j, k, i) /\ i > l
      <3>1. Same(j, k, i - 1) /\ Same(j, k, l)
        BY <1>2, <2>0, <2>4, SameIs
      <3>2. i > 0 /\ shape'[j][i] = "none" /\ pairs'[j][i] = NoPairs /\ ~Inner(j, i - 1)'
        BY <1>1, <1>2, <1>3, <2>0, <2>4, <3>1 DEF Route, Inner
      <3> QED BY <2>0, <3>2, Nothing
    <2> QED BY <1>2, <2>0, <2>1, <2>2, <2>3, <2>4
  <1>5. Shared'
    <2> SUFFICES ASSUME NEW j \in Keys, NEW h \in Keys, NEW i \in Depths, Same(j, h, i)
                 PROVE  /\ shape'[j][i] = shape'[h][i] /\ pairs'[j][i] = pairs'[h][i]
                        /\ width'[j][i] = width'[h][i]
      BY DEF Shared, Depths
    <2>1. shape[j][i] = shape[h][i] /\ pairs[j][i] = pairs[h][i] /\ width[j][i] = width[h][i]
      BY DEF WalksInv, TreeOK, Shared
    <2>2. i = l => (Same(j, k, l) <=> Same(h, k, l))
      BY <1>2, SameIs
    <2> QED BY <1>3, <2>1, <2>2
  <1>6. /\ shape' \in [Keys -> [Depths -> Shapes]]
        /\ pairs' \in [Keys -> [Depths -> [Keys -> Vals \cup {Absent}]]]
        /\ width' \in [Keys -> [Depths -> Nat]]
    BY DEF AddLeaf, WalksInv, TreeOK, Shapes, Single, NoPairs
  <1> QED BY <1>4, <1>5, <1>6 DEF TreeOK, Depths

(* An array node that gets a node with the pair. *)
LEMMA AddChildFits ==
    ASSUME WalksAssumption, WalksInv, NEW k \in Keys, NEW v \in Vals,
           Gains(k, v), NEW l, l = End(k), AddChild(k, v, l)
    PROVE  TreeOK'
  <1>1. Route(k, l) /\ Absent \notin Vals /\ \A j \in Keys, i \in Depths : Fits(j, i)
    BY AtEnd
  <1>2. /\ shape[k][l] = "none" /\ shape[k][l - 1] = "array" /\ stored[k] = Absent /\ l \in 1 .. Levels
        /\ Levels \in Nat /\ Depths = 0 .. Levels /\ Under(k, l) = {}
    BY <1>1 DEF AddChild, Route
  <1>3. ASSUME NEW j \in Keys, NEW i \in Depths
        PROVE  /\ shape'[j][i] = IF i = l /\ Same(j, k, l) THEN "bitmap"
                                 ELSE IF i = l + 1 /\ Same(j, k, l + 1) THEN "leaf" ELSE shape[j][i]
               /\ pairs'[j][i] = IF i = l + 1 /\ Same(j, k, l + 1) THEN Single(k, v) ELSE pairs[j][i]
               /\ width'[j][i] = IF i = l - 1 /\ Same(j, k, l - 1) THEN width[j][i] + 1 ELSE width[j][i]
    BY DEF AddChild, ThatOf
  <1>4. ASSUME NEW j \in Keys, NEW i \in Depths
        PROVE  Fits(j, i)'
    <2>a. l - 1 \in Depths /\ l < Levels
      <3>1. l - 1 \in Depths /\ Fits(k, l - 1)
        BY <1>1, <1>2
      <3> QED BY <1>2, <3>1 DEF Fits
    <2>0. /\ i \in Nat /\ Fits(j, i) /\ (i > 0 => i - 1 \in Depths /\ (Same(j, k, i) => Same(j, k, i - 1)))
          /\ l - 1 \in Depths /\ l < Levels
      BY <1>1, <1>2, <2>a, SameIs
    <2>1. CASE ~Same(j, k, i)
      <3>1. /\ Under(j, i)' = Under(j, i) /\ Kids(j, i)' = Kids(j, i)
            /\ PairsOf(Under(j, i))' = PairsOf(Under(j, i))
        BY <2>0, <2>1 DEF Gains
      <3>2. shape'[j][i] = shape[j][i] /\ pairs'[j][i] = pairs[j][i] /\ width'[j][i] = width[j][i]
        BY <1>3, <2>1
      <3>3. CASE i = l + 1 /\ Same(j, k, l)
        <4>1. Under(j, i) \subseteq Under(k, l)
          BY <1>2, <2>0, <3>3, UnderUp, UnderSame
        <4>2. shape[j][i] = "none" /\ pairs[j][i] = NoPairs
          BY <1>2, <2>0, <3>3, <4>1 DEF Fits, HasPairs
        <4>3. i > 0 /\ shape'[j][i] = "none" /\ pairs'[j][i] = NoPairs /\ Under(j, i)' = {}
          BY <1>2, <3>1, <3>2, <3>3, <4>1, <4>2
        <4> QED BY <2>0, <4>3, Nothing
      <3>4. CASE ~(i = l + 1 /\ Same(j, k, l))
        <4>1. i > 0 => shape'[j][i - 1] = shape[j][i - 1] \/ (~Inner(j, i - 1) /\ ~Inner(j, i - 1)')
          BY <1>1, <1>2, <1>3, <2>0, <3>4 DEF Route, Inner
        <4> QED BY <2>0, <3>1, <3>2, <4>1, Stays
      <3> QED BY <3>3, <3>4
    <2>2. CASE Same(j, k, i) /\ i < l - 1
      <3>1. /\ shape'[j][i] = shape[j][i] /\ pairs'[j][i] = pairs[j][i] /\ width'[j][i] = width[j][i]
            /\ i > 0 => shape'[j][i - 1] = shape[j][i - 1]
        BY <1>2, <1>3, <2>0, <2>2
      <3> QED BY <1>1, <1>2, <2>0, <2>2, <3>1, PutAbove
    <2>3. CASE Same(j, k, i) /\ i = l - 1
      <3>1. /\ Under(j, i)' = Under(j, i) \cup {k}
            /\ i > 0 => Under(j, i)' # {} /\ ~Alone(j, i)'
        BY <1>1, <1>2, <2>0, <2>3, PutCrowds
      <3>2. Kids(j, i)' = Kids(j, i) \cup {Digits[k][l]} /\ Digits[k][l] \notin Kids(j, i)
        <4>1. i + 1 = l
          BY <1>2, <2>3
        <4>2. Kids(j, i)' = Kids(j, i) \cup {Digits[k][i + 1]}
          BY <2>0, <2>3, <3>1, PutKids
        <4>3. Digits[k][i + 1] \notin Kids(j, i)
          BY <1>2, <2>0, <2>3, <4>1, KidsAre, UnderSame
        <4> QED BY <4>1, <4>2, <4>3
      <3>3. shape[j][i] = "array" /\ (i > 0 => Inner(j, i - 1))
        BY <1>1, <1>2, <2>0, <2>3 DEF Route
      <3>4. width[j][i] = Cardinality(Kids(j, i)) /\ width[j][i] >= Threshold /\ pairs[j][i] = NoPairs
            /\ i < Levels - 1
        BY <2>0, <3>3 DEF Fits, HasPairs
      <3>5. IsFiniteSet(Kids(j, i)) /\ Cardinality(Kids(j, i)) \in Nat /\ Threshold \in Nat
        BY KidsFinite DEF WalksInv, WalksAssumption
      <3>6. Cardinality(Kids(j, i)') = Cardinality(Kids(j, i)) + 1
        BY <3>2, <3>5, FS_AddElement
      <3>7. /\ shape'[j][i] = "array" /\ pairs'[j][i] = NoPairs /\ width'[j][i] = width[j][i] + 1
            /\ i > 0 => Inner(j, i - 1)'
        BY <1>2, <1>3, <2>0, <2>3, <3>3, <3>4 DEF Inner
      <3>8. width'[j][i] = Cardinality(Kids(j, i)') /\ width'[j][i] >= Threshold
        BY <3>4, <3>5, <3>6, <3>7
      <3> QED BY <1>2, <2>0, <3>1, <3>4, <3>7, <3>8, IsArray
    <2>4. CASE Same(j, k, i) /\ i = l
      <3>1. Under(j, i)' = {k}
        BY <1>2, <2>0, <2>4, UnderSame DEF Gains
      <3>2. shape'[j][i] = "bitmap" /\ pairs'[j][i] = NoPairs /\ shape'[j][i - 1] = "array"
        BY <1>1, <1>2, <1>3, <2>0, <2>4 DEF Route, Fits, HasPairs
      <3> QED BY <2>0, <2>4, <3>1, <3>2, IsBitmap DEF Inner
    <2>5. CASE Same(j, k, i) /\ i = l + 1
      <3>1. Under(j, i) \subseteq Under(k, l)
        BY <1>2, <2>0, <2>5, UnderUp, UnderSame
      <3>2. Under(j, i)' = {k} /\ pairs'[j][i] = PairsOf({k})'
        BY <1>2, <1>3, <2>0, <2>5, <3>1 DEF Gains
      <3>3. i > 0 /\ shape'[j][i] = "leaf" /\ shape'[j][i - 1] = "bitmap"
        BY <1>2, <1>3, <2>0, <2>5
      <3> QED BY <2>0, <3>2, <3>3, IsLeaf
    <2>6. CASE Same(j, k, i) /\ i > l + 1
      <3>1. i > 0 /\ shape'[j][i] = "none" /\ pairs'[j][i] = NoPairs /\ ~Inner(j, i - 1)'
        BY <1>1, <1>2, <1>3, <2>0, <2>6 DEF Route, Inner
      <3> QED BY <2>0, <3>1, Nothing
    <2> QED BY <1>2, <2>0, <2>1, <2>2, <2>3, <2>4, <2>5, <2>6
  <1>5. Shared'
    <2> SUFFICES ASSUME NEW j \in Keys, NEW h \in Keys, NEW i \in Depths, Same(j, h, i)
                 PROVE  /\ shape'[j][i] = shape'[h][i] /\ pairs'[j][i] = pairs'[h][i]
                        /\ width'[j][i] = width'[h][i]
      BY DEF Shared, Depths
    <2>1. shape[j][i] = shape[h][i] /\ pairs[j][i] = pairs[h][i] /\ width[j][i] = width[h][i]
      BY DEF WalksInv, TreeOK, Shared
    <2>2. Same(j, k, i) <=> Same(h, k, i)
      BY <1>2, SameFor
    <2> QED BY <1>3, <2>1, <2>2
  <1>6. /\ shape' \in [Keys -> [Depths -> Shapes]]
        /\ pairs' \in [Keys -> [Depths -> [Keys -> Vals \cup {Absent}]]]
        /\ width' \in [Keys -> [Depths -> Nat]]
    BY DEF AddChild, WalksInv, TreeOK, Shapes, Single, NoPairs
  <1> QED BY <1>4, <1>5, <1>6 DEF TreeOK, Depths

(* A bitmap node that is full and has no child for a key is not one of the *)
(* last level, whose digit does not have more values than it has children. *)
LEMMA RoomBelow ==
    ASSUME WalksAssumption, WalksInv, NEW k \in Keys, NEW l \in 1 .. Levels, Levels \in Nat,
           Under(k, l) = {}, Cardinality(Kids(k, l - 1)) >= Threshold
    PROVE  l < Levels
  <1> SUFFICES ASSUME l = Levels PROVE FALSE
    OBVIOUS
  <1> DEFINE d == Digits[k][Levels]
             c == Kids(k, l - 1)
  <1>1. l - 1 \in Nat /\ (l - 1) + 1 = l
    OBVIOUS
  <1>2. d \notin c
    BY <1>1, KidsAre
  <1>3. c \subseteq LastDigits /\ d \in LastDigits
    BY <1>1, UnderIs DEF Kids, LastDigits
  <1>4. IsFiniteSet(c) /\ Cardinality(c) \in Nat
    BY KidsFinite DEF WalksInv
  <1>5. IsFiniteSet(LastDigits) /\ Cardinality(LastDigits) <= Threshold /\ Threshold \in Nat
    BY DEF WalksAssumption
  <1> HIDE DEF d, c
  <1>6. Cardinality(c \cup {d}) = Cardinality(c) + 1
    BY <1>2, <1>4, FS_AddElement
  <1>7. c \cup {d} \in SUBSET LastDigits
    BY <1>3
  <1>8. Cardinality(c \cup {d}) <= Cardinality(LastDigits) /\ Cardinality(LastDigits) \in Nat
    BY <1>5, <1>7, FS_Subset, FS_CardinalityType
  <1>9. Cardinality(c) >= Threshold
    BY DEF c
  <1> QED BY <1>4, <1>5, <1>6, <1>8, <1>9

(* A bitmap node that becomes an array node, and its leaves nodes. *)
LEMMA PromoteFits ==
    ASSUME WalksAssumption, WalksInv, NEW k \in Keys, NEW v \in Vals,
           Gains(k, v), NEW l, l = End(k), PromoteWith(k, v, l)
    PROVE  TreeOK'
  <1>1. Route(k, l) /\ Absent \notin Vals /\ \A j \in Keys, i \in Depths : Fits(j, i)
    BY AtEnd
  <1>2. /\ shape[k][l] = "none" /\ shape[k][l - 1] = "bitmap" /\ stored[k] = Absent
        /\ Levels \in Nat /\ Depths = 0 .. Levels /\ Under(k, l) = {}
        /\ Cardinality(Kids(k, l - 1)) >= Threshold
        /\ l \in 1 .. Levels - 1 /\ l - 1 \in Depths /\ l \in Depths /\ l - 1 \in Nat
    <2>1. /\ shape[k][l] = "none" /\ shape[k][l - 1] = "bitmap" /\ stored[k] = Absent
          /\ Levels \in Nat /\ Depths = 0 .. Levels /\ Under(k, l) = {}
          /\ Cardinality(Kids(k, l - 1)) >= Threshold /\ l \in 1 .. Levels
      BY <1>1 DEF PromoteWith, Route
    <2>2. l < Levels
      BY <2>1, RoomBelow
    <2> QED BY <2>1, <2>2
  <1>3. ASSUME NEW j \in Keys, NEW i \in Depths
        PROVE  /\ shape'[j][i] = IF i = l - 1 /\ Same(j, k, l - 1) THEN "array"
                    ELSE IF i = l /\ Same(j, k, l - 1) /\ shape[j][l] \in {"none", "leaf"}
                    THEN IF shape[j][l] = "leaf" \/ Same(j, k, l) THEN "bitmap" ELSE "none"
                    ELSE IF i = l + 1 /\ Same(j, k, l - 1) /\ (Sinks(j, l) \/ Same(j, k, i)) THEN "leaf"
                    ELSE shape[j][i]
               /\ pairs'[j][i] = IF i = l /\ Same(j, k, l - 1) /\ shape[j][l] = "leaf" THEN NoPairs
                    ELSE IF i = l + 1 /\ Same(j, k, l + 1) THEN Single(k, v)
                    ELSE IF i = l + 1 /\ Same(j, k, l - 1) /\ Sinks(j, l) THEN pairs[j][l]
                    ELSE pairs[j][i]
               /\ width'[j][i] = IF i = l - 1 /\ Same(j, k, l - 1)
                    THEN Cardinality(Kids(k, l - 1)) + 1 ELSE width[j][i]
    BY DEF PromoteWith, ThatOf
  <1>4. \A j \in Keys : /\ Same(j, k, l) => Same(j, k, l - 1) /\ shape[j][l] = "none"
                        /\ Same(j, k, l + 1) => Same(j, k, l)
                        /\ Same(j, k, l - 1) => shape[j][l - 1] = "bitmap" /\ Inner(j, l - 1)
    BY <1>1, <1>2, SameIs DEF Route, Inner
  (* Where a leaf sinks to, and its pair. *)
  <1>5. ASSUME NEW j \in Keys, shape[j][l] = "leaf"
        PROVE  /\ pairs[j][l] = PairsOf(Under(j, l)) /\ ~Same(j, k, l) /\ shape[j][l + 1] = "none"
               /\ pairs[j][l + 1] = NoPairs
               /\ Sinks(j, l) => \E x \in Keys : Under(j, l) = {x} /\ Under(j, l + 1) = {x}
               /\ ~Sinks(j, l) => Under(j, l + 1) = {}
    <2>1. Fits(j, l) /\ Fits(j, l + 1) /\ l > 0 /\ l + 1 \in Depths
      BY <1>1, <1>2
    <2>2. PICK x \in Keys : Under(j, l) = {x}
      BY <1>5, <2>1 DEF Fits, Alone
    <2>3. pairs[j][l] = PairsOf({x})
      BY <1>5, <2>1, <2>2 DEF Fits, HasPairs
    <2>4. ~Same(j, k, l) /\ shape[j][l + 1] = "none" /\ pairs[j][l + 1] = NoPairs
      BY <1>2, <1>4, <1>5, <2>1 DEF Fits, Inner, HasPairs
    <2>5. \A y \in Keys : pairs[j][l][y] # Absent <=> y = x
      <3>1. stored[x] # Absent
        BY <2>2, UnderIs
      <3> QED BY <2>3, <3>1 DEF PairsOf
    <2>6. Sinks(j, l) <=> Same(x, j, l + 1)
      BY <1>5, <2>5 DEF Sinks
    <2>7. Under(j, l + 1) \subseteq {x}
      BY <1>2, <2>2, UnderUp
    <2>8. x \in Under(j, l + 1) <=> Same(x, j, l + 1)
      BY <2>2, UnderIs
    <2> QED BY <2>2, <2>3, <2>4, <2>6, <2>7, <2>8
  <1>6. ASSUME NEW j \in Keys, NEW i \in Depths
        PROVE  Fits(j, i)'
    <2>0. /\ i \in Nat /\ Fits(j, i) /\ (i > 0 => i - 1 \in Depths /\ (Same(j, k, i) => Same(j, k, i - 1)))
          /\ (i > l => (Same(j, k, i) => Same(j, k, l)))
          /\ (i >= l - 1 => (Same(j, k, i) => Same(j, k, l - 1)))
      BY <1>1, <1>2, SameIs
    <2>1. ASSUME ~Same(j, k, i)
          PROVE  /\ Under(j, i)' = Under(j, i) /\ Kids(j, i)' = Kids(j, i)
                 /\ PairsOf(Under(j, i))' = PairsOf(Under(j, i))
      BY <2>0, <2>1 DEF Gains
    <2>2. CASE ~Same(j, k, i) /\ (i <= l - 1 \/ ~Same(j, k, l - 1))
      <3>1. shape'[j][i] = shape[j][i] /\ pairs'[j][i] = pairs[j][i] /\ width'[j][i] = width[j][i]
        BY <1>2, <1>3, <1>4, <2>2
      <3>2. i > 0 => shape'[j][i - 1] = shape[j][i - 1]
        BY <1>2, <1>3, <1>4, <2>0, <2>2
      <3> QED BY <2>0, <2>1, <2>2, <3>1, <3>2, Stays
    <2>3. CASE Same(j, k, i) /\ i < l - 1
      <3>1. /\ shape'[j][i] = shape[j][i] /\ pairs'[j][i] = pairs[j][i] /\ width'[j][i] = width[j][i]
            /\ i > 0 => shape'[j][i - 1] = shape[j][i - 1]
        BY <1>2, <1>3, <2>0, <2>3
      <3> QED BY <1>1, <1>2, <2>0, <2>3, <3>1, PutAbove
    <2>4. CASE Same(j, k, i) /\ i = l - 1
      <3>1. /\ Under(j, i)' = Under(j, i) \cup {k}
            /\ i > 0 => Under(j, i)' # {} /\ ~Alone(j, i)'
        BY <1>1, <1>2, <2>0, <2>4, PutCrowds
      <3>2. Kids(j, i)' = Kids(k, i) \cup {Digits[k][l]} /\ Digits[k][l] \notin Kids(k, i)
        <4>1. i + 1 = l
          BY <1>2, <2>4
        <4>2. Kids(j, i)' = Kids(k, i) \cup {Digits[k][i + 1]}
          BY <2>0, <2>4, <3>1, PutKids, UnderSame
        <4>3. Digits[k][i + 1] \notin Kids(k, i)
          BY <1>2, <2>0, <2>4, <4>1, KidsAre
        <4> QED BY <4>1, <4>2, <4>3
      <3>3. IsFiniteSet(Kids(k, i)) /\ Cardinality(Kids(k, i)) \in Nat /\ Threshold \in Nat
        BY KidsFinite DEF WalksInv, WalksAssumption
      <3>4. Cardinality(Kids(j, i)') = Cardinality(Kids(k, i)) + 1
        BY <3>2, <3>3, FS_AddElement
      <3>5. pairs[j][i] = NoPairs /\ (i > 0 => Inner(j, i - 1))
        BY <1>1, <1>4, <2>0, <2>4, <1>2 DEF Fits, HasPairs, Inner
      <3>6. /\ shape'[j][i] = "array" /\ pairs'[j][i] = NoPairs
            /\ width'[j][i] = Cardinality(Kids(k, l - 1)) + 1
            /\ i > 0 => Inner(j, i - 1)'
        BY <1>2, <1>3, <2>0, <2>4, <3>5 DEF Inner
      <3>7. width'[j][i] = Cardinality(Kids(j, i)') /\ width'[j][i] >= Threshold /\ i < Levels - 1
        BY <1>2, <2>4, <3>3, <3>4, <3>6
      <3> QED BY <1>2, <2>0, <3>1, <3>6, <3>7, IsArray
    <2>5. CASE ~Same(j, k, i) /\ i = l /\ Same(j, k, l - 1)
      <3>0. shape'[j][i - 1] = "array" /\ i > 0 /\ shape[j][i - 1] = "bitmap"
        BY <1>2, <1>3, <1>4, <2>0, <2>5
      <3>1. CASE shape[j][l] = "none"
        <4>1. Under(j, i) = {} /\ pairs[j][i] = NoPairs
          BY <1>4, <2>0, <2>5, <3>0, <3>1 DEF Fits, Inner, HasPairs
        <4>2. shape'[j][i] = "none" /\ pairs'[j][i] = NoPairs
          BY <1>2, <1>3, <2>5, <3>1, <4>1
        <4> QED BY <2>0, <2>1, <2>5, <3>0, <4>1, <4>2, Nothing
      <3>2. CASE shape[j][l] = "leaf"
        <4>1. shape'[j][i] = "bitmap" /\ pairs'[j][i] = NoPairs /\ Under(j, i) # {}
          BY <1>2, <1>3, <2>0, <2>5, <3>2 DEF Fits
        <4>2. Under(j, i)' # {} /\ i < Levels /\ Inner(j, i - 1)'
          BY <1>2, <2>1, <2>5, <3>0, <4>1 DEF Inner
        <4> QED BY <2>0, <3>0, <4>1, <4>2, IsBitmap
      <3>3. CASE shape[j][l] \notin {"none", "leaf"}
        <4>1. shape'[j][i] = shape[j][i] /\ pairs'[j][i] = pairs[j][i] /\ width'[j][i] = width[j][i]
          BY <1>2, <1>3, <2>5, <3>3
        <4> QED BY <2>0, <2>1, <2>5, <3>0, <3>3, <4>1, Stays
      <3> QED BY <3>1, <3>2, <3>3
    <2>6. CASE Same(j, k, i) /\ i = l
      <3>1. Under(j, i)' = {k}
        BY <1>2, <2>0, <2>6, UnderSame DEF Gains
      <3>2. shape'[j][i] = "bitmap" /\ pairs'[j][i] = NoPairs /\ shape'[j][i - 1] = "array"
        BY <1>1, <1>2, <1>3, <1>4, <2>0, <2>6 DEF Fits, HasPairs
      <3>3. i < Levels /\ Under(j, i)' # {} /\ Inner(j, i - 1)'
        BY <1>2, <2>6, <3>1, <3>2 DEF Inner
      <3> QED BY <2>0, <3>2, <3>3, IsBitmap
    <2>7. CASE i = l + 1 /\ Same(j, k, l - 1)
      <3>0. i > 0 /\ i - 1 = l
        BY <1>2, <2>7
      <3>1. CASE Same(j, k, i)
        <4>1. Under(j, i) \subseteq Under(k, l) /\ shape[j][l] = "none"
          BY <1>2, <1>4, <2>0, <2>7, <3>1, UnderUp, UnderSame
        <4>2. Under(j, i)' = {k} /\ pairs'[j][i] = PairsOf({k})'
          BY <1>2, <1>3, <2>0, <2>7, <3>1, <4>1 DEF Gains
        <4>3. i > 0 /\ shape'[j][i] = "leaf" /\ shape'[j][i - 1] = "bitmap"
          BY <1>2, <1>3, <1>4, <2>0, <2>7, <3>1, <4>1
        <4> QED BY <2>0, <4>2, <4>3, IsLeaf
      <3>2. CASE ~Same(j, k, i) /\ Sinks(j, l)
        <4>1. shape[j][l] = "leaf"
          BY <3>2 DEF Sinks
        <4>2. PICK x \in Keys : Under(j, l) = {x} /\ Under(j, l + 1) = {x}
          BY <1>5, <3>2, <4>1
        <4>3. i > 0 /\ shape'[j][i] = "leaf" /\ shape'[j][i - 1] = "bitmap" /\ pairs'[j][i] = pairs[j][l]
          BY <1>2, <1>3, <2>0, <2>7, <3>2, <4>1
        <4>4. pairs[j][l] = PairsOf(Under(j, i))
          BY <1>5, <2>7, <4>1, <4>2
        <4>5. Under(j, i)' = {x} /\ pairs'[j][i] = PairsOf({x})'
          BY <2>1, <2>7, <3>2, <4>2, <4>3, <4>4
        <4> QED BY <2>0, <4>3, <4>5, IsLeaf
      <3>3. CASE ~Same(j, k, i) /\ ~Sinks(j, l)
        <4>0. shape'[j][i] = shape[j][i] /\ pairs'[j][i] = pairs[j][i] /\ width'[j][i] = width[j][i]
          BY <1>2, <1>3, <2>7, <3>3
        <4>1. CASE shape[j][l] = "leaf"
          <5>1. Under(j, i)' = {} /\ shape'[j][i] = "none" /\ pairs'[j][i] = NoPairs
            BY <1>5, <2>1, <2>7, <3>3, <4>0, <4>1
          <5> QED BY <2>0, <3>0, <5>1, Nothing
        <4>2. CASE shape[j][l] = "none"
          <5>1. shape'[j][i] = "none" /\ pairs'[j][i] = NoPairs
            BY <2>0, <3>0, <4>0, <4>2 DEF Fits, Inner, HasPairs
          <5>2. Under(j, i)' = {}
            <6>1. Under(j, l) = {}
              BY <1>1, <1>2, <1>4, <2>7, <4>2 DEF Fits
            <6>2. Under(j, i) \subseteq Under(j, l)
              BY <1>2, <2>7, UnderUp
            <6> QED BY <2>1, <3>3, <6>1, <6>2
          <5> QED BY <2>0, <3>0, <5>1, <5>2, Nothing
        <4>3. CASE shape[j][l] \notin {"none", "leaf"}
          <5>1. shape'[j][i - 1] = shape[j][i - 1]
            BY <1>2, <1>3, <2>0, <3>0, <4>3
          <5> QED BY <2>0, <2>1, <3>0, <3>3, <4>0, <5>1, Stays
        <4> QED BY <4>1, <4>2, <4>3
      <3> QED BY <3>1, <3>2, <3>3
    <2>8. CASE i > l + 1 /\ Same(j, k, l - 1)
      <3>0. shape'[j][i] = shape[j][i] /\ pairs'[j][i] = pairs[j][i] /\ width'[j][i] = width[j][i]
        BY <1>2, <1>3, <2>8
      <3>1. shape'[j][i - 1] = shape[j][i - 1] \/ (~Inner(j, i - 1) /\ ~Inner(j, i - 1)')
        <4>1. CASE i - 1 = l + 1
          <5>1. Same(j, k, l + 1) => shape[j][l + 1] = "none"
            BY <1>1, <1>2 DEF Route
          <5>2. Sinks(j, l) => shape[j][l + 1] = "none"
            BY <1>5 DEF Sinks
          <5> QED BY <1>2, <1>3, <2>0, <2>8, <4>1, <5>1, <5>2 DEF Inner
        <4>2. CASE i - 1 > l + 1
          BY <1>2, <1>3, <2>0, <2>8, <4>2
        <4> QED BY <1>2, <2>0, <2>8, <4>1, <4>2
      <3>2. CASE ~Same(j, k, i)
        BY <2>0, <2>1, <3>0, <3>1, <3>2, Stays
      <3>3. CASE Same(j, k, i)
        <4>1. shape[j][i] = "none" /\ pairs[j][i] = NoPairs /\ shape[j][i - 1] = "none"
          BY <1>1, <1>2, <2>0, <2>8, <3>3 DEF Route
        <4>2. i > 0 /\ shape'[j][i] = "none" /\ pairs'[j][i] = NoPairs /\ ~Inner(j, i - 1)'
          BY <1>2, <2>8, <3>0, <3>1, <4>1 DEF Inner
        <4> QED BY <2>0, <4>2, Nothing
      <3> QED BY <3>2, <3>3
    <2> QED BY <1>2, <2>0, <2>2, <2>3, <2>4, <2>5, <2>6, <2>7, <2>8
  <1>7. Shared'
    <2> SUFFICES ASSUME NEW j \in Keys, NEW h \in Keys, NEW i \in Depths, Same(j, h, i)
                 PROVE  /\ shape'[j][i] = shape'[h][i] /\ pairs'[j][i] = pairs'[h][i]
                        /\ width'[j][i] = width'[h][i]
      BY DEF Shared, Depths
    <2>1. shape[j][i] = shape[h][i] /\ pairs[j][i] = pairs[h][i] /\ width[j][i] = width[h][i]
      BY DEF WalksInv, TreeOK, Shared
    <2>2. /\ Same(j, k, i) <=> Same(h, k, i)
          /\ i >= l - 1 => (Same(j, k, l - 1) <=> Same(h, k, l - 1))
          /\ i >= l => (Same(j, k, l) <=> Same(h, k, l))
      BY <1>2, SameFor
    <2>3. i >= l => shape[j][l] = shape[h][l] /\ pairs[j][l] = pairs[h][l]
      <3>1. i >= l => Same(j, h, l)
        BY <1>2, SameIs
      <3> QED BY <1>2, <3>1 DEF WalksInv, TreeOK, Shared
    <2>4. i = l + 1 => (Sinks(j, l) <=> Sinks(h, l))
      <3>1. i = l + 1 => \A x : Same(x, j, l + 1) <=> Same(x, h, l + 1)
        BY <1>2, SameFor
      <3> QED BY <1>2, <2>3, <3>1 DEF Sinks
    <2>5. CASE i = l - 1
      BY <1>2, <1>3, <2>1, <2>2, <2>5
    <2>6. CASE i = l
      BY <1>2, <1>3, <2>1, <2>2, <2>3, <2>6
    <2>7. CASE i = l + 1
      <3>1. Same(j, k, l - 1) <=> Same(h, k, l - 1)
        BY <1>2, <2>2, <2>7
      <3>2. shape'[j][i] = shape'[h][i]
        BY <1>2, <1>3, <2>1, <2>2, <2>4, <2>7, <3>1
      <3>3. pairs'[j][i] = pairs'[h][i]
        BY <1>2, <1>3, <2>1, <2>2, <2>3, <2>4, <2>7, <3>1
      <3> QED BY <1>2, <1>3, <2>1, <2>7, <3>2, <3>3
    <2>8. CASE i \notin {l - 1, l, l + 1}
      BY <1>2, <1>3, <2>1, <2>8
    <2> QED BY <2>5, <2>6, <2>7, <2>8
  <1>8. /\ shape' \in [Keys -> [Depths -> Shapes]]
        /\ pairs' \in [Keys -> [Depths -> [Keys -> Vals \cup {Absent}]]]
        /\ width' \in [Keys -> [Depths -> Nat]]
    <2>1. Cardinality(Kids(k, l - 1)) \in Nat
      BY KidsFinite DEF WalksInv
    <2>2. Single(k, v) \in [Keys -> Vals \cup {Absent}] /\ NoPairs \in [Keys -> Vals \cup {Absent}]
      BY DEF Single, NoPairs
    <2>3. width' \in [Keys -> [Depths -> Nat]]
      BY <2>1 DEF PromoteWith, WalksInv, TreeOK
    <2>a. \A j \in Keys, i \in Depths : pairs[j][i] \in [Keys -> Vals \cup {Absent}]
      BY DEF WalksInv, TreeOK
    <2>b. ASSUME NEW j \in Keys, NEW i \in Depths
          PROVE  pairs'[j][i] \in [Keys -> Vals \cup {Absent}]
      BY <1>2, <1>3, <2>2, <2>a
    <2>c. pairs' = [j \in Keys |-> [i \in Depths |-> pairs'[j][i]]]
      BY DEF PromoteWith
    <2>4. pairs' \in [Keys -> [Depths -> [Keys -> Vals \cup {Absent}]]]
      BY <2>b, <2>c
    <2> QED BY <2>3, <2>4 DEF PromoteWith, WalksInv, TreeOK, Shapes
  <1> QED BY <1>6, <1>7, <1>8 DEF TreeOK, Depths

(* Pairs of which one is given another value, or added. *)
LEMMA PairsWith ==
    ASSUME WalksInv, NEW k \in Keys, NEW v \in Vals, Gains(k, v),
           NEW j \in Keys, NEW i \in Nat, Same(j, k, i), Fits(j, i), HasPairs(j, i),
           pairs'[j][i] \in [Keys -> Vals \cup {Absent}],
           \A x \in Keys : pairs'[j][i][x] = IF x = k THEN v ELSE pairs[j][i][x]
    PROVE  pairs'[j][i] = PairsOf(Under(j, i))'
  <1>1. Under(j, i)' = Under(j, i) \cup {k}
    BY DEF Gains
  <1>2. pairs[j][i] = PairsOf(Under(j, i))
    BY DEF Fits
  <1>3. \A x \in Keys : stored'[x] = IF x = k THEN v ELSE stored[x]
    BY DEF Gains
  <1>4. \A x \in Keys : pairs'[j][i][x] = IF x \in Under(j, i)' THEN stored'[x] ELSE Absent
    BY <1>1, <1>2, <1>3 DEF PairsOf
  <1>5. pairs'[j][i] = [x \in Keys |-> pairs'[j][i][x]]
    OBVIOUS
  <1>6. PairsOf(Under(j, i))' = [x \in Keys |-> IF x \in Under(j, i)' THEN stored'[x] ELSE Absent]
    BY DEF PairsOf
  <1> QED BY <1>4, <1>5, <1>6

(* A pair whose value is another one. *)
LEMMA NewValueFits ==
    ASSUME WalksAssumption, WalksInv, NEW k \in Keys, NEW v \in Vals, Gains(k, v),
           NEW l, l = End(k), NewValue(k, v, l)
    PROVE  TreeOK'
  <1>1. Route(k, l) /\ Absent \notin Vals /\ \A j \in Keys, i \in Depths : Fits(j, i)
    BY AtEnd
  <1>2. /\ shape[k][l] # "none" /\ stored[k] # Absent /\ l \in 1 .. Levels
        /\ Levels \in Nat /\ Depths = 0 .. Levels
    BY <1>1 DEF NewValue, Route
  <1>3. ASSUME NEW j \in Keys, NEW i \in Depths
        PROVE  /\ shape'[j][i] = shape[j][i] /\ width'[j][i] = width[j][i]
               /\ ~(i = l /\ Same(j, k, l)) => pairs'[j][i] = pairs[j][i]
    BY DEF NewValue, ThatOf
  <1>c. ASSUME NEW j \in Keys, NEW i \in Depths, i = l, Same(j, k, l)
        PROVE  /\ pairs'[j][i] \in [Keys -> Vals \cup {Absent}]
               /\ \A x \in Keys : pairs'[j][i][x] = IF x = k THEN v ELSE pairs[j][i][x]
    <2>1. pairs'[j][i] = [pairs[j][i] EXCEPT ![k] = v]
      BY <1>2, <1>c DEF NewValue, ThatOf
    <2>2. pairs[j][i] \in [Keys -> Vals \cup {Absent}]
      BY DEF WalksInv, TreeOK
    <2> QED BY <2>1, <2>2
  <1>4. ASSUME NEW j \in Keys, NEW i \in Depths
        PROVE  Fits(j, i)'
    <2>0. i \in Nat /\ Fits(j, i) /\ (i > 0 => i - 1 \in Depths /\ (Same(j, k, i) => Same(j, k, i - 1)))
      BY <1>1, <1>2, SameIs
    <2>1. Under(j, i)' = Under(j, i) /\ Kids(j, i)' = Kids(j, i) /\ (Alone(j, i)' <=> Alone(j, i))
      <3>1. Same(j, k, i) => k \in Under(j, i)
        BY <1>2, <2>0, UnderIs, SameIs
      <3>2. Under(j, i)' = Under(j, i)
        BY <2>0, <3>1 DEF Gains
      <3> QED BY <3>2 DEF Kids, Alone
    <2>2. i > 0 => shape'[j][i - 1] = shape[j][i - 1]
      BY <1>3, <2>0
    <2>3. CASE ~Same(j, k, i)
      <3>1. PairsOf(Under(j, i))' = PairsOf(Under(j, i))
        BY <2>0, <2>3 DEF Gains
      <3>2. shape'[j][i] = shape[j][i] /\ pairs'[j][i] = pairs[j][i] /\ width'[j][i] = width[j][i]
        BY <1>3, <2>3
      <3> QED BY <2>0, <2>1, <2>2, <3>1, <3>2, Stays
    <2>4. CASE Same(j, k, i) /\ i < l
      <3>1. shape'[j][i] = shape[j][i] /\ pairs'[j][i] = pairs[j][i] /\ width'[j][i] = width[j][i]
        BY <1>2, <1>3, <2>4
      <3>2. Inner(j, i)
        BY <1>1, <2>4 DEF Route
      <3>3. i > 0 => Under(j, i)' # {} /\ (shape[j][i - 1] = "bitmap" => ~Alone(j, i)')
        BY <2>0, <2>1, <3>2 DEF Fits, Inner
      <3> QED BY <2>0, <2>1, <2>2, <3>1, <3>2, <3>3, Above
    <2>5. CASE Same(j, k, i) /\ i = l
      <3>1. HasPairs(j, i)
        <4>1. shape[j][i] = shape[k][l] /\ ~Inner(k, l)
          BY <1>1, <2>5 DEF Route
        <4>2. shape[k][l] \in Shapes
          BY <1>2 DEF WalksInv, TreeOK
        <4> QED BY <1>2, <4>1, <4>2 DEF HasPairs, Inner, Shapes
      <3>2. pairs'[j][i] = PairsOf(Under(j, i))'
        BY <1>c, <2>0, <2>5, <3>1, PairsWith
      <3>3. OneHash(Under(j, i))' <=> OneHash(Under(j, i))
        BY <2>1 DEF OneHash
      <3> QED BY <1>3, <2>0, <2>1, <2>2, <2>5, <3>1, <3>2, <3>3 DEF Fits, Inner, HasPairs
    <2>6. CASE Same(j, k, i) /\ i > l
      <3>1. shape[j][i] = "none" /\ pairs[j][i] = NoPairs /\ ~Inner(j, i - 1)
        BY <1>1, <1>2, <2>0, <2>6 DEF Route, Inner
      <3>2. i > 0 /\ shape'[j][i] = "none" /\ pairs'[j][i] = NoPairs /\ ~Inner(j, i - 1)'
        BY <1>2, <1>3, <2>2, <2>6, <3>1 DEF Inner
      <3> QED BY <2>0, <3>2, Nothing
    <2> QED BY <1>2, <2>0, <2>3, <2>4, <2>5, <2>6
  <1>5. Shared'
    <2> SUFFICES ASSUME NEW j \in Keys, NEW h \in Keys, NEW i \in Depths, Same(j, h, i)
                 PROVE  /\ shape'[j][i] = shape'[h][i] /\ pairs'[j][i] = pairs'[h][i]
                        /\ width'[j][i] = width'[h][i]
      BY DEF Shared, Depths
    <2>1. shape[j][i] = shape[h][i] /\ pairs[j][i] = pairs[h][i] /\ width[j][i] = width[h][i]
      BY DEF WalksInv, TreeOK, Shared
    <2>2. Same(j, k, i) <=> Same(h, k, i)
      BY <1>2, SameFor
    <2>3. i = l /\ Same(j, k, l) => pairs'[j][i] = pairs'[h][i]
      <3>1. i = l /\ Same(j, k, l) => Same(h, k, l)
        BY <2>2
      <3> QED BY <1>c, <2>1, <3>1
    <2> QED BY <1>3, <2>1, <2>2, <2>3
  <1>6. /\ shape' \in [Keys -> [Depths -> Shapes]]
        /\ pairs' \in [Keys -> [Depths -> [Keys -> Vals \cup {Absent}]]]
        /\ width' \in [Keys -> [Depths -> Nat]]
    BY DEF NewValue, WalksInv, TreeOK, Shapes
  <1> QED BY <1>4, <1>5, <1>6 DEF TreeOK, Depths

(* What a walk ends at, if it is something, are pairs of one hash. *)
LEMMA EndPairs ==
    ASSUME WalksInv, NEW k \in Keys, NEW l \in Depths, Depths \subseteq Nat, Levels \in Nat,
           Fits(k, l), ~Inner(k, l), shape[k][l] # "none"
    PROVE  HasPairs(k, l) /\ Under(k, l) # {} /\ OneHash(Under(k, l)) /\ pairs[k][l] = PairsOf(Under(k, l))
  <1>1. HasPairs(k, l)
    BY DEF WalksInv, TreeOK, HasPairs, Inner, Shapes
  <1>2. CASE shape[k][l] = "leaf"
    <2>1. PICK x \in Keys : Under(k, l) = {x}
      BY <1>2 DEF Fits, Alone
    <2> QED BY <1>1, <2>1, SameIs DEF Fits, OneHash
  <1>3. CASE shape[k][l] = "collision"
    BY <1>1, <1>3 DEF Fits
  <1> QED BY <1>1, <1>2, <1>3 DEF HasPairs

(* Pairs of one hash. *)
LEMMA CollideFits ==
    ASSUME WalksAssumption, WalksInv, NEW k \in Keys, NEW v \in Vals, Gains(k, v),
           NEW l, l = End(k), Collide(k, v, l)
    PROVE  TreeOK'
  <1>1. Route(k, l) /\ Absent \notin Vals /\ \A j \in Keys, i \in Depths : Fits(j, i)
    BY AtEnd
  <1>2. /\ shape[k][l] # "none" /\ stored[k] = Absent /\ l \in 1 .. Levels /\ l \in Depths
        /\ Levels \in Nat /\ Depths = 0 .. Levels /\ Inner(k, l - 1) /\ ~Inner(k, l)
    BY <1>1 DEF Collide, Route
  <1>a. /\ HasPairs(k, l) /\ Under(k, l) # {} /\ OneHash(Under(k, l))
        /\ \E x \in Under(k, l) : Same(x, k, Levels)
    BY <1>1, <1>2, EndPairs DEF Collide
  <1>b. ASSUME NEW y \in Under(k, l) \cup {k}, NEW z \in Under(k, l) \cup {k} PROVE Same(y, z, Levels)
    <2>1. \A x \in Under(k, l) : Same(x, k, Levels) /\ Same(k, x, Levels)
      BY <1>2, <1>a, SameIs DEF OneHash
    <2> QED BY <1>2, <2>1, SameIs
  <1>3. ASSUME NEW j \in Keys, NEW i \in Depths
        PROVE  /\ shape'[j][i] = IF i = l /\ Same(j, k, l) THEN "collision" ELSE shape[j][i]
               /\ ~(i = l /\ Same(j, k, l)) => pairs'[j][i] = pairs[j][i]
               /\ width'[j][i] = width[j][i]
    BY DEF Collide, ThatOf
  <1>c. ASSUME NEW j \in Keys, NEW i \in Depths, i = l, Same(j, k, l)
        PROVE  /\ pairs'[j][i] \in [Keys -> Vals \cup {Absent}]
               /\ \A x \in Keys : pairs'[j][i][x] = IF x = k THEN v ELSE pairs[j][i][x]
    <2>1. pairs'[j][i] = [pairs[j][i] EXCEPT ![k] = v]
      BY <1>2, <1>c DEF Collide, ThatOf
    <2>2. pairs[j][i] \in [Keys -> Vals \cup {Absent}]
      BY DEF WalksInv, TreeOK
    <2> QED BY <2>1, <2>2
  <1>4. ASSUME NEW j \in Keys, NEW i \in Depths
        PROVE  Fits(j, i)'
    <2>0. i \in Nat /\ Fits(j, i) /\ (i > 0 => i - 1 \in Depths /\ (Same(j, k, i) => Same(j, k, i - 1)))
      BY <1>1, <1>2, SameIs
    <2>1. CASE ~Same(j, k, i)
      <3>1. /\ Under(j, i)' = Under(j, i) /\ Kids(j, i)' = Kids(j, i)
            /\ PairsOf(Under(j, i))' = PairsOf(Under(j, i))
        BY <2>0, <2>1 DEF Gains
      <3>2. shape'[j][i] = shape[j][i] /\ pairs'[j][i] = pairs[j][i] /\ width'[j][i] = width[j][i]
        BY <1>3, <2>1
      <3>3. i > 0 => shape'[j][i - 1] = shape[j][i - 1] \/ (~Inner(j, i - 1) /\ ~Inner(j, i - 1)')
        BY <1>1, <1>2, <1>3, <2>0 DEF Route, Inner
      <3> QED BY <2>0, <3>1, <3>2, <3>3, Stays
    <2>2. CASE Same(j, k, i) /\ i < l
      <3>1. /\ shape'[j][i] = shape[j][i] /\ pairs'[j][i] = pairs[j][i] /\ width'[j][i] = width[j][i]
            /\ i > 0 => shape'[j][i - 1] = shape[j][i - 1]
        BY <1>2, <1>3, <2>0, <2>2
      <3> QED BY <1>1, <1>2, <1>a, <2>0, <2>2, <3>1, PutAbove
    <2>3. CASE Same(j, k, i) /\ i = l
      <3>1. Under(j, i)' = Under(k, l) \cup {k} /\ k \notin Under(k, l)
        BY <1>2, <2>0, <2>3, UnderSame, UnderIs DEF Gains
      <3>2. Under(j, i)' # {} /\ ~Alone(j, i)' /\ OneHash(Under(j, i))'
        BY <1>a, <1>b, <3>1 DEF Alone, OneHash
      <3>3. HasPairs(j, i) /\ Inner(j, i - 1)
        BY <1>1, <1>2, <1>a, <2>0, <2>3 DEF HasPairs, Route
      <3>4. pairs'[j][i] = PairsOf(Under(j, i))'
        BY <1>c, <2>0, <2>3, <3>3, PairsWith
      <3>5. i > 0 /\ shape'[j][i] = "collision" /\ Inner(j, i - 1)'
        BY <1>2, <1>3, <2>0, <2>3, <3>3 DEF Inner
      <3> QED BY <2>0, <3>2, <3>4, <3>5, IsCollision
    <2>4. CASE Same(j, k, i) /\ i > l
      <3>1. Same(j, k, i - 1) /\ Same(j, k, l)
        BY <1>2, <2>0, <2>4, SameIs
      <3>2. i > 0 /\ shape'[j][i] = "none" /\ pairs'[j][i] = NoPairs /\ ~Inner(j, i - 1)'
        BY <1>1, <1>2, <1>3, <2>0, <2>4, <3>1 DEF Route, Inner
      <3> QED BY <2>0, <3>2, Nothing
    <2> QED BY <1>2, <2>0, <2>1, <2>2, <2>3, <2>4
  <1>5. Shared'
    <2> SUFFICES ASSUME NEW j \in Keys, NEW h \in Keys, NEW i \in Depths, Same(j, h, i)
                 PROVE  /\ shape'[j][i] = shape'[h][i] /\ pairs'[j][i] = pairs'[h][i]
                        /\ width'[j][i] = width'[h][i]
      BY DEF Shared, Depths
    <2>1. shape[j][i] = shape[h][i] /\ pairs[j][i] = pairs[h][i] /\ width[j][i] = width[h][i]
      BY DEF WalksInv, TreeOK, Shared
    <2>2. Same(j, k, i) <=> Same(h, k, i)
      BY <1>2, SameFor
    <2>3. i = l /\ Same(j, k, l) => pairs'[j][i] = pairs'[h][i]
      <3>1. i = l /\ Same(j, k, l) => Same(h, k, l)
        BY <2>2
      <3> QED BY <1>c, <2>1, <3>1
    <2> QED BY <1>3, <2>1, <2>2, <2>3
  <1>6. /\ shape' \in [Keys -> [Depths -> Shapes]]
        /\ pairs' \in [Keys -> [Depths -> [Keys -> Vals \cup {Absent}]]]
        /\ width' \in [Keys -> [Depths -> Nat]]
    BY DEF Collide, WalksInv, TreeOK, Shapes
  <1> QED BY <1>4, <1>5, <1>6 DEF TreeOK, Depths

(* Bitmap nodes to where two hashes part. *)
LEMMA SplitFits ==
    ASSUME WalksAssumption, WalksInv, NEW k \in Keys, NEW v \in Vals, Gains(k, v),
           NEW l, l = End(k), NEW m \in l + 1 .. Levels, SplitAt(k, v, l, m)
    PROVE  TreeOK'
  <1>1. Route(k, l) /\ Absent \notin Vals /\ \A j \in Keys, i \in Depths : Fits(j, i)
    BY AtEnd
  <1>2. /\ shape[k][l] # "none" /\ stored[k] = Absent /\ l \in 1 .. Levels /\ l \in Depths
        /\ Levels \in Nat /\ Depths = 0 .. Levels /\ Inner(k, l - 1) /\ ~Inner(k, l)
        /\ m \in Depths /\ m > l
    BY <1>1 DEF SplitAt, Route
  <1>3. /\ HasPairs(k, l) /\ Under(k, l) # {} /\ OneHash(Under(k, l))
        /\ pairs[k][l] = PairsOf(Under(k, l))
    BY <1>1, <1>2, EndPairs
  <1>4. PICK x \in Under(k, l) : Same(x, k, m - 1) /\ ~Same(x, k, m)
    BY DEF SplitAt
  (* The pairs that are there are all of x's hash, and k's is another one. *)
  <1>5. \A y \in Under(k, l) : Same(y, x, Levels) /\ Same(x, y, Levels)
    BY <1>3 DEF OneHash
  <1>6. x \in Keys /\ x # k
    BY <1>4, UnderIs, <1>2
  <1>7. ASSUME NEW j \in Keys, NEW i \in Depths
        PROVE  /\ i < m /\ Same(j, k, i) => Same(x, j, i)
               /\ i <= m /\ i > 0 /\ Same(x, j, i) => Same(j, k, i - 1)
               /\ i = m /\ Same(j, k, m) => ~Same(x, j, m)
    <2>1. i < m => Same(x, k, i) /\ Same(k, x, i)
      BY <1>2, <1>4, SameIs
    <2>2. i <= m /\ i > 0 => Same(x, k, i - 1)
      BY <1>2, <1>4, SameIs
    <2>3. /\ Same(j, k, i) <=> Same(k, j, i)
          /\ Same(x, j, i) <=> Same(j, x, i)
          /\ i > 0 => (Same(j, x, i) => Same(j, x, i - 1))
      BY <1>2, SameIs
    <2>4. i <= m /\ i > 0 /\ Same(x, j, i) => Same(j, k, i - 1)
      BY <1>2, <2>2, <2>3, SameIs
    <2>5. i < m /\ Same(j, k, i) => Same(x, j, i)
      BY <1>2, <2>1, <2>3, SameIs
    <2>6. i = m /\ Same(j, k, m) => ~Same(x, j, m)
      BY <1>2, <1>4, SameIs
    <2> QED BY <2>4, <2>5, <2>6
  <1>8. ASSUME NEW j \in Keys, NEW i \in Depths, i >= l
        PROVE  /\ Same(j, k, l) /\ Same(x, j, i) => Under(j, i) = Under(k, l)
               /\ Same(j, k, l) /\ ~Same(x, j, i) => Under(j, i) = {}
    <2>1. Same(j, k, l) => Under(j, i) \subseteq Under(k, l)
      BY <1>2, <1>8, UnderUp, UnderSame
    <2>2. \A y \in Under(k, l) : Same(y, j, i) <=> Same(x, j, i)
      BY <1>2, <1>5, SameIs
    <2>3. \A y \in Under(k, l) : y \in Under(j, i) <=> Same(x, j, i)
      BY <2>2, UnderIs
    <2> QED BY <2>1, <2>3
  <1>9. \A j \in Keys : (\E y \in Under(k, l) : Same(y, j, m)) <=> Same(x, j, m)
    BY <1>2, <1>5, SameIs
  <1>10. ASSUME NEW j \in Keys, NEW i \in Depths
         PROVE  /\ shape'[j][i] = IF i \in l .. m - 1 /\ Same(j, k, i) THEN "bitmap"
                                  ELSE IF i = m /\ Same(j, k, m) THEN "leaf"
                                  ELSE IF i = m /\ Same(x, j, m) THEN shape[k][l]
                                  ELSE shape[j][i]
                /\ pairs'[j][i] = IF i = l /\ Same(j, k, l) THEN NoPairs
                                  ELSE IF i = m /\ Same(j, k, m) THEN Single(k, v)
                                  ELSE IF i = m /\ Same(x, j, m) THEN pairs[k][l]
                                  ELSE pairs[j][i]
                /\ width'[j][i] = width[j][i]
    BY <1>9 DEF SplitAt, ThatOf
  (* Nothing was where a walk goes on now. *)
  <1>11. ASSUME NEW j \in Keys, NEW i \in Depths, i > l, Same(j, k, i - 1)
         PROVE  shape[j][i] = "none" /\ pairs[j][i] = NoPairs /\ Same(j, k, l)
    <2>1. i - 1 \in Depths /\ i > 0 /\ Same(j, k, l)
      BY <1>2, <1>11, SameIs
    <2>2. ~Inner(j, i - 1)
      BY <1>1, <1>2, <1>11, <2>1 DEF Route, Inner
    <2> QED BY <1>1, <2>1, <2>2 DEF Fits, HasPairs
  <1>12. ASSUME NEW j \in Keys, NEW i \in Depths
         PROVE  Fits(j, i)'
    <2>0. i \in Nat /\ Fits(j, i) /\ (i > 0 => i - 1 \in Depths /\ (Same(j, k, i) => Same(j, k, i - 1)))
      BY <1>1, <1>2, SameIs
    <2>1. ASSUME ~Same(j, k, i)
          PROVE  /\ Under(j, i)' = Under(j, i) /\ Kids(j, i)' = Kids(j, i)
                 /\ PairsOf(Under(j, i))' = PairsOf(Under(j, i))
      BY <2>0, <2>1 DEF Gains
    <2>2. CASE ~Same(j, k, i) /\ i = m /\ Same(x, j, m)
      <3>1. Same(j, k, i - 1) /\ i > 0 /\ Under(j, i) = Under(k, l)
        <4>1. Same(j, k, i - 1)
          BY <1>2, <1>7, <2>2
        <4> QED BY <1>2, <1>8, <1>11, <2>2, <4>1
      <3>2. /\ shape'[j][i] = shape[k][l] /\ pairs'[j][i] = pairs[k][l]
            /\ shape'[j][i - 1] = "bitmap"
        BY <1>2, <1>10, <2>0, <2>2, <3>1
      <3>3. pairs'[j][i] = PairsOf(Under(j, i))' /\ Under(j, i)' = Under(k, l)
        BY <1>3, <2>1, <2>2, <3>1, <3>2
      <3>4. CASE shape[k][l] = "leaf"
        <4>1. PICK y \in Keys : Under(k, l) = {y}
          BY <1>1, <1>2, <3>4 DEF Fits, Alone
        <4>2. Under(j, i)' = {y} /\ pairs'[j][i] = PairsOf({y})'
          BY <3>3, <4>1 DEF PairsOf
        <4> QED BY <2>0, <3>1, <3>2, <3>4, <4>2, IsLeaf
      <3>5. CASE shape[k][l] = "collision"
        <4>1. ~Alone(j, i)' /\ OneHash(Under(j, i))' /\ Under(j, i)' # {}
          BY <1>1, <1>2, <1>3, <3>3, <3>5 DEF Fits, Alone, OneHash
        <4>2. Inner(j, i - 1)' /\ shape'[j][i] = "collision"
          BY <3>2, <3>5 DEF Inner
        <4> QED BY <2>0, <3>1, <3>3, <4>1, <4>2, IsCollision
      <3> QED BY <1>3, <3>4, <3>5 DEF HasPairs
    <2>3. CASE ~Same(j, k, i) /\ i > l /\ i <= m /\ Same(j, k, i - 1) /\ ~Same(x, j, i)
      <3>1. Under(j, i) = {} /\ shape[j][i] = "none" /\ pairs[j][i] = NoPairs
        BY <1>2, <1>8, <1>11, <2>3
      <3>2. i > 0 /\ shape'[j][i] = "none" /\ pairs'[j][i] = NoPairs
        BY <1>2, <1>10, <2>3, <3>1
      <3> QED BY <2>0, <2>1, <2>3, <3>1, <3>2, Nothing
    <2>4. CASE ~Same(j, k, i) /\ (i <= l \/ i > m \/ ~Same(j, k, i - 1)) /\ ~(i = m /\ Same(x, j, m))
      <3>1. shape'[j][i] = shape[j][i] /\ pairs'[j][i] = pairs[j][i] /\ width'[j][i] = width[j][i]
        BY <1>2, <1>10, <2>4
      <3>2. i > 0 => shape'[j][i - 1] = shape[j][i - 1] \/ (~Inner(j, i - 1) /\ ~Inner(j, i - 1)')
        <4>1. CASE i = m + 1
          <5>1. i - 1 \in Depths /\ i - 1 = m /\ i - 1 > l
            BY <1>2, <2>0, <4>1
          <5>2. CASE Same(j, k, m) \/ Same(x, j, m)
            <6>1. Same(j, k, (i - 1) - 1)
              <7>1. Same(j, k, m) => Same(j, k, m - 1)
                BY <1>2, SameIs
              <7>2. Same(x, j, m) => Same(j, k, m - 1)
                BY <1>2, <1>7
              <7> QED BY <5>1, <5>2, <7>1, <7>2
            <6>2. ~Inner(j, i - 1)
              BY <1>11, <5>1, <6>1 DEF Inner
            <6>3. ~Inner(j, i - 1)'
              BY <1>2, <1>3, <1>10, <5>1, <5>2 DEF Inner, HasPairs
            <6> QED BY <6>2, <6>3
          <5>3. CASE ~Same(j, k, m) /\ ~Same(x, j, m)
            BY <1>2, <1>10, <5>1, <5>3
          <5> QED BY <5>2, <5>3
        <4>2. CASE i # m + 1
          BY <1>2, <1>10, <2>0, <2>4, <4>2
        <4> QED BY <4>1, <4>2
      <3> QED BY <2>0, <2>1, <2>4, <3>1, <3>2, Stays
    <2>5. CASE Same(j, k, i) /\ i < l
      <3>1. /\ shape'[j][i] = shape[j][i] /\ pairs'[j][i] = pairs[j][i] /\ width'[j][i] = width[j][i]
            /\ i > 0 => shape'[j][i - 1] = shape[j][i - 1]
        BY <1>2, <1>10, <2>0, <2>5
      <3> QED BY <1>1, <1>2, <1>3, <2>0, <2>5, <3>1, PutAbove
    <2>6. CASE Same(j, k, i) /\ i >= l /\ i < m
      <3>0. Same(x, j, i) /\ Same(j, k, l) /\ i > 0
        BY <1>2, <1>7, <2>6, SameIs
      <3>1. x \in Under(j, i)' /\ k \in Under(j, i)'
        BY <1>4, <1>8, <2>0, <2>6, <3>0 DEF Gains
      <3>2. Under(j, i)' # {} /\ ~Alone(j, i)'
        BY <1>6, <3>1 DEF Alone
      <3>3. shape'[j][i] = "bitmap" /\ pairs'[j][i] = NoPairs
        <4>1. i > l => pairs[j][i] = NoPairs
          BY <1>11, <2>0, <2>6, <3>0
        <4> QED BY <1>2, <1>10, <2>6, <3>0, <4>1
      <3>4. Inner(j, i - 1)'
        <4>1. CASE i = l
          <5>1. Inner(j, i - 1)
            BY <1>1, <1>2, <2>0, <2>6, <4>1, <3>0 DEF Route
          <5> QED BY <1>2, <1>10, <2>0, <3>0, <4>1, <5>1 DEF Inner
        <4>2. CASE i > l
          BY <1>2, <1>10, <2>0, <2>6, <3>0, <4>2 DEF Inner
        <4> QED BY <1>2, <2>6, <4>1, <4>2
      <3>5. i < Levels
        BY <1>2, <2>6
      <3> QED BY <2>0, <3>2, <3>3, <3>4, <3>5, IsBitmap
    <2>7. CASE Same(j, k, i) /\ i = m
      <3>0. i > 0 /\ Same(j, k, i - 1) /\ Same(j, k, l) /\ ~Same(x, j, i)
        BY <1>2, <1>7, <2>0, <2>7, SameIs
      <3>1. Under(j, i) = {}
        BY <1>2, <1>8, <2>7, <3>0
      <3>2. Under(j, i)' = {k} /\ pairs'[j][i] = PairsOf({k})'
        BY <1>2, <1>10, <2>0, <2>7, <3>1 DEF Gains
      <3>3. shape'[j][i] = "leaf" /\ shape'[j][i - 1] = "bitmap"
        BY <1>2, <1>10, <2>0, <2>7, <3>0
      <3> QED BY <2>0, <3>0, <3>2, <3>3, IsLeaf
    <2>8. CASE Same(j, k, i) /\ i > m
      <3>0. i > 0 /\ i > l /\ Same(j, k, i - 1) /\ i - 1 \in Depths
        BY <1>2, <2>0, <2>8
      <3>1. shape[j][i] = "none" /\ pairs[j][i] = NoPairs
        BY <1>11, <3>0
      <3>2. shape'[j][i] = "none" /\ pairs'[j][i] = NoPairs
        BY <1>2, <1>10, <2>8, <3>1
      <3>3. ~Inner(j, i - 1)'
        <4>1. CASE i - 1 = m
          BY <1>2, <1>10, <3>0, <4>1 DEF Inner
        <4>2. CASE i - 1 > m
          <5>1. Same(j, k, (i - 1) - 1)
            BY <1>2, <3>0, SameIs
          <5>2. shape[j][i - 1] = "none"
            BY <1>2, <1>11, <3>0, <4>2, <5>1
          <5> QED BY <1>2, <1>10, <3>0, <4>2, <5>2 DEF Inner
        <4> QED BY <1>2, <2>0, <2>8, <4>1, <4>2
      <3> QED BY <2>0, <3>0, <3>2, <3>3, Nothing
    <2>9. i > l /\ i <= m /\ Same(j, k, i - 1) /\ Same(x, j, i) /\ ~Same(j, k, i) => i = m
      <3>1. i < m => Same(k, x, i)
        BY <1>2, <1>4, SameIs
      <3> QED BY <1>2, <2>0, <3>1, SameIs
    <2> QED BY <1>2, <2>0, <2>2, <2>3, <2>4, <2>5, <2>6, <2>7, <2>8, <2>9
  <1>13. Shared'
    <2> SUFFICES ASSUME NEW j \in Keys, NEW h \in Keys, NEW i \in Depths, Same(j, h, i)
                 PROVE  /\ shape'[j][i] = shape'[h][i] /\ pairs'[j][i] = pairs'[h][i]
                        /\ width'[j][i] = width'[h][i]
      BY DEF Shared, Depths
    <2>1. shape[j][i] = shape[h][i] /\ pairs[j][i] = pairs[h][i] /\ width[j][i] = width[h][i]
      BY DEF WalksInv, TreeOK, Shared
    <2>2. (Same(j, k, i) <=> Same(h, k, i)) /\ (Same(x, j, i) <=> Same(x, h, i))
      BY <1>2, SameFor
    <2> QED BY <1>10, <2>1, <2>2
  <1>14. /\ shape' \in [Keys -> [Depths -> Shapes]]
         /\ pairs' \in [Keys -> [Depths -> [Keys -> Vals \cup {Absent}]]]
         /\ width' \in [Keys -> [Depths -> Nat]]
    <2>1. Single(k, v) \in [Keys -> Vals \cup {Absent}] /\ NoPairs \in [Keys -> Vals \cup {Absent}]
      BY DEF Single, NoPairs
    <2>2. \A j \in Keys, i \in Depths :
              pairs[j][i] \in [Keys -> Vals \cup {Absent}] /\ shape[j][i] \in Shapes
      BY DEF WalksInv, TreeOK
    <2>3. ASSUME NEW j \in Keys, NEW i \in Depths
          PROVE  pairs'[j][i] \in [Keys -> Vals \cup {Absent}] /\ shape'[j][i] \in Shapes
      <3>1. pairs'[j][i] \in {NoPairs, Single(k, v), pairs[k][l], pairs[j][i]}
        BY <1>10
      <3>2. shape'[j][i] \in {"bitmap", "leaf", shape[k][l], shape[j][i]}
        BY <1>10
      <3> QED BY <1>2, <2>1, <2>2, <3>1, <3>2 DEF Shapes
    <2>4. /\ pairs' = [j \in Keys |-> [i \in Depths |-> pairs'[j][i]]]
          /\ shape' = [j \in Keys |-> [i \in Depths |-> shape'[j][i]]]
      BY DEF SplitAt
    <2> QED BY <2>3, <2>4 DEF SplitAt, WalksInv, TreeOK
  <1> QED BY <1>12, <1>13, <1>14 DEF TreeOK, Depths

LEMMA LeftIs ==
    ASSUME NEW k \in Keys, NEW l \in Int
    PROVE  /\ \A x : x \in Left(k, l) <=> x \in Under(k, l) /\ x # k
           /\ Left(k, l) \subseteq Keys
           /\ \A i \in Int : i <= l => Left(k, l) \subseteq Left(k, i)
           /\ stored[k] # Absent => k \in Under(k, l)
  BY UnderIs, UnderUp, SameIs DEF Left

(* What is left below an array node is of two digits. *)
LEMMA ArrayWide ==
    ASSUME WalksAssumption, WalksInv, NEW k \in Keys, NEW n \in Nat,
           Fits(k, n), shape[k][n] = "array"
    PROVE  Left(k, n) # {} /\ \A x : Left(k, n) # {x}
  <1> SUFFICES ASSUME NEW x, Left(k, n) \subseteq {x} PROVE FALSE
    BY DEF Left
  <1> DEFINE a == Digits[k][n + 1]
             b == Digits[x][n + 1]
  <1>1. Kids(k, n) \subseteq {a, b}
    BY KidsAre, LeftIs
  <1>2. Cardinality(Kids(k, n)) >= Threshold /\ Threshold \in Nat /\ Threshold >= 3
    BY DEF Fits, WalksAssumption
  <1> HIDE DEF a, b
  <1>3. IsFiniteSet({a, b}) /\ Cardinality({a, b}) <= 2 /\ Cardinality({a, b}) \in Nat
    <2>1. IsFiniteSet({a}) /\ Cardinality({a}) = 1
      BY FS_Singleton
    <2>2. {a, b} = {a} \cup {b}
      OBVIOUS
    <2>3. IsFiniteSet({a, b}) /\ (Cardinality({a, b}) = 1 \/ Cardinality({a, b}) = 2)
      BY <2>1, <2>2, FS_AddElement
    <2> QED BY <2>3
  <1>4. Cardinality(Kids(k, n)) <= Cardinality({a, b})
    BY <1>1, <1>3, FS_Subset
  <1>5. Cardinality(Kids(k, n)) \in Nat
    BY KidsFinite DEF WalksInv
  <1> QED BY <1>2, <1>3, <1>4, <1>5

(* A key is stored no more below an inner node, and others are. *)
LEMMA TakeAbove ==
    ASSUME NEW k \in Keys, stored[k] # Absent, Drops(k), NEW j \in Keys, NEW i \in Nat,
           Same(j, k, i), Fits(j, i), Inner(j, i),
           shape'[j][i] = shape[j][i], pairs'[j][i] = pairs[j][i], width'[j][i] = width[j][i],
           i > 0 => /\ shape'[j][i - 1] = shape[j][i - 1] /\ Left(k, i) # {}
                    /\ \A x \in Keys : Left(k, i) # {x},
           shape[j][i] = "array" => Left(k, i + 1) # {}
    PROVE  Fits(j, i)'
  <1>1. Under(j, i)' = Left(k, i) /\ Under(j, i)' = Under(j, i) \ {k}
    BY DEF Drops
  <1>2. k \in Under(j, i)
    BY LeftIs, UnderSame
  <1>3. shape[j][i] = "array" => Kids(j, i)' = Kids(j, i)
    BY <1>1, <1>2, TakeKids
  <1>4. i > 0 => Under(j, i)' # {} /\ ~Alone(j, i)'
    BY <1>1 DEF Alone
  <1> QED BY <1>3, <1>4, Above

(* What an operation finds. *)
LEMMA TakeEnd ==
    ASSUME WalksAssumption, WalksInv, NEW k \in Keys, stored[k] # Absent, Drops(k),
           NEW l, l = End(k)
    PROVE  /\ Route(k, l) /\ \A j \in Keys, i \in Depths : Fits(j, i)
           /\ Levels \in Nat /\ Depths = 0 .. Levels /\ l \in 1 .. Levels /\ l \in Depths
           /\ HasPairs(k, l) /\ OneHash(Under(k, l)) /\ pairs[k][l] = PairsOf(Under(k, l))
           /\ \A j \in Keys, i \in Nat : ~Same(j, k, i) =>
                 /\ Under(j, i)' = Under(j, i) /\ Kids(j, i)' = Kids(j, i)
                 /\ PairsOf(Under(j, i))' = PairsOf(Under(j, i))
  <1>1. Route(k, l) /\ \A j \in Keys, i \in Depths : Fits(j, i)
    BY AtEnd
  <1>2. /\ Levels \in Nat /\ Depths = 0 .. Levels /\ l \in 1 .. Levels /\ l \in Depths
        /\ shape[k][l] # "none" /\ ~Inner(k, l)
    BY <1>1 DEF Route
  <1>3. HasPairs(k, l) /\ OneHash(Under(k, l)) /\ pairs[k][l] = PairsOf(Under(k, l))
    BY <1>1, <1>2, EndPairs
  <1>4. ASSUME NEW j \in Keys, NEW i \in Nat, ~Same(j, k, i)
        PROVE  /\ Under(j, i)' = Under(j, i) /\ Kids(j, i)' = Kids(j, i)
               /\ PairsOf(Under(j, i))' = PairsOf(Under(j, i))
    <2>1. k \notin Under(j, i)
      BY <1>4, UnderIs, SameIs
    <2> QED BY <1>4, <2>1 DEF Drops
  <1> QED BY <1>1, <1>2, <1>3, <1>4

(* The last pair but the key that goes up, to below the first node that has others. *)
LEMMA CollapseFits ==
    ASSUME WalksAssumption, WalksInv, NEW k \in Keys, stored[k] # Absent, Drops(k),
           NEW x \in Keys, NEW n \in 1 .. Levels, Collapse(k, x, n)
    PROVE  TreeOK'
  <1> DEFINE l == End(k)
             to == IF shape[k][n - 1] = "array" THEN n + 1 ELSE n
  <1>1. /\ Route(k, l) /\ \A j \in Keys, i \in Depths : Fits(j, i)
        /\ Levels \in Nat /\ Depths = 0 .. Levels /\ l \in 1 .. Levels /\ l \in Depths
        /\ HasPairs(k, l) /\ OneHash(Under(k, l)) /\ pairs[k][l] = PairsOf(Under(k, l))
        /\ \A j \in Keys, i \in Nat : ~Same(j, k, i) =>
              /\ Under(j, i)' = Under(j, i) /\ Kids(j, i)' = Kids(j, i)
              /\ PairsOf(Under(j, i))' = PairsOf(Under(j, i))
    BY TakeEnd
  <1> HIDE DEF l
  <1>2. Left(k, n) = {x} /\ (n = 1 \/ Left(k, n - 1) # {x})
    BY DEF Collapse
  <1>3. x \in Under(k, n) /\ x # k /\ Same(x, k, n)
    BY <1>2, LeftIs, UnderIs
  (* If they were in one node, the one above would have no others. *)
  <1>4. n <= l
    <2> SUFFICES ASSUME n > l PROVE FALSE
      BY <1>1
    <2>1. Under(k, n - 1) \subseteq Under(k, l)
      BY <1>1, UnderUp
    <2>2. k \in Under(k, l)
      BY <1>1, LeftIs
    <2>3. \A y \in Under(k, n - 1) : y \in Under(k, n)
      BY <1>1, <2>1, <2>2, UnderIs, SameIs DEF OneHash
    <2>4. Left(k, n - 1) \subseteq Left(k, n) /\ Left(k, n) \subseteq Left(k, n - 1)
      BY <2>3, LeftIs
    <2> QED BY <1>1, <1>2, <2>4
  <1>5. n - 1 \in Depths /\ Inner(k, n - 1) /\ Fits(k, n - 1) /\ Same(k, k, n - 1)
    BY <1>1, <1>4, SameIs DEF Route
  <1>6. /\ to \in 1 .. Levels /\ (to = n \/ to = n + 1)
        /\ to = n => shape[k][n - 1] = "bitmap"
        /\ to = n + 1 => shape[k][n - 1] = "array" /\ n < Levels
    BY <1>1, <1>5 DEF Fits, Inner
  <1>7. ASSUME NEW j \in Keys, NEW i \in Depths
        PROVE  /\ shape'[j][i] = IF ~Same(j, k, n) \/ i < n THEN shape[j][i]
                        ELSE IF i < to THEN "bitmap"
                        ELSE IF i = to /\ Same(j, x, to) THEN "leaf" ELSE "none"
               /\ pairs'[j][i] = IF ~Same(j, k, n) \/ i < n THEN pairs[j][i]
                        ELSE IF i = to /\ Same(j, x, to) THEN PairsOf({x}) ELSE NoPairs
               /\ width'[j][i] = width[j][i]
    BY DEF Collapse, ThatOf
  <1> HIDE DEF to
  <1>8. ASSUME NEW i \in 1 .. n - 1
        PROVE  Left(k, i) # {} /\ \A y : Left(k, i) # {y}
    <2>1. x \in Left(k, n) /\ Left(k, n) \subseteq Left(k, n - 1) /\ Left(k, n - 1) \subseteq Left(k, i)
      BY <1>2, LeftIs
    <2> QED BY <1>2, <2>1
  <1>9. ASSUME NEW j \in Keys, NEW i \in Depths
        PROVE  Fits(j, i)'
    <2>0. i \in Nat /\ Fits(j, i) /\ (i > 0 => i - 1 \in Depths /\ (Same(j, k, i) => Same(j, k, i - 1)))
          /\ (i >= n /\ Same(j, k, i) => Same(j, k, n)) /\ (Same(j, k, n) => Same(j, k, n - 1))
      BY <1>1, SameIs
    <2>1. CASE (~Same(j, k, n) \/ i < n) /\ ~Same(j, k, i)
      <3>1. /\ shape'[j][i] = shape[j][i] /\ pairs'[j][i] = pairs[j][i] /\ width'[j][i] = width[j][i]
            /\ i > 0 => shape'[j][i - 1] = shape[j][i - 1]
        BY <1>7, <2>0, <2>1
      <3> QED BY <1>1, <2>0, <2>1, <3>1, Stays
    <2>2. CASE Same(j, k, i) /\ i < n
      <3>1. /\ shape'[j][i] = shape[j][i] /\ pairs'[j][i] = pairs[j][i] /\ width'[j][i] = width[j][i]
            /\ i > 0 => shape'[j][i - 1] = shape[j][i - 1]
        BY <1>7, <2>0, <2>2
      <3>2. Inner(j, i)
        BY <1>1, <1>4, <2>2 DEF Route
      <3>3. i > 0 => Left(k, i) # {} /\ \A y \in Keys : Left(k, i) # {y}
        BY <1>8, <2>0, <2>2
      <3>4. Left(k, i + 1) # {}
        BY <1>2, <1>8, <2>0, <2>2
      <3> QED BY <2>0, <2>2, <3>1, <3>2, <3>3, <3>4, TakeAbove
    <2>3. ASSUME Same(j, k, n), i >= n
          PROVE  Under(j, i)' = IF Same(j, x, i) THEN {x} ELSE {}
      <3>1. Under(j, i)' = Under(j, i) \ {k}
        BY <2>0 DEF Drops
      <3>2. Under(j, i) \subseteq Under(k, n)
        BY <1>1, <2>3, UnderUp, UnderSame
      <3>3. Under(j, i) \ {k} \subseteq {x}
        BY <1>2, <3>2, LeftIs
      <3>4. x \in Under(j, i) <=> Same(j, x, i)
        BY <1>3, <2>0, UnderIs, SameIs
      <3> QED BY <1>3, <3>1, <3>3, <3>4
    <2>4. CASE Same(j, k, n) /\ i >= n /\ i < to
      <3>1. i = n /\ to = n + 1 /\ i > 0 /\ i < Levels
        BY <1>6, <2>0, <2>4
      <3>2. shape'[j][i] = "bitmap" /\ pairs'[j][i] = NoPairs
        BY <1>7, <2>4, <3>1
      <3>3. shape'[j][i - 1] = "array"
        BY <1>1, <1>5, <1>6, <1>7, <2>0, <2>4, <3>1 DEF Route
      <3>4. Same(j, x, i)
        BY <1>3, <2>0, <2>4, <3>1, SameIs
      <3>5. Under(j, i)' # {} /\ Inner(j, i - 1)'
        BY <2>3, <2>4, <3>3, <3>4 DEF Inner
      <3> QED BY <2>0, <3>1, <3>2, <3>3, <3>5, IsBitmap
    <2>5. CASE Same(j, k, n) /\ i = to /\ Same(j, x, to)
      <3>1. Under(j, i)' = {x} /\ i > 0
        BY <1>6, <2>3, <2>5
      <3>2. shape'[j][i] = "leaf" /\ pairs'[j][i] = PairsOf({x})
        <4>1. i \in Int /\ n \in Int /\ ~(i < n) /\ ~(i < to)
          BY <1>1, <1>6, <2>0, <2>5
        <4> QED BY <1>7, <2>5, <4>1
      <3>3. pairs'[j][i] = PairsOf({x})'
        BY <1>3, <3>2 DEF Drops
      <3>4. shape'[j][i - 1] = "bitmap"
        <4>1. CASE to = n
          BY <1>1, <1>5, <1>6, <1>7, <2>0, <2>5, <4>1 DEF Route
        <4>2. CASE to = n + 1
          BY <1>6, <1>7, <2>0, <2>5, <4>2
        <4> QED BY <1>6, <4>1, <4>2
      <3> QED BY <2>0, <3>1, <3>2, <3>3, <3>4, IsLeaf
    <2>6. CASE Same(j, k, n) /\ i >= to /\ ~(i = to /\ Same(j, x, to))
      <3>1. i > 0 /\ shape'[j][i] = "none" /\ pairs'[j][i] = NoPairs
        BY <1>1, <1>6, <2>0, <1>7, <2>6
      <3>2. i = to => Under(j, i)' = {}
        BY <1>6, <2>3, <2>6
      <3>3. i > to => ~Inner(j, i - 1)'
        BY <1>6, <1>7, <2>0, <2>6 DEF Inner
      <3> QED BY <1>6, <2>0, <2>6, <3>1, <3>2, <3>3, Nothing
    <2> QED BY <1>6, <2>0, <2>1, <2>2, <2>4, <2>5, <2>6
  <1>10. Shared'
    <2> SUFFICES ASSUME NEW j \in Keys, NEW h \in Keys, NEW i \in Depths, Same(j, h, i)
                 PROVE  /\ shape'[j][i] = shape'[h][i] /\ pairs'[j][i] = pairs'[h][i]
                        /\ width'[j][i] = width'[h][i]
      BY DEF Shared, Depths
    <2>1. shape[j][i] = shape[h][i] /\ pairs[j][i] = pairs[h][i] /\ width[j][i] = width[h][i]
      BY DEF WalksInv, TreeOK, Shared
    <2>2. i >= n => (Same(j, k, n) <=> Same(h, k, n))
      BY <1>1, SameFor
    <2>3. i = to => (Same(j, x, to) <=> Same(h, x, to))
      BY <1>1, SameFor
    <2> QED BY <1>1, <1>7, <2>1, <2>2, <2>3
  <1>11. /\ shape' \in [Keys -> [Depths -> Shapes]]
         /\ pairs' \in [Keys -> [Depths -> [Keys -> Vals \cup {Absent}]]]
         /\ width' \in [Keys -> [Depths -> Nat]]
    <2>1. PairsOf({x}) \in [Keys -> Vals \cup {Absent}] /\ NoPairs \in [Keys -> Vals \cup {Absent}]
      BY DEF PairsOf, NoPairs, WalksInv
    <2>2. \A j \in Keys, i \in Depths :
              pairs[j][i] \in [Keys -> Vals \cup {Absent}] /\ shape[j][i] \in Shapes
      BY DEF WalksInv, TreeOK
    <2>3. ASSUME NEW j \in Keys, NEW i \in Depths
          PROVE  pairs'[j][i] \in [Keys -> Vals \cup {Absent}] /\ shape'[j][i] \in Shapes
      <3>1. pairs'[j][i] \in {NoPairs, PairsOf({x}), pairs[j][i]}
        BY <1>7
      <3>2. shape'[j][i] \in {"bitmap", "leaf", "none", shape[j][i]}
        BY <1>7
      <3> QED BY <2>1, <2>2, <3>1, <3>2 DEF Shapes
    <2>4. /\ pairs' = [j \in Keys |-> [i \in Depths |-> pairs'[j][i]]]
          /\ shape' = [j \in Keys |-> [i \in Depths |-> shape'[j][i]]]
      BY DEF Collapse
    <2> QED BY <2>3, <2>4 DEF Collapse, WalksInv, TreeOK
  <1> QED BY <1>9, <1>10, <1>11 DEF TreeOK, Depths

(* What is left below the entries above an array node. *)
LEMMA AboveArray ==
    ASSUME WalksAssumption, WalksInv, NEW k \in Keys, NEW n \in Nat,
           Fits(k, n), shape[k][n] = "array", NEW i \in Nat, i <= n
    PROVE  Left(k, i) # {} /\ \A x \in Keys : Left(k, i) # {x}
  <1>1. Left(k, n) # {} /\ \A x : Left(k, n) # {x}
    BY ArrayWide
  <1>2. Left(k, n) \subseteq Left(k, i)
    BY LeftIs
  <1> QED BY <1>1, <1>2

(* An array node that loses a child. *)
LEMMA DropChildFits ==
    ASSUME WalksAssumption, WalksInv, NEW k \in Keys, stored[k] # Absent, Drops(k),
           NEW n, n = End(k) - 2, DropChild(k, n)
    PROVE  TreeOK'
  <1> DEFINE l == End(k)
  <1>1. /\ Route(k, l) /\ \A j \in Keys, i \in Depths : Fits(j, i)
        /\ Levels \in Nat /\ Depths = 0 .. Levels /\ l \in 1 .. Levels /\ l \in Depths
        /\ HasPairs(k, l) /\ OneHash(Under(k, l)) /\ pairs[k][l] = PairsOf(Under(k, l))
        /\ \A j \in Keys, i \in Nat : ~Same(j, k, i) =>
              /\ Under(j, i)' = Under(j, i) /\ Kids(j, i)' = Kids(j, i)
              /\ PairsOf(Under(j, i))' = PairsOf(Under(j, i))
    BY TakeEnd
  <1>2. /\ n = l - 2 /\ n \in Depths /\ n \in Nat /\ n + 1 \in Depths /\ n < Levels
        /\ shape[k][n] = "array" /\ Left(k, n + 1) = {} /\ width[k][n] - 1 >= Threshold
    BY <1>1 DEF DropChild, Loses
  <1> HIDE DEF l
  <1>3. ASSUME NEW j \in Keys, NEW i \in Depths
        PROVE  /\ shape'[j][i] = IF i > n /\ Same(j, k, n + 1) THEN "none" ELSE shape[j][i]
               /\ pairs'[j][i] = IF i > n /\ Same(j, k, n + 1) THEN NoPairs ELSE pairs[j][i]
               /\ width'[j][i] = IF i = n /\ Same(j, k, n) THEN width[j][i] - 1 ELSE width[j][i]
    BY DEF DropChild, ThatOf
  <1>4. \A i \in Nat : i <= n => Left(k, i) # {} /\ \A x \in Keys : Left(k, i) # {x}
    BY <1>1, <1>2, AboveArray
  <1>5. ASSUME NEW j \in Keys, NEW i \in Depths
        PROVE  Fits(j, i)'
    <2>0. i \in Nat /\ Fits(j, i) /\ (i > 0 => i - 1 \in Depths /\ (Same(j, k, i) => Same(j, k, i - 1)))
          /\ (i > n /\ Same(j, k, i) => Same(j, k, n + 1))
      BY <1>1, <1>2, SameIs
    <2>1. CASE i > n /\ Same(j, k, n + 1)
      <3>1. Under(j, i) \subseteq Under(k, n + 1)
        BY <1>1, <1>2, <2>1, UnderUp, UnderSame
      <3>2. Under(j, i)' = {}
        BY <1>2, <2>0, <3>1 DEF Drops, Left
      <3>3. i > 0 /\ shape'[j][i] = "none" /\ pairs'[j][i] = NoPairs
        BY <1>2, <1>3, <2>0, <2>1
      <3> QED BY <2>0, <3>2, <3>3, Nothing
    <2>2. CASE ~Same(j, k, i) /\ ~(i > n /\ Same(j, k, n + 1))
      <3>1. /\ shape'[j][i] = shape[j][i] /\ pairs'[j][i] = pairs[j][i] /\ width'[j][i] = width[j][i]
            /\ i > 0 => shape'[j][i - 1] = shape[j][i - 1]
        BY <1>2, <1>3, <2>0, <2>2
      <3> QED BY <1>1, <2>0, <2>2, <3>1, Stays
    <2>3. CASE Same(j, k, i) /\ i < n
      <3>1. /\ shape'[j][i] = shape[j][i] /\ pairs'[j][i] = pairs[j][i] /\ width'[j][i] = width[j][i]
            /\ i > 0 => shape'[j][i - 1] = shape[j][i - 1]
        BY <1>2, <1>3, <2>0, <2>3
      <3>2. Inner(j, i) /\ i + 1 <= n
        BY <1>1, <1>2, <2>0, <2>3 DEF Route
      <3>3. Left(k, i + 1) # {} /\ (i > 0 => Left(k, i) # {} /\ \A x \in Keys : Left(k, i) # {x})
        BY <1>2, <1>4, <2>0, <3>2
      <3> QED BY <2>0, <2>3, <3>1, <3>2, <3>3, TakeAbove
    <2>4. CASE Same(j, k, i) /\ i = n
      <3>1. /\ shape[j][i] = "array" /\ pairs[j][i] = NoPairs /\ i < Levels - 1
            /\ width[j][i] = Cardinality(Kids(j, i)) /\ width[j][i] = width[k][n]
            /\ i > 0 => Inner(j, i - 1)
        <4>1. shape[j][i] = "array" /\ width[j][i] = width[k][n]
          BY <1>1, <1>2, <2>4 DEF Route
        <4> QED BY <2>0, <4>1 DEF Fits, HasPairs
      <3>2. Under(j, i)' = Left(k, i) /\ Under(j, i)' = Under(j, i) \ {k} /\ k \in Under(j, i)
        BY <2>0, <2>4, LeftIs, UnderSame DEF Drops
      <3>3. Kids(j, i)' = Kids(j, i) \ {Digits[k][i + 1]}
        BY <1>2, <2>0, <2>4, <3>2, TakeKids
      <3>4. Digits[k][i + 1] \in Kids(j, i)
        BY <2>0, <3>2, KidsAre
      <3>5. IsFiniteSet(Kids(j, i)) /\ Cardinality(Kids(j, i)) \in Nat
        BY KidsFinite DEF WalksInv
      <3>6. Cardinality(Kids(j, i)') = Cardinality(Kids(j, i)) - 1
        <4>1. Cardinality(Kids(j, i) \ {Digits[k][i + 1]}) = Cardinality(Kids(j, i)) - 1
          BY <3>4, <3>5, FS_RemoveElement
        <4> QED BY <3>3, <4>1
      <3>7. shape'[j][i] = "array" /\ pairs'[j][i] = NoPairs /\ width'[j][i] = width[j][i] - 1
        BY <1>2, <1>3, <2>4, <3>1
      <3>8. i > 0 => Inner(j, i - 1)'
        BY <1>2, <1>3, <2>0, <2>4, <3>1 DEF Inner
      <3>9. Under(j, i)' # {} /\ ~Alone(j, i)'
        BY <1>4, <2>0, <2>4, <3>2 DEF Alone
      <3>10. width'[j][i] = Cardinality(Kids(j, i)') /\ width'[j][i] >= Threshold
        BY <1>2, <3>1, <3>6, <3>7
      <3> QED BY <1>1, <2>0, <3>1, <3>7, <3>8, <3>9, <3>10, IsArray
    <2> QED BY <1>1, <1>2, <2>0, <2>1, <2>2, <2>3, <2>4
  <1>6. Shared'
    <2> SUFFICES ASSUME NEW j \in Keys, NEW h \in Keys, NEW i \in Depths, Same(j, h, i)
                 PROVE  /\ shape'[j][i] = shape'[h][i] /\ pairs'[j][i] = pairs'[h][i]
                        /\ width'[j][i] = width'[h][i]
      BY DEF Shared, Depths
    <2>1. shape[j][i] = shape[h][i] /\ pairs[j][i] = pairs[h][i] /\ width[j][i] = width[h][i]
      BY DEF WalksInv, TreeOK, Shared
    <2>2. /\ i > n => (Same(j, k, n + 1) <=> Same(h, k, n + 1))
          /\ i = n => (Same(j, k, n) <=> Same(h, k, n))
      BY <1>1, <1>2, SameFor
    <2> QED BY <1>1, <1>3, <2>1, <2>2
  <1>7. /\ shape' \in [Keys -> [Depths -> Shapes]]
        /\ pairs' \in [Keys -> [Depths -> [Keys -> Vals \cup {Absent}]]]
        /\ width' \in [Keys -> [Depths -> Nat]]
    <2>1. NoPairs \in [Keys -> Vals \cup {Absent}]
      BY DEF NoPairs
    <2>2. \A j \in Keys, i \in Depths : /\ pairs[j][i] \in [Keys -> Vals \cup {Absent}]
                                        /\ shape[j][i] \in Shapes /\ width[j][i] \in Nat
      BY DEF WalksInv, TreeOK
    <2>3. ASSUME NEW j \in Keys, NEW i \in Depths
          PROVE  /\ pairs'[j][i] \in [Keys -> Vals \cup {Absent}] /\ shape'[j][i] \in Shapes
                 /\ width'[j][i] \in Nat
      <3>1. i = n /\ Same(j, k, n) => width[j][i] - 1 >= Threshold
        BY <1>1, <1>2 DEF Route
      <3>2. Threshold \in Nat
        BY DEF WalksAssumption
      <3> QED BY <1>3, <2>1, <2>2, <3>1, <3>2 DEF Shapes
    <2>4. /\ pairs' = [j \in Keys |-> [i \in Depths |-> pairs'[j][i]]]
          /\ shape' = [j \in Keys |-> [i \in Depths |-> shape'[j][i]]]
          /\ width' = [j \in Keys |-> [i \in Depths |-> width'[j][i]]]
      BY DEF DropChild
    <2> QED BY <2>3, <2>4
  <1> QED BY <1>5, <1>6, <1>7 DEF TreeOK, Depths

(* One that becomes a bitmap node, and its nodes with one pair leaves. *)
LEMMA DemoteFits ==
    ASSUME WalksAssumption, WalksInv, NEW k \in Keys, stored[k] # Absent, Drops(k),
           NEW n, n = End(k) - 2, Demote(k, n)
    PROVE  TreeOK'
  <1> DEFINE l == End(k)
  <1>1. /\ Route(k, l) /\ \A j \in Keys, i \in Depths : Fits(j, i)
        /\ Levels \in Nat /\ Depths = 0 .. Levels /\ l \in 1 .. Levels /\ l \in Depths
        /\ HasPairs(k, l) /\ OneHash(Under(k, l)) /\ pairs[k][l] = PairsOf(Under(k, l))
        /\ \A j \in Keys, i \in Nat : ~Same(j, k, i) =>
              /\ Under(j, i)' = Under(j, i) /\ Kids(j, i)' = Kids(j, i)
              /\ PairsOf(Under(j, i))' = PairsOf(Under(j, i))
    BY TakeEnd
  <1>2. /\ n = l - 2 /\ n \in Depths /\ n \in Nat /\ n + 1 \in Depths /\ n < Levels
        /\ shape[k][n] = "array" /\ Left(k, n + 1) = {}
    BY <1>1 DEF Demote, Loses
  <1> HIDE DEF l
  <1>3. ASSUME NEW j \in Keys, NEW i \in Depths
        PROVE  /\ shape'[j][i] = IF ~Same(j, k, n) \/ i < n THEN shape[j][i]
                    ELSE IF i = n THEN "bitmap"
                    ELSE IF Same(j, k, n + 1) THEN "none"
                    ELSE IF Alone(j, n + 1) THEN IF i = n + 1 THEN "leaf" ELSE "none"
                    ELSE shape[j][i]
               /\ pairs'[j][i] = IF ~Same(j, k, n) \/ i <= n THEN pairs[j][i]
                    ELSE IF Same(j, k, n + 1) THEN NoPairs
                    ELSE IF Alone(j, n + 1) THEN IF i = n + 1 THEN PairsOf(Under(j, i)) ELSE NoPairs
                    ELSE pairs[j][i]
               /\ width'[j][i] = IF i = n /\ Same(j, k, n) THEN 0 ELSE width[j][i]
    BY DEF Demote, ThatOf
  <1>4. \A i \in Nat : i <= n => Left(k, i) # {} /\ \A x \in Keys : Left(k, i) # {x}
    BY <1>1, <1>2, AboveArray
  <1>5. ASSUME NEW j \in Keys, NEW i \in Depths
        PROVE  Fits(j, i)'
    <2>0. /\ i \in Nat /\ Fits(j, i) /\ (i > 0 => i - 1 \in Depths /\ (Same(j, k, i) => Same(j, k, i - 1)))
          /\ i > n /\ Same(j, k, i) => Same(j, k, n + 1)
          /\ i >= n /\ Same(j, k, i) => Same(j, k, n)
          /\ Same(j, k, n + 1) => Same(j, k, n)
      BY <1>1, <1>2, SameIs
    <2>1. CASE ~Same(j, k, i) /\ (~Same(j, k, n) \/ i < n)
      <3>1. /\ shape'[j][i] = shape[j][i] /\ pairs'[j][i] = pairs[j][i] /\ width'[j][i] = width[j][i]
            /\ i > 0 => shape'[j][i - 1] = shape[j][i - 1]
        BY <1>2, <1>3, <2>0, <2>1
      <3> QED BY <1>1, <2>0, <2>1, <3>1, Stays
    <2>2. CASE Same(j, k, i) /\ i < n
      <3>1. /\ shape'[j][i] = shape[j][i] /\ pairs'[j][i] = pairs[j][i] /\ width'[j][i] = width[j][i]
            /\ i > 0 => shape'[j][i - 1] = shape[j][i - 1]
        BY <1>2, <1>3, <2>0, <2>2
      <3>2. Inner(j, i) /\ i + 1 <= n
        BY <1>1, <1>2, <2>0, <2>2 DEF Route
      <3>3. Left(k, i + 1) # {} /\ (i > 0 => Left(k, i) # {} /\ \A x \in Keys : Left(k, i) # {x})
        BY <1>2, <1>4, <2>0, <3>2
      <3> QED BY <2>0, <2>2, <3>1, <3>2, <3>3, TakeAbove
    <2>3. CASE Same(j, k, i) /\ i = n
      <3>1. /\ shape[j][i] = "array" /\ pairs[j][i] = NoPairs
            /\ i > 0 => Inner(j, i - 1)
        <4>1. shape[j][i] = "array"
          BY <1>1, <1>2, <2>3 DEF Route
        <4> QED BY <2>0, <4>1 DEF Fits, HasPairs
      <3>2. Under(j, i)' # {} /\ ~Alone(j, i)'
        BY <1>4, <2>0, <2>3 DEF Alone, Drops
      <3>3. shape'[j][i] = "bitmap" /\ pairs'[j][i] = NoPairs
        BY <1>2, <1>3, <2>3, <3>1
      <3>4. i > 0 => Inner(j, i - 1)'
        BY <1>2, <1>3, <2>0, <2>3, <3>1 DEF Inner
      <3> QED BY <1>2, <2>0, <2>3, <3>2, <3>3, <3>4, IsBitmap
    <2>4. CASE i > n /\ Same(j, k, n + 1)
      <3>1. Under(j, i) \subseteq Under(k, n + 1)
        BY <1>1, <1>2, <2>4, UnderUp, UnderSame
      <3>2. Under(j, i)' = {}
        BY <1>2, <2>0, <3>1 DEF Drops, Left
      <3>3. i > 0 /\ shape'[j][i] = "none" /\ pairs'[j][i] = NoPairs
        BY <1>2, <1>3, <2>0, <2>4
      <3> QED BY <2>0, <3>2, <3>3, Nothing
    <2>5. CASE i > n /\ Same(j, k, n) /\ ~Same(j, k, n + 1) /\ Alone(j, n + 1)
      <3>0. ~Same(j, k, i) /\ i > 0
        BY <1>2, <2>0, <2>5
      <3>1. CASE i = n + 1
        <4>1. PICK y \in Keys : Under(j, i) = {y}
          BY <2>5, <3>1 DEF Alone
        <4>2. /\ shape'[j][i] = "leaf" /\ pairs'[j][i] = PairsOf(Under(j, i))
              /\ shape'[j][i - 1] = "bitmap"
          BY <1>2, <1>3, <2>0, <2>5, <3>1
        <4>3. PairsOf(Under(j, i))' = PairsOf(Under(j, i)) /\ Under(j, i)' = {y}
          BY <1>1, <2>0, <3>0, <4>1
        <4>4. pairs'[j][i] = PairsOf({y})'
          BY <4>2, <4>3
        <4> QED BY <2>0, <3>0, <4>2, <4>3, <4>4, IsLeaf
      <3>2. CASE i > n + 1
        <4>1. shape'[j][i] = "none" /\ pairs'[j][i] = NoPairs /\ ~Inner(j, i - 1)'
          BY <1>2, <1>3, <2>0, <2>5, <3>2 DEF Inner
        <4> QED BY <2>0, <3>0, <4>1, Nothing
      <3> QED BY <1>2, <2>0, <2>5, <3>1, <3>2
    <2>6. CASE i > n /\ Same(j, k, n) /\ ~Same(j, k, n + 1) /\ ~Alone(j, n + 1)
      <3>0. ~Same(j, k, i) /\ i > 0
        BY <1>2, <2>0, <2>6
      <3>1. shape'[j][i] = shape[j][i] /\ pairs'[j][i] = pairs[j][i] /\ width'[j][i] = width[j][i]
        BY <1>2, <1>3, <2>6
      <3>2. CASE i = n + 1
        <4>1. shape[j][i - 1] = "array" /\ shape'[j][i - 1] = "bitmap" /\ ~Alone(j, i)
          BY <1>1, <1>2, <1>3, <2>0, <2>6, <3>2 DEF Route
        <4> QED BY <1>1, <2>0, <3>0, <3>1, <4>1, Stays
      <3>3. CASE i > n + 1
        <4>1. shape'[j][i - 1] = shape[j][i - 1]
          BY <1>2, <1>3, <2>0, <2>6, <3>3
        <4> QED BY <1>1, <2>0, <3>0, <3>1, <4>1, Stays
      <3> QED BY <1>2, <2>0, <2>6, <3>2, <3>3
    <2> QED BY <1>1, <1>2, <2>0, <2>1, <2>2, <2>3, <2>4, <2>5, <2>6
  <1>6. Shared'
    <2> SUFFICES ASSUME NEW j \in Keys, NEW h \in Keys, NEW i \in Depths, Same(j, h, i)
                 PROVE  /\ shape'[j][i] = shape'[h][i] /\ pairs'[j][i] = pairs'[h][i]
                        /\ width'[j][i] = width'[h][i]
      BY DEF Shared, Depths
    <2>1. shape[j][i] = shape[h][i] /\ pairs[j][i] = pairs[h][i] /\ width[j][i] = width[h][i]
      BY DEF WalksInv, TreeOK, Shared
    <2>2. /\ i > n => (Same(j, k, n + 1) <=> Same(h, k, n + 1))
          /\ i >= n => (Same(j, k, n) <=> Same(h, k, n))
      BY <1>1, <1>2, SameFor
    <2>3. i > n => (Alone(j, n + 1) <=> Alone(h, n + 1)) /\ Under(j, i) = Under(h, i)
      <3>1. i > n => Same(j, h, n + 1)
        BY <1>1, <1>2, SameIs
      <3> QED BY <1>1, <1>2, <3>1, UnderSame
    <2> QED BY <1>1, <1>2, <1>3, <2>1, <2>2, <2>3
  <1>7. /\ shape' \in [Keys -> [Depths -> Shapes]]
        /\ pairs' \in [Keys -> [Depths -> [Keys -> Vals \cup {Absent}]]]
        /\ width' \in [Keys -> [Depths -> Nat]]
    <2>1. NoPairs \in [Keys -> Vals \cup {Absent}]
      BY DEF NoPairs
    <2>2. \A j \in Keys, i \in Depths : /\ pairs[j][i] \in [Keys -> Vals \cup {Absent}]
                                        /\ shape[j][i] \in Shapes /\ width[j][i] \in Nat
      BY DEF WalksInv, TreeOK
    <2>3. ASSUME NEW j \in Keys, NEW i \in Depths
          PROVE  /\ pairs'[j][i] \in [Keys -> Vals \cup {Absent}] /\ shape'[j][i] \in Shapes
                 /\ width'[j][i] \in Nat
      <3>1. pairs'[j][i] \in {NoPairs, PairsOf(Under(j, i)), pairs[j][i]}
        BY <1>3
      <3>2. shape'[j][i] \in {"bitmap", "leaf", "none", shape[j][i]}
        BY <1>3
      <3>3. PairsOf(Under(j, i)) \in [Keys -> Vals \cup {Absent}]
        BY DEF PairsOf, WalksInv
      <3> QED BY <1>3, <2>1, <2>2, <3>1, <3>2, <3>3 DEF Shapes
    <2>4. /\ pairs' = [j \in Keys |-> [i \in Depths |-> pairs'[j][i]]]
          /\ shape' = [j \in Keys |-> [i \in Depths |-> shape'[j][i]]]
          /\ width' = [j \in Keys |-> [i \in Depths |-> width'[j][i]]]
      BY DEF Demote
    <2> QED BY <2>3, <2>4
  <1> QED BY <1>5, <1>6, <1>7 DEF TreeOK, Depths

(* A pair that goes from a node that stays. *)
LEMMA RemoveFits ==
    ASSUME WalksAssumption, WalksInv, NEW k \in Keys, stored[k] # Absent, Drops(k),
           NEW l, l = End(k), RemovePair(k, l)
    PROVE  TreeOK'
  <1>1. /\ Route(k, l) /\ \A j \in Keys, i \in Depths : Fits(j, i)
        /\ Levels \in Nat /\ Depths = 0 .. Levels /\ l \in 1 .. Levels /\ l \in Depths
        /\ HasPairs(k, l) /\ OneHash(Under(k, l)) /\ pairs[k][l] = PairsOf(Under(k, l))
        /\ \A j \in Keys, i \in Nat : ~Same(j, k, i) =>
              /\ Under(j, i)' = Under(j, i) /\ Kids(j, i)' = Kids(j, i)
              /\ PairsOf(Under(j, i))' = PairsOf(Under(j, i))
    BY TakeEnd
  <1>2. /\ \A n \in 1 .. Levels, x \in Keys : Left(k, n) # {x}
        /\ l = 1 \/ Left(k, l - 1) # {}
    BY DEF RemovePair
  <1>3. ASSUME NEW j \in Keys, NEW i \in Depths
        PROVE  /\ shape'[j][i] = IF i = l /\ Same(j, k, l) /\ shape[j][i] = "leaf" THEN "none"
                                 ELSE shape[j][i]
               /\ ~(i = l /\ Same(j, k, l)) => pairs'[j][i] = pairs[j][i]
               /\ width'[j][i] = width[j][i]
    BY DEF RemovePair, ThatOf
  <1>4. ASSUME NEW j \in Keys, NEW i \in Depths, i = l, Same(j, k, l)
        PROVE  /\ pairs'[j][i] \in [Keys -> Vals \cup {Absent}]
               /\ \A x \in Keys : pairs'[j][i][x] = IF x = k THEN Absent ELSE pairs[j][i][x]
    <2>1. pairs'[j][i] = [pairs[j][i] EXCEPT ![k] = Absent]
      BY <1>1, <1>4 DEF RemovePair, ThatOf
    <2>2. pairs[j][i] \in [Keys -> Vals \cup {Absent}]
      BY DEF WalksInv, TreeOK
    <2> QED BY <2>1, <2>2
  (* A leaf has the pair of k alone; a collision node has another one. *)
  <1>5. /\ shape[k][l] = "leaf" => Left(k, l) = {} /\ shape[k][l - 1] # "array"
        /\ shape[k][l] = "collision" => Left(k, l) # {}
    <2>1. Fits(k, l) /\ k \in Under(k, l)
      BY <1>1, LeftIs
    <2> QED BY <2>1 DEF Fits, Alone, Left
  <1>6. ASSUME NEW i \in Nat, i < l
        PROVE  i > 0 => Left(k, i) # {} /\ \A x \in Keys : Left(k, i) # {x}
    <2>1. i > 0 => Left(k, l - 1) \subseteq Left(k, i) /\ l # 1
      BY <1>1, <1>6, LeftIs
    <2> QED BY <1>1, <1>2, <1>6, <2>1
  <1>7. ASSUME NEW j \in Keys, NEW i \in Depths
        PROVE  Fits(j, i)'
    <2>0. i \in Nat /\ Fits(j, i) /\ (i > 0 => i - 1 \in Depths /\ (Same(j, k, i) => Same(j, k, i - 1)))
      BY <1>1, SameIs
    <2>1. CASE ~Same(j, k, i)
      <3>1. shape'[j][i] = shape[j][i] /\ pairs'[j][i] = pairs[j][i] /\ width'[j][i] = width[j][i]
        BY <1>3, <2>1
      <3>2. i > 0 => shape'[j][i - 1] = shape[j][i - 1] \/ (~Inner(j, i - 1) /\ ~Inner(j, i - 1)')
        BY <1>3, <2>0 DEF Inner
      <3> QED BY <1>1, <2>0, <2>1, <3>1, <3>2, Stays
    <2>2. CASE Same(j, k, i) /\ i < l
      <3>1. /\ shape'[j][i] = shape[j][i] /\ pairs'[j][i] = pairs[j][i] /\ width'[j][i] = width[j][i]
            /\ i > 0 => shape'[j][i - 1] = shape[j][i - 1]
        BY <1>1, <1>3, <2>0, <2>2
      <3>2. Inner(j, i) /\ shape[j][i] = shape[k][i]
        BY <1>1, <2>2 DEF Route
      <3>3. shape[j][i] = "array" => Left(k, i + 1) # {}
        <4>1. CASE i + 1 = l
          <5>1. l - 1 = i
            BY <1>1, <2>0, <4>1
          <5> QED BY <1>1, <1>5, <3>2, <4>1, <5>1 DEF HasPairs
        <4>2. CASE i + 1 < l
          BY <1>6, <2>0, <4>2
        <4> QED BY <1>1, <2>0, <2>2, <4>1, <4>2
      <3>4. i > 0 => Left(k, i) # {} /\ \A x \in Keys : Left(k, i) # {x}
        BY <1>6, <2>0, <2>2
      <3> QED BY <2>0, <2>2, <3>1, <3>2, <3>3, <3>4, TakeAbove
    <2>3. CASE Same(j, k, i) /\ i = l
      <3>1. /\ shape[j][i] = shape[k][l] /\ pairs[j][i] = PairsOf(Under(j, i))
            /\ Inner(j, i - 1) /\ i > 0 /\ Under(j, i) = Under(k, l)
        BY <1>1, <2>0, <2>3, UnderSame DEF Route
      <3>2. Under(j, i)' = Left(k, l) /\ Left(k, l) \subseteq Under(k, l)
        BY <2>0, <2>3 DEF Drops, Left
      <3>3. \A x \in Keys : pairs'[j][i][x] = IF x \in Left(k, l) THEN stored[x] ELSE Absent
        BY <1>4, <2>3, <3>1 DEF PairsOf, Left
      <3>4. pairs'[j][i] = [x \in Keys |-> pairs'[j][i][x]]
        BY <1>4, <2>3
      <3>5. CASE shape[k][l] = "leaf"
        <4>1. pairs'[j][i] = NoPairs
          BY <1>5, <3>3, <3>4, <3>5 DEF NoPairs
        <4>2. shape'[j][i] = "none" /\ Under(j, i)' = {}
          BY <1>3, <1>5, <2>3, <3>1, <3>2, <3>5
        <4> QED BY <2>0, <3>1, <4>1, <4>2, Nothing
      <3>6. CASE shape[k][l] = "collision"
        <4>1. shape'[j][i] = "collision" /\ Inner(j, i - 1)'
          BY <1>1, <1>3, <2>0, <2>3, <3>1, <3>6 DEF Inner
        <4>2. Under(j, i)' # {} /\ ~Alone(j, i)' /\ OneHash(Under(j, i))'
          BY <1>1, <1>2, <1>5, <3>2, <3>6 DEF Alone, OneHash
        <4>3. PairsOf(Under(j, i))' = [x \in Keys |-> IF x \in Left(k, l) THEN stored'[x] ELSE Absent]
          BY <3>2 DEF PairsOf
        <4>4. \A x \in Left(k, l) : stored'[x] = stored[x]
          BY <1>1, LeftIs DEF Drops
        <4>5. pairs'[j][i] = PairsOf(Under(j, i))'
          BY <3>3, <3>4, <4>3, <4>4
        <4> QED BY <2>0, <3>1, <4>1, <4>2, <4>5, IsCollision
      <3> QED BY <1>1, <3>5, <3>6 DEF HasPairs
    <2>4. CASE Same(j, k, i) /\ i > l
      <3>1. shape[j][i] = "none" /\ pairs[j][i] = NoPairs /\ ~Inner(j, i - 1) /\ i > 0
        BY <1>1, <2>0, <2>4 DEF Route, Inner
      <3>2. shape'[j][i] = "none" /\ pairs'[j][i] = NoPairs /\ ~Inner(j, i - 1)'
        BY <1>1, <1>3, <2>0, <2>4, <3>1 DEF Inner
      <3> QED BY <2>0, <3>1, <3>2, Nothing
    <2> QED BY <1>1, <2>0, <2>1, <2>2, <2>3, <2>4
  <1>8. Shared'
    <2> SUFFICES ASSUME NEW j \in Keys, NEW h \in Keys, NEW i \in Depths, Same(j, h, i)
                 PROVE  /\ shape'[j][i] = shape'[h][i] /\ pairs'[j][i] = pairs'[h][i]
                        /\ width'[j][i] = width'[h][i]
      BY DEF Shared, Depths
    <2>1. shape[j][i] = shape[h][i] /\ pairs[j][i] = pairs[h][i] /\ width[j][i] = width[h][i]
      BY DEF WalksInv, TreeOK, Shared
    <2>2. i = l => (Same(j, k, l) <=> Same(h, k, l))
      BY <1>1, SameFor
    <2>3. i = l /\ Same(j, k, l) => pairs'[j][i] = pairs'[h][i]
      BY <1>4, <2>1, <2>2
    <2> QED BY <1>3, <2>1, <2>2, <2>3
  <1>9. /\ shape' \in [Keys -> [Depths -> Shapes]]
        /\ pairs' \in [Keys -> [Depths -> [Keys -> Vals \cup {Absent}]]]
        /\ width' \in [Keys -> [Depths -> Nat]]
    BY DEF RemovePair, WalksInv, TreeOK, Shapes
  <1> QED BY <1>7, <1>8, <1>9 DEF TreeOK, Depths

-----------------------------------------------------------------------------

(* assoc and without, by what the walk of the key ends at. *)
LEMMA PutKeeps ==
    ASSUME WalksAssumption, WalksInv, NEW k \in Keys, NEW v \in Vals, Assoc(k, v)
    PROVE  WalksInv'
  <1>1. Absent \notin Vals /\ stored \in [Keys -> Vals \cup {Absent}]
    BY DEF WalksAssumption, WalksInv
  <1>2. Gains(k, v)
    BY <1>1, PutUnder DEF Assoc
  <1>3. TreeOK'
    <2> DEFINE l == End(k)
    <2>1. CASE AddLeaf(k, v, l)
      BY <1>2, <2>1, AddLeafFits
    <2>2. CASE PromoteWith(k, v, l)
      BY <1>2, <2>2, PromoteFits
    <2>3. CASE AddChild(k, v, l)
      BY <1>2, <2>3, AddChildFits
    <2>4. CASE NewValue(k, v, l)
      BY <1>2, <2>4, NewValueFits
    <2>5. CASE Collide(k, v, l)
      BY <1>2, <2>5, CollideFits
    <2>6. ASSUME NEW m \in l + 1 .. Levels, SplitAt(k, v, l, m) PROVE TreeOK'
      BY <1>2, <2>6, SplitFits
    <2> QED BY <2>1, <2>2, <2>3, <2>4, <2>5, <2>6 DEF Assoc
  <1>4. stored' \in [Keys -> Vals \cup {Absent}]
    BY <1>1 DEF Assoc
  <1>5. Counted'
    <2>1. Held' = Held \cup {k}
      BY <1>1, <1>2 DEF Gains, Held
    <2>2. k \in Held <=> stored[k] # Absent
      BY DEF Held
    <2>3. IsFiniteSet(Held) /\ total = Cardinality(Held)
      BY DEF WalksInv, Counted
    <2>4. IsFiniteSet(Held \cup {k})
          /\ Cardinality(Held \cup {k}) = IF k \in Held THEN Cardinality(Held) ELSE Cardinality(Held) + 1
      BY <2>3, FS_AddElement
    <2> QED BY <2>1, <2>2, <2>3, <2>4 DEF Assoc, Counted
  <1> QED BY <1>3, <1>4, <1>5 DEF WalksInv

LEMMA TakeKeeps ==
    ASSUME WalksAssumption, WalksInv, NEW k \in Keys, Without(k)
    PROVE  WalksInv'
  <1>1. Absent \notin Vals /\ stored \in [Keys -> Vals \cup {Absent}] /\ stored[k] # Absent
    BY DEF WalksAssumption, WalksInv, Without
  <1>2. Drops(k)
    BY TakeUnder DEF Without
  <1>3. TreeOK'
    <2> DEFINE l == End(k)
    <2>1. ASSUME NEW x \in Keys, NEW n \in 1 .. Levels, Collapse(k, x, n) PROVE TreeOK'
      BY <1>1, <1>2, <2>1, CollapseFits
    <2>2. CASE DropChild(k, l - 2)
      BY <1>1, <1>2, <2>2, DropChildFits
    <2>3. CASE Demote(k, l - 2)
      BY <1>1, <1>2, <2>3, DemoteFits
    <2>4. CASE RemovePair(k, l)
      BY <1>1, <1>2, <2>4, RemoveFits
    <2> QED BY <2>1, <2>2, <2>3, <2>4 DEF Without
  <1>4. stored' \in [Keys -> Vals \cup {Absent}]
    BY <1>1 DEF Without
  <1>5. Counted'
    <2>1. Held' = Held \ {k} /\ k \in Held
      BY <1>1, <1>2 DEF Drops, Held
    <2>2. IsFiniteSet(Held) /\ total = Cardinality(Held)
      BY DEF WalksInv, Counted
    <2>3. IsFiniteSet(Held \ {k}) /\ Cardinality(Held \ {k}) = Cardinality(Held) - 1
      BY <2>1, <2>2, FS_RemoveElement
    <2> QED BY <2>1, <2>2, <2>3 DEF Without, Counted
  <1> QED BY <1>3, <1>4, <1>5 DEF WalksInv

LEMMA WalksBegin == ASSUME WalksAssumption, WalksInit PROVE WalksInv
  <1>1. Levels \in Nat /\ Levels >= 1 /\ Depths = 0 .. Levels
    BY LevelsAre
  <1>2. Held = {}
    BY DEF Held, WalksInit
  <1>3. \A k, l : Under(k, l) = {}
    BY <1>2 DEF Under
  <1>4. ASSUME NEW k \in Keys, NEW l \in Depths PROVE Fits(k, l)
    <2>1. /\ shape[k][l] = IF l = 0 THEN "bitmap" ELSE "none"
          /\ pairs[k][l] = NoPairs
      BY DEF WalksInit
    <2>2. l > 0 => l - 1 \in Depths
      BY <1>1
    <2>3. l > 1 => shape[k][l - 1] = "none"
      BY <1>1, <2>2 DEF WalksInit
    <2> QED BY <1>1, <1>3, <2>1, <2>3 DEF Fits, Inner, HasPairs
  <1>5. Shared
    BY DEF Shared, WalksInit
  <1>6. Counted
    BY <1>2, FS_EmptySet DEF Counted, WalksInit
  <1>7. /\ shape \in [Keys -> [Depths -> Shapes]]
        /\ pairs \in [Keys -> [Depths -> [Keys -> Vals \cup {Absent}]]]
        /\ width \in [Keys -> [Depths -> Nat]]
        /\ stored \in [Keys -> Vals \cup {Absent}]
    BY DEF WalksInit, Shapes, NoPairs
  <1> QED BY <1>4, <1>5, <1>6, <1>7 DEF WalksInv, TreeOK

LEMMA WalksInvStep ==
    ASSUME WalksAssumption, WalksInv, [WalksNext]_walkVars PROVE WalksInv'
  <1>1. ASSUME NEW k \in Keys, Without(k) PROVE WalksInv'
    BY <1>1, TakeKeeps
  <1>2. ASSUME NEW k \in Keys, NEW v \in Vals, Assoc(k, v) PROVE WalksInv'
    BY <1>2, PutKeeps
  <1>3. CASE UNCHANGED walkVars
    <2>0. shape' = shape /\ pairs' = pairs /\ width' = width /\ total' = total /\ stored' = stored
      BY <1>3 DEF walkVars
    <2>1. Held' = Held /\ \A j, i : Under(j, i)' = Under(j, i) /\ Kids(j, i)' = Kids(j, i)
      BY <2>0 DEF Held, Under, Kids
    <2>2. \A j, i : PairsOf(Under(j, i))' = PairsOf(Under(j, i))
      BY <2>0, <2>1 DEF PairsOf
    <2>3. \A j \in Keys, i \in Depths : Fits(j, i)'
      <3>1. Depths \subseteq Nat
        BY LevelsAre
      <3> QED BY <2>0, <2>1, <2>2, <3>1, Stays DEF WalksInv, TreeOK
    <2>4. Shared' /\ Counted'
      BY <2>0, <2>1 DEF WalksInv, TreeOK, Shared, Counted
    <2> QED BY <2>0, <2>3, <2>4 DEF WalksInv, TreeOK, Depths
  <1> QED BY <1>1, <1>2, <1>3 DEF WalksNext

(* What the walk of every key comes to at every level fits what is stored, *)
(* whatever assoc and without did: hamt.go:260-520.                        *)
THEOREM WalksInvariance == WalksAssumption => (WalksSpec => []WalksInv)
  <1> SUFFICES ASSUME WalksAssumption PROVE WalksSpec => []WalksInv
    OBVIOUS
  <1>1. WalksInit => WalksInv
    BY WalksBegin
  <1>2. WalksInv /\ [WalksNext]_walkVars => WalksInv'
    BY WalksInvStep
  <1> QED BY <1>1, <1>2, PTL DEF WalksSpec

LEMMA InvGivesSound == ASSUME WalksAssumption, WalksInv PROVE WalksSound /\ WalksTypeOK
  <1>1. Levels \in Nat /\ Levels >= 1 /\ Depths = 0 .. Levels
    BY LevelsAre
  <1>2. \A j \in Keys, i \in Depths : Fits(j, i)
    BY DEF WalksInv, TreeOK
  <1>3. /\ stored \in [Keys -> Vals \cup {Absent}] /\ total = Cardinality(Held)
        /\ IsFiniteSet(Held)
    BY DEF WalksInv, Counted
  <1>4. WalksTypeOK
    BY <1>3, FS_CardinalityType DEF WalksInv, TreeOK, WalksTypeOK
  <1>5. WalksEnd
    BY EndIs DEF WalksEnd
  <1>6. ASSUME NEW k \in Keys PROVE Lookup(k) = stored[k]
    <2>1. Route(k, End(k)) /\ End(k) \in Depths
      BY <1>1, AtEnd, EndIs
    <2>2. CASE shape[k][End(k)] = "none"
      <3>1. pairs[k][End(k)] = NoPairs /\ stored[k] = Absent
        BY <1>2, <2>1, <2>2 DEF Fits, HasPairs, Route
      <3> QED BY <3>1 DEF Lookup, NoPairs
    <2>3. CASE shape[k][End(k)] # "none"
      <3>1. pairs[k][End(k)] = PairsOf(Under(k, End(k)))
        BY <1>1, <1>2, <2>1, <2>3, EndPairs DEF Route
      <3>2. k \in Under(k, End(k)) <=> stored[k] # Absent
        BY <1>1, <2>1, UnderIs, SameIs
      <3> QED BY <3>1, <3>2 DEF Lookup, PairsOf
    <2> QED BY <2>2, <2>3
  <1>7. PairsAreWalkedTo
    <2> SUFFICES ASSUME NEW j \in Keys, NEW x \in Keys, NEW l \in Depths, pairs[j][l][x] # Absent
                 PROVE  Same(x, j, l) /\ l = End(x)
      BY DEF PairsAreWalkedTo
    <2>1. Fits(j, l) /\ HasPairs(j, l)
      BY <1>2 DEF Fits, NoPairs
    <2>2. x \in Under(j, l)
      BY <2>1 DEF Fits, PairsOf
    <2>3. Same(x, j, l)
      BY <2>2, UnderIs
    <2>4. l > 0 /\ Inner(j, l - 1) /\ ~Inner(j, l) /\ l - 1 \in Depths
      BY <1>1, <2>1 DEF Fits, HasPairs, Inner
    <2>5. Same(x, j, l - 1)
      BY <1>1, <2>3, SameIs
    <2>6. shape[x][l] = shape[j][l] /\ shape[x][l - 1] = shape[j][l - 1]
      BY <2>3, <2>4, <2>5 DEF WalksInv, TreeOK, Shared
    <2>7. Ends(x, l) /\ l \in 1 .. Levels
      BY <1>1, <2>4, <2>6 DEF Ends, Inner
    <2> QED BY <2>3, <2>7, EndIs
  <1>8. NoPanic
    <2> SUFFICES ASSUME NEW k \in Held, End(k) >= 2, shape[k][End(k) - 2] = "bitmap",
                        Left(k, End(k) - 1) = {}
                 PROVE  FALSE
      BY DEF NoPanic
    <2>1. k \in Keys /\ stored[k] # Absent
      BY DEF Held
    <2>2. Inner(k, End(k) - 1) /\ End(k) - 1 \in Depths /\ End(k) \in 1 .. Levels
      BY <1>1, <2>1, EndIs
    <2>3. k \in Under(k, End(k) - 1)
      BY <2>1, <2>2, <1>1, LeftIs
    <2>4. Under(k, End(k) - 1) = {k}
      BY <2>3 DEF Left
    <2>5. Alone(k, End(k) - 1)
      BY <2>1, <2>4 DEF Alone
    <2>6. ~Alone(k, End(k) - 1)
      BY <1>1, <1>2, <2>1, <2>2 DEF Fits
    <2> QED BY <2>5, <2>6
  <1> QED BY <1>3, <1>4, <1>5, <1>6, <1>7, <1>8 DEF WalksSound, LookupIsStored

(* A lookup finds what was stored, the count is right, an iterator comes   *)
(* to every pair once and has room for its walk, and without never finds   *)
(* the node below a bitmap node empty, where it would panic.               *)
THEOREM WalksAreSound == WalksAssumption => (WalksSpec => [](WalksSound /\ WalksTypeOK))
  <1> SUFFICES ASSUME WalksAssumption PROVE WalksSpec => [](WalksSound /\ WalksTypeOK)
    OBVIOUS
  <1>1. WalksInv => WalksSound /\ WalksTypeOK
    BY InvGivesSound
  <1>2. WalksSpec => []WalksInv
    BY WalksInvariance
  <1> QED BY <1>1, <1>2, PTL
=============================================================================
