------------------------------- MODULE MCMaps -------------------------------
(***************************************************************************)
(* Instances of DictTable, Hamt and ContextVars for TLC.  A behaviour is   *)
(* of one kind.                                                            *)
(***************************************************************************)
EXTENDS MCDictTable

CONSTANT Kinds      \* of DictTable, Hamt, ContextVars

VARIABLES
    kind,
    root, count, contents,
    shape, pairs, width,
    contexts, current, version, cache, tokens, runs

(* Three keys whose hashes agree, one that leaves them at the next digit,  *)
(* and one for each of the other digits, which makes an array node.        *)
HamtHash == <<0, 0, 0, 4, 1, 2, 3>>

Tree == INSTANCE Hamt WITH
    Key <- 1 .. 7, Val <- {v, w}, Hash <- HamtHash,
    Branch <- 4, Threshold <- 3, MaxTreeDepth <- 3

(* The walks of the tree's keys are in variables, so that they are made    *)
(* once for a state.                                                       *)
Walks == INSTANCE HamtWalks WITH
    Keys <- 1 .. 7, Vals <- {v, w}, Absent <- Missing,
    Digits <- Tree!HashDigits, Levels <- 2, Threshold <- 3,
    total <- count, stored <- contents

Ctx == INSTANCE ContextVars WITH
    Goid <- {1, 2}, Thread <- {1, 2}, ThreadOf <- <<1, 2>>,
    Var <- {k1}, Val <- {v, w}, Unset <- Missing, NoContext <- 0,
    MaxContexts <- 3, MaxTokens <- 2, MaxSwitches <- 2

ASSUME Tree!HamtAssumption /\ Walks!WalksAssumption /\ Ctx!ContextAssumption

hamtVars == <<root, count, contents, shape, pairs, width>>
ctxVars == <<contexts, current, version, cache, tokens, runs>>
AllVars == <<kind, vars, hamtVars, ctxVars>>

WalksOf(s, p, n, r) ==
    s = Tree!WalkShape(r) /\ p = Tree!WalkPairs(r) /\ n = Tree!WalkWidth(r)

OnlyDict == kind = "DictTable" /\ UNCHANGED <<kind, hamtVars, ctxVars>>
OnlyTree == kind = "Hamt" /\ UNCHANGED <<kind, vars, ctxVars>>
OnlyCtx == kind = "ContextVars" /\ UNCHANGED <<kind, vars, hamtVars>>

MapsInit ==
    kind \in Kinds /\ DictInit /\ Tree!HamtInit /\ WalksOf(shape, pairs, width, root) /\ Ctx!ContextInit

MapsNext ==
    \/ OnlyDict /\ DictNext
    \/ OnlyTree /\ Tree!HamtNext /\ \E r \in {root'} : WalksOf(shape', pairs', width', r)
    \/ OnlyCtx /\ Ctx!ContextNext

MapsSpec ==
    /\ MapsInit /\ [][MapsNext]_AllVars
    /\ WF_AllVars(OnlyDict /\ Probing)

-----------------------------------------------------------------------------

(* hamt.go:1-17, 450, iter.go:17: in whatever order keys come and go, the  *)
(* tree holds what was stored, an iterator gives each pair once and has    *)
(* room for its stack, and no removal comes to a panic; and what the walks *)
(* of all keys come to changes as HamtWalks says.                          *)
HamtSound == [](kind = "Hamt" => Tree!TreeInv) /\ Walks!WalksSpec

(* contextvar.go:148-315, context.go:99-137: a remembered value is what   *)
(* the thread's context holds, tokens undo what they were made for, and    *)
(* contexts are left in the order they were entered.                       *)
ContextSound == kind = "ContextVars" => Ctx!ContextInv
=============================================================================
