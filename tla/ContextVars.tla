---------------------------- MODULE ContextVars ----------------------------
(***************************************************************************)
(* Context variables (module/contextvars/contextvar.go, context.go): what  *)
(* a variable is in the context that a thread is in, the value a variable  *)
(* remembers of the last look at it, tokens that undo a set, and contexts  *)
(* that are run in.                                                        *)
(*                                                                         *)
(* The GIL is held in every operation, so a step is one; it is free to     *)
(* change hands in the function that Context.run calls.  The map in a      *)
(* context is Hamt's.  A goroutine has the thread state ThreadOf[g], which *)
(* a generator body shares with the one that made it.                      *)
(***************************************************************************)
EXTENDS Integers, SequencesExt, FiniteSetsExt

CONSTANTS
    Goid, Thread, ThreadOf,
    Var, Val, Unset, NoContext,
    MaxContexts, MaxTokens, MaxSwitches     \* bounds

ContextAssumption ==
    /\ ThreadOf \in [Goid -> Thread] /\ NoContext = 0 /\ Unset \notin Val
    /\ MaxContexts \in Nat /\ MaxTokens \in Nat /\ MaxSwitches \in Nat

VARIABLES
    contexts,   \* those made so far; base is one no Python code can name
    current,    \* thread -> its context's number, or NoContext
    version,    \* thread -> how often that has changed
    cache,      \* variable -> the value seen last, by whom and at what version
    tokens,
    runs        \* goroutine -> the contexts it is in run of, the innermost first

ctxVars == <<contexts, current, version, cache, tokens, runs>>

NewContext(vars, base) == [vars |-> vars, prev |-> NoContext, entered |-> FALSE, base |-> base]

NoVars == [v \in Var |-> Unset]

ContextInit ==
    /\ contexts = <<>> /\ tokens = <<>>
    /\ current = [t \in Thread |-> NoContext] /\ version = [t \in Thread |-> 0]
    /\ cache = [v \in Var |-> [valid |-> FALSE]]
    /\ runs = [g \in Goid |-> <<>>]

-----------------------------------------------------------------------------

(* Mutant: the version stays. *)
SetContextOnly(t, c) ==
    /\ current' = [current EXCEPT ![t] = c]
    /\ version' = [version EXCEPT ![t] = @]

(* Thread.SetContext. *)
SetContext(t, c) ==
    /\ current' = [current EXCEPT ![t] = c]
    /\ version' = [version EXCEPT ![t] = @ + 1]

(* contextGet: a thread without a context gets one.  c is its number and   *)
(* made the contexts there are now.                                        *)
ContextGet(t, c, made) ==
    IF current[t] # NoContext
    THEN c = current[t] /\ made = contexts /\ UNCHANGED <<current, version>>
    ELSE /\ Len(contexts) < MaxContexts
         /\ c = Len(contexts) + 1 /\ made = Append(contexts, NewContext(NoVars, TRUE))
         /\ SetContext(t, c)

(* cacheStore, with the version that the thread has by now. *)
CacheStore(t, v, x) ==
    cache' = [cache EXCEPT ![v] = [valid |-> TRUE, thread |-> t, version |-> version'[t], value |-> x]]

(* cacheLookup. *)
CacheHit(t, v) == cache[v].valid /\ cache[v].thread = t /\ cache[v].version = version[t]

Bind(made, c, v, x) == contexts' = [made EXCEPT ![c].vars[v] = x]

-----------------------------------------------------------------------------

(* Get and GetWithDefault that find the value in the context. *)
Get(g, v) ==
    LET t == ThreadOf[g]
    IN  /\ current[t] # NoContext /\ ~CacheHit(t, v)
        /\ contexts[current[t]].vars[v] # Unset
        /\ UNCHANGED version
        /\ CacheStore(t, v, contexts[current[t]].vars[v])
        /\ UNCHANGED <<contexts, current, tokens, runs>>

(* A token remembers what the variable was. *)
Set(g, v, x) ==
    LET t == ThreadOf[g]
        made == IF current[t] = NoContext THEN Append(contexts, NewContext(NoVars, TRUE)) ELSE contexts
        c == IF current[t] = NoContext THEN Len(made) ELSE current[t]
    IN  /\ Len(tokens) < MaxTokens
        /\ ContextGet(t, c, made)
        /\ Bind(made, c, v, x)
        /\ tokens' = Append(tokens, [context |-> c, var |-> v, old |-> made[c].vars[v], used |-> FALSE])
        /\ CacheStore(t, v, x)
        /\ UNCHANGED runs

(* A token is good once, in its own context: the variable is what it was,  *)
(* or not set if it was not.                                               *)
Reset(g, i) ==
    LET t == ThreadOf[g]
        tok == tokens[i]
    IN  /\ ~tok.used /\ current[t] = tok.context
        /\ tokens' = [tokens EXCEPT ![i].used = TRUE]
        /\ cache' = [cache EXCEPT ![tok.var] = [valid |-> FALSE]]
        /\ Bind(contexts, tok.context, tok.var, tok.old)
        /\ UNCHANGED <<current, version, runs>>

(* Context(). *)
MakeContext ==
    /\ Len(contexts) < MaxContexts
    /\ contexts' = Append(contexts, NewContext(NoVars, FALSE))
    /\ UNCHANGED <<current, version, cache, tokens, runs>>

(* copy_context: CopyCurrent. *)
CopyCurrent(g) ==
    LET t == ThreadOf[g]
        made == IF current[t] = NoContext THEN Append(contexts, NewContext(NoVars, TRUE)) ELSE contexts
        c == IF current[t] = NoContext THEN Len(made) ELSE current[t]
    IN  /\ Len(made) < MaxContexts
        /\ ContextGet(t, c, made)
        /\ contexts' = Append(made, NewContext(made[c].vars, FALSE))
        /\ UNCHANGED <<cache, tokens, runs>>

(* Context.copy. *)
Copy(c) ==
    /\ ~contexts[c].base /\ Len(contexts) < MaxContexts
    /\ contexts' = Append(contexts, NewContext(contexts[c].vars, FALSE))
    /\ UNCHANGED <<current, version, cache, tokens, runs>>

(* Context.run up to the call: Enter. *)
Enter(g, c) ==
    LET t == ThreadOf[g]
    IN  /\ version[t] < MaxSwitches
        /\ ~contexts[c].base /\ ~contexts[c].entered
        /\ contexts' = [contexts EXCEPT ![c].prev = current[t], ![c].entered = TRUE]
        /\ SetContext(t, c)
        /\ runs' = [runs EXCEPT ![g] = <<c>> \o @]
        /\ UNCHANGED <<cache, tokens>>

(* Exit raises. *)
ExitFails(g) ==
    LET c == Head(runs[g]) IN ~contexts[c].entered \/ current[ThreadOf[g]] # c

(* The rest of it: Exit, whether or not the function has raised. *)
Exit(g) ==
    /\ runs[g] # <<>>
    /\ LET c == Head(runs[g])
       IN  IF ExitFails(g) THEN UNCHANGED <<contexts, current, version>>
           ELSE /\ SetContext(ThreadOf[g], contexts[c].prev)
                /\ contexts' = [contexts EXCEPT ![c].prev = NoContext, ![c].entered = FALSE]
    /\ runs' = [runs EXCEPT ![g] = Tail(@)]
    /\ UNCHANGED <<cache, tokens>>

ContextNext ==
    \/ MakeContext
    \/ \E c \in DOMAIN contexts : Copy(c)
    \/ \E g \in Goid :
        \/ \E v \in Var : Get(g, v)
        \/ \E v \in Var, x \in Val : Set(g, v, x)
        \/ \E i \in DOMAIN tokens : Reset(g, i)
        \/ CopyCurrent(g)
        \/ \E c \in DOMAIN contexts : Enter(g, c)
        \/ Exit(g)

ContextSpec == ContextInit /\ [][ContextNext]_ctxVars

-----------------------------------------------------------------------------

ContextTypeOK ==
    /\ \A c \in DOMAIN contexts :
        /\ contexts[c].vars \in [Var -> Val \cup {Unset}]
        /\ contexts[c].prev \in DOMAIN contexts \cup {NoContext}
    /\ current \in [Thread -> DOMAIN contexts \cup {NoContext}]
    /\ \A i \in DOMAIN tokens : tokens[i].context \in DOMAIN contexts /\ tokens[i].var \in Var

(* contextvar.go:280-294, state.go:388-390: a value that a variable        *)
(* remembers is what the thread that asks would find in its context, which *)
(* holds the reference that the cache has none of (contextvar.go:62-64).   *)
CacheIsCurrent == \A t \in Thread, v \in Var : CacheHit(t, v) =>
    current[t] # NoContext /\ contexts[current[t]].vars[v] = cache[v].value

(* contextvar.go:260-267: a variable that a token would unset is set, and  *)
(* by one token only, so that Reset's LookupError is not reached.          *)
ResetFindsBinding == \A c \in DOMAIN contexts, v \in Var :
    LET unsetters == { i \in DOMAIN tokens :
            tokens[i].context = c /\ tokens[i].var = v /\ tokens[i].old = Unset /\ ~tokens[i].used }
    IN  Cardinality(unsetters) <= IF contexts[c].vars[v] = Unset THEN 0 ELSE 1

(* context.go:99-137: no two threads are in one context, a thread leaves  *)
(* the contexts it is in innermost first, and what it was in before is     *)
(* what it goes back to.                                                   *)
RunsNest ==
    /\ \A g \in Goid : runs[g] # <<>> =>
        /\ ~ExitFails(g)
        /\ \A i \in 1 .. Len(runs[g]) - 1 : contexts[runs[g][i]].prev = runs[g][i + 1]
    /\ \A t, u \in Thread : t # u /\ current[t] # NoContext => current[t] # current[u]
    /\ { c \in DOMAIN contexts : contexts[c].entered } = UNION { ToSet(runs[g]) : g \in Goid }

ContextInv == ContextTypeOK /\ CacheIsCurrent /\ ResetFindsBinding /\ RunsNest
=============================================================================
