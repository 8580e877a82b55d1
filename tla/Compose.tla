------------------------------ MODULE Compose ------------------------------
(***************************************************************************)
(* The composition engine of @composurecdk/core: compose(), the dependency *)
(* graph it checks, #buildWith, which builds the components of one system  *)
(* in dependency order, and the after-build hooks of a configured system.  *)
(*                                                                         *)
(* A composed system is itself a component, so one call of build() walks a *)
(* tree: the inner nodes are systems, the leaves are builders.  A node     *)
(* stands for the component AND for its build result, since a context only *)
(* ever needs to say whose result it holds.                                *)
(***************************************************************************)
EXTENDS Naturals, Sequences, FiniteSets

CONSTANTS
  Nodes,          \* every component of the tree, the outermost system included
  Root,           \* the outermost system, the one build() is called on
  Systems,        \* the nodes made by compose(); the others are builders
  Parent,         \* the system a node is registered in
  Keys,           \* component keys
  KeyOf,          \* the key a node is registered under
  Scopes,         \* construct scopes: the app and its stacks
  Inherit,        \* no entry in withStacks(): use the scope given to build()
  Segments,       \* what ids are made of: "A/b" is <<"A", "b">>
  Suffixes,       \* what a builder appends to its id to name a construct
  Itself,         \* the empty one: the construct has the builder's own id
  Names,          \* segments with a suffix
  Glue(_, _),     \* a segment with a suffix: "fn" and "LogGroup" is "fnLogGroup"
  Makes,          \* the suffixes of the constructs a builder makes in its scope
  NoPin,          \* the component is not wrapped in at()
  Outside,        \* a result handed in by the caller as parentContext
  DepChoices,     \* dependency declarations to explore
  PinChoices,     \* at() pins to explore
  RouteChoices,   \* withStacks() maps to explore
  Calls,          \* the <<scope, id>> arguments build() may be called with
  OuterContexts,  \* sets of keys the caller may hand in as parentContext
  Wants,          \* sets of keys whose refs a builder may resolve
  MaxHooks,       \* bound on the hooks of one system
  MaxBuilds       \* bound on the calls of build()

Leaves == Nodes \ Systems
Inner == Nodes \ {Root}
Children(s) == {n \in Inner : Parent[n] = s}
Siblings(n) == Children(Parent[n])
Ids == Seq(Segments) \ {<<>>}

ASSUME TreeAssumption ==
  /\ Root \in Systems
  /\ Systems \subseteq Nodes
  /\ Parent \in [Inner -> Systems]
  /\ KeyOf \in [Nodes -> Keys]
  /\ \A m, n \in Inner : Parent[m] = Parent[n] /\ KeyOf[m] = KeyOf[n] => m = n
  /\ IsFiniteSet(Nodes)

ASSUME ValueAssumption ==
  /\ Keys \subseteq Segments
  /\ Makes \in [Leaves -> SUBSET Suffixes]
  /\ \A seg \in Segments : \A x, y \in Suffixes :
       Glue(seg, x) \in Names /\ (Glue(seg, x) = Glue(seg, y) => x = y)
  /\ \A seg \in Segments : Glue(seg, Itself) = seg
  /\ Inherit \notin Scopes
  /\ Outside \notin Nodes

ASSUME ChoiceAssumption ==
  /\ DepChoices \subseteq [Inner -> SUBSET Inner]
  /\ \A d \in DepChoices : \A n \in Inner : d[n] \subseteq Siblings(n)
  /\ PinChoices \subseteq [Inner -> {NoPin} \cup Ids]
  /\ RouteChoices \subseteq [Inner -> Scopes \cup {Inherit}]
  /\ Calls \subseteq Scopes \X Ids /\ Calls # {}
  /\ OuterContexts \subseteq SUBSET Keys
  /\ Wants \subseteq SUBSET Keys
  /\ MaxHooks \in Nat /\ MaxBuilds \in Nat

(* Everything registered under a node, itself included: the least set that *)
(* contains the node and is closed under "is a child of".                  *)
Under == [a \in Nodes |->
            {n \in Nodes : \A C \in SUBSET Nodes :
               (a \in C /\ \A m \in Inner : Parent[m] \in C => m \in C) => n \in C}]

ASSUME RootedAssumption == Under[Root] = Nodes

VARIABLES
  deps,        \* the declared dependencies of each node
  pin,         \* the id at() pins on a node, or NoPin
  route,       \* the scope withStacks() gives a node, or Inherit
  composed,    \* the systems compose() has returned
  hooks,       \* number of after-build hooks registered on each system
  pc,          \* what the process is doing
  err,         \* the error the last build or compose() threw
  calls,       \* the arguments of every build() call so far
  open,        \* the systems whose build() is on the call stack
  built,       \* the nodes whose result is recorded in this build
  scopeOf,     \* scope argument of a node's build()
  idOf,        \* id argument of a node's build()
  ctx,         \* context argument of a node's build(): key -> result
  used,        \* idsByScope of each running #buildWith
  hooksRun,    \* hooks that have returned, for each system
  constructs   \* the external construct tree: what exists, and who made it as what

config == <<deps, pin, route>>
frame  == <<open, built, scopeOf, idOf, ctx, used, hooksRun>>
vars   == <<config, composed, hooks, pc, err, calls, frame, constructs>>

AnyCall == CHOOSE c \in Calls : TRUE   \* fills frames no build has used yet
Contexts == UNION {[K -> Nodes \cup {Outside}] : K \in SUBSET Keys}
NoContext == [k \in {} |-> Outside]
Errors == {"CyclicDependencyError", "DuplicateConstructIdError",
           "ConstructTreeDuplicate", "RefUnresolved", "BuilderThrew", "HookThrew"}
Phases == {"composing", "rejected", "ready", "building", "returned", "threw"}

(***************************************************************************)
(* compose(): buildDependencyGraph.  A finite graph has a cycle exactly    *)
(* when some non-empty set of nodes each depend on another of the set.     *)
(***************************************************************************)
\* Mutant of Acyclic: only a component that depends on itself is a cycle.
SelfCyclesOnly(s) == \A n \in Children(s) : n \notin deps[n]

Acyclic(s) == \A C \in SUBSET Children(s) :
                C # {} => \E n \in C : deps[n] \cap C = {}

ComposeSystem(s) ==
  /\ pc = "composing"
  /\ s \notin composed
  /\ Children(s) \cap Systems \subseteq composed
  /\ IF Acyclic(s)
     THEN /\ composed' = composed \cup {s}
          /\ pc' = IF s = Root THEN "ready" ELSE pc
          /\ err' = err
     ELSE /\ pc' = "rejected"
          /\ err' = "CyclicDependencyError"
          /\ composed' = composed
  /\ UNCHANGED <<config, hooks, calls, frame, constructs>>

\* afterBuild() appends to the hook list of the system it was called on.
AfterBuild(s) ==
  /\ pc \in {"ready", "returned", "threw"}
  /\ hooks[s] < MaxHooks
  /\ hooks' = [hooks EXCEPT ![s] = @ + 1]
  /\ UNCHANGED <<config, composed, pc, err, calls, frame, constructs>>

(***************************************************************************)
(* build() on the outermost system: a fresh set of frames.                 *)
(***************************************************************************)
CallBuild(scope, id, outer) ==
  /\ pc \in {"ready", "returned", "threw"}
  /\ Len(calls) < MaxBuilds
  /\ calls' = Append(calls, <<scope, id>>)
  /\ pc' = "building"
  /\ err' = "none"
  /\ open' = {Root}
  /\ built' = {}
  /\ scopeOf' = [n \in Nodes |-> scope]
  /\ idOf' = [n \in Nodes |-> id]
  /\ ctx' = [n \in Nodes |-> IF n = Root THEN [k \in outer |-> Outside] ELSE NoContext]
  /\ used' = [s \in Systems |-> {}]
  /\ hooksRun' = [s \in Systems |-> 0]
  /\ UNCHANGED <<config, composed, hooks, constructs>>

(***************************************************************************)
(* One turn of the loop over alg.topsort(graph).  graphlib may emit any    *)
(* linear extension of the graph, so any node whose dependencies have been *)
(* emitted may be next.                                                    *)
(***************************************************************************)
Current(s) == pc = "building" /\ s \in open /\ Children(s) \cap open = {}

\* Mutants of Ready: declaration order in place of topological order; an edge
\* to a nested system forgotten.
InDeclarationOrder(s, n) == n \in Children(s) \ built
IgnoringNested(s, n) == n \in Children(s) \ built /\ deps[n] \cap Leaves \subseteq built

Ready(s, n) == n \in Children(s) \ built /\ deps[n] \subseteq built

\* Mutant of ScopeFor: `stacks?.[key]` without `?? scope`.
RouteOnly(s, n) == route[n]

ScopeFor(s, n) == IF route[n] = Inherit THEN scopeOf[s] ELSE route[n]

\* Mutants of IdFor: ids derived from the outermost id; a pin appended to the
\* enclosing path.
FlatId(s, n) == IF pin[n] = NoPin THEN Append(idOf[Root], KeyOf[n]) ELSE pin[n]
RelativePin(s, n) == IF pin[n] = NoPin THEN Append(idOf[s], KeyOf[n]) ELSE idOf[s] \o pin[n]

IdFor(s, n) == IF pin[n] = NoPin THEN Append(idOf[s], KeyOf[n]) ELSE pin[n]

DepKeys(n) == {KeyOf[d] : d \in deps[n]}

\* Mutant of ContextFor: { ...innerContext, ...parentContext }.
ParentWins(s, n) ==
  [k \in DOMAIN ctx[s] \cup DepKeys(n) |->
     IF k \in DOMAIN ctx[s] THEN ctx[s][k] ELSE CHOOSE d \in deps[n] : KeyOf[d] = k]

\* { ...parentContext, ...innerContext }: declared dependencies win.
ContextFor(s, n) ==
  [k \in DOMAIN ctx[s] \cup DepKeys(n) |->
     IF k \in DepKeys(n) THEN CHOOSE d \in deps[n] : KeyOf[d] = k ELSE ctx[s][k]]

SlotFor(s, n) == <<ScopeFor(s, n), IdFor(s, n)>>

(***************************************************************************)
(* What a builder makes beside the construct of its own id lies in the     *)
(* same scope, under that id with a text of the builder's appended:        *)
(* `${id}LogGroup` of a function, `${id}ErrorsAlarm` of whatever has       *)
(* alarms.  compose() knows nothing of these names.                        *)
(***************************************************************************)
Extended(id, x) == [id EXCEPT ![Len(id)] = Glue(@, x)]
PlaceOf(s, n, x) == <<ScopeFor(s, n), Extended(IdFor(s, n), x)>>

\* Mutant of Taken: constructs left over from an earlier build() are ignored.
TakenThisRun(slot) == \E c \in constructs : c.slot = slot /\ c.run = Len(calls)
Taken(slot) == \E c \in constructs : c.slot = slot
Free(s, n) == {x \in Makes[n] : ~Taken(PlaceOf(s, n, x))}

\* Mutant of Construct: the component is built in its system's own scope.
InSystemScope(s, n, x) ==
  [slot |-> <<scopeOf[s], Extended(IdFor(s, n), x)>>, by |-> n, as |-> x, run |-> Len(calls)]
Construct(s, n, x) == [slot |-> PlaceOf(s, n, x), by |-> n, as |-> x, run |-> Len(calls)]
Create(s, n, some) == constructs' = constructs \cup {Construct(s, n, x) : x \in some}

\* The exception leaves every frame of the call stack: nothing catches it.
Throw(e) ==
  /\ pc' = "threw"
  /\ err' = e
  /\ open' = {}
  /\ UNCHANGED <<config, composed, hooks, calls>>

\* Mutant of Enter: no check against usedIds.
EnterUnchecked(s, n) ==
  /\ used' = [used EXCEPT ![s] = @ \cup {SlotFor(s, n)}]
  /\ scopeOf' = [scopeOf EXCEPT ![n] = ScopeFor(s, n)]
  /\ idOf' = [idOf EXCEPT ![n] = IdFor(s, n)]
  /\ ctx' = [ctx EXCEPT ![n] = ContextFor(s, n)]

\* The arguments component.build() is called with.
Enter(s, n) ==
  /\ SlotFor(s, n) \notin used[s]
  /\ used' = [used EXCEPT ![s] = @ \cup {SlotFor(s, n)}]
  /\ scopeOf' = [scopeOf EXCEPT ![n] = ScopeFor(s, n)]
  /\ idOf' = [idOf EXCEPT ![n] = IdFor(s, n)]
  /\ ctx' = [ctx EXCEPT ![n] = ContextFor(s, n)]

DuplicateId(s, n) ==
  /\ Current(s) /\ Ready(s, n)
  /\ SlotFor(s, n) \in used[s]
  /\ Throw("DuplicateConstructIdError")
  /\ UNCHANGED <<built, scopeOf, idOf, ctx, used, hooksRun, constructs>>

\* A nested system: its own #buildWith starts with an empty idsByScope.
OpenSystem(s, n) ==
  /\ Current(s) /\ Ready(s, n) /\ n \in Systems
  /\ Enter(s, n)
  /\ open' = open \cup {n}
  /\ UNCHANGED <<config, composed, hooks, pc, err, calls, built, hooksRun, constructs>>

\* A builder that resolves its refs and creates its constructs.
BuildLeaf(s, n, wants) ==
  /\ Current(s) /\ Ready(s, n) /\ n \in Leaves
  /\ Enter(s, n)
  /\ wants \subseteq DOMAIN ctx'[n]
  /\ Free(s, n) = Makes[n] /\ Create(s, n, Makes[n])
  /\ built' = built \cup {n}
  /\ UNCHANGED <<config, composed, hooks, pc, err, calls, open, hooksRun>>

\* A builder that throws: a ref without a provider, a construct id that is
\* taken, or an error of its own.  Some of its constructs may exist by then.
LeafThrows(s, n, wants, e) ==
  /\ Current(s) /\ Ready(s, n) /\ n \in Leaves
  /\ Enter(s, n)
  /\ \/ e = "RefUnresolved" /\ ~(wants \subseteq DOMAIN ctx'[n])
     \/ e = "ConstructTreeDuplicate" /\ Free(s, n) # Makes[n]
     \/ e = "BuilderThrew"
  /\ \E some \in SUBSET Free(s, n) : Create(s, n, some)
  /\ Throw(e)
  /\ UNCHANGED <<built, hooksRun>>

(***************************************************************************)
(* ConfiguredLifecycle.build: once every component is built the hooks run  *)
(* in registration order, then build() returns the results.                *)
(***************************************************************************)
\* Mutant of LoopDone: the hooks run as soon as the components of the system
\* itself that are builders are built.
LoopDoneEarly(s) == Current(s) /\ Children(s) \cap Leaves \subseteq built

LoopDone(s) == Current(s) /\ Children(s) \subseteq built

\* A hook may register another one; the array iterator will reach it.
RunHook(s) ==
  /\ LoopDone(s)
  /\ hooksRun[s] < hooks[s]
  /\ hooksRun' = [hooksRun EXCEPT ![s] = @ + 1]
  /\ \/ hooks' = hooks
     \/ hooks[s] < MaxHooks /\ hooks' = [hooks EXCEPT ![s] = @ + 1]
  /\ UNCHANGED <<config, composed, pc, err, calls, open, built,
                 scopeOf, idOf, ctx, used, constructs>>

HookThrows(s) ==
  /\ LoopDone(s)
  /\ hooksRun[s] < hooks[s]
  /\ Throw("HookThrew")
  /\ UNCHANGED <<built, scopeOf, idOf, ctx, used, hooksRun, constructs>>

ReturnSystem(s) ==
  /\ LoopDone(s)
  /\ hooksRun[s] = hooks[s]
  /\ open' = open \ {s}
  /\ built' = built \cup {s}
  /\ pc' = IF s = Root THEN "returned" ELSE pc
  /\ UNCHANGED <<config, composed, hooks, err, calls, scopeOf, idOf, ctx,
                 used, hooksRun, constructs>>

Init ==
  /\ deps \in DepChoices /\ pin \in PinChoices /\ route \in RouteChoices
  /\ composed = {}
  /\ hooks = [s \in Systems |-> 0]
  /\ pc = "composing"
  /\ err = "none"
  /\ calls = <<>>
  /\ open = {} /\ built = {}
  /\ scopeOf = [n \in Nodes |-> AnyCall[1]]
  /\ idOf = [n \in Nodes |-> AnyCall[2]]
  /\ ctx = [n \in Nodes |-> NoContext]
  /\ used = [s \in Systems |-> {}]
  /\ hooksRun = [s \in Systems |-> 0]
  /\ constructs = {}

\* The steps the running build() takes; the others are the caller's.
BuildStep ==
  \E s \in Systems :
    \/ RunHook(s) \/ HookThrows(s) \/ ReturnSystem(s)
    \/ \E n \in Children(s) :
         \/ DuplicateId(s, n) \/ OpenSystem(s, n)
         \/ \E wants \in Wants : \/ BuildLeaf(s, n, wants)
                                 \/ \E e \in Errors : LeafThrows(s, n, wants, e)

Next ==
  \/ \E s \in Systems : ComposeSystem(s) \/ AfterBuild(s)
  \/ \E c \in Calls, outer \in OuterContexts : CallBuild(c[1], c[2], outer)
  \/ BuildStep

Spec == Init /\ [][Next]_vars

\* build() is one synchronous call: once entered, its steps keep happening.
FairSpec == Spec /\ WF_vars(BuildStep)
-----------------------------------------------------------------------------
(***************************************************************************)
(*                               Properties                                *)
(***************************************************************************)

\* Every variable holds a value of its type.
TypeOK ==
  /\ deps \in DepChoices /\ pin \in PinChoices /\ route \in RouteChoices
  /\ composed \subseteq Systems
  /\ hooks \in [Systems -> 0..MaxHooks]
  /\ pc \in Phases
  /\ err \in Errors \cup {"none"}
  /\ calls \in Seq(Calls)
  /\ open \subseteq Systems /\ built \subseteq Nodes
  /\ scopeOf \in [Nodes -> Scopes] /\ idOf \in [Nodes -> Ids]
  /\ ctx \in [Nodes -> Contexts]
  /\ used \in [Systems -> SUBSET (Scopes \X Ids)]
  /\ hooksRun \in [Systems -> 0..MaxHooks]
  /\ constructs \subseteq [slot : Scopes \X Seq(Names \cup Segments), by : Leaves,
                           as : Suffixes, run : Nat]

Entered == open \cup built
Declares(a, k) == a # Root /\ k \in DepKeys(a)

(* Scoping is lexical: in the context of a component, a key means the       *)
(* dependency of that name declared by the nearest enclosing component that *)
(* declares one, and only what nobody on the way up declares comes from the *)
(* caller's parentContext (compose.ts: "inner deps shadow parent context"). *)
ContextIsLexical ==
  \A n \in Entered : \A k \in Keys :
    LET declaring == {a \in Nodes : n \in Under[a] /\ Declares(a, k)} IN
    IF declaring = {}
    THEN k \in DOMAIN ctx[n] <=> k \in DOMAIN ctx[Root]
    ELSE \E a \in declaring :
           /\ \A b \in declaring : a \in Under[b]
           /\ k \in DOMAIN ctx[n]
           /\ ctx[n][k] \in deps[a] /\ KeyOf[ctx[n][k]] = k

(* A context never holds a result that is still in the making: whatever a   *)
(* component receives, however deep, is complete, with everything nested in *)
(* it built and all the after-build hooks in it run.                        *)
ContextIsFinished ==
  pc = "building" =>
    \A n \in Entered : \A k \in DOMAIN ctx[n] :
      ctx[n][k] # Outside =>
        \A m \in Under[ctx[n][k]] :
          /\ m \in built
          /\ m \in Systems => hooksRun[m] = hooks[m]

(* A hook sees the results of its whole system: no hook of a system has run *)
(* while something under the system is not built.                           *)
HooksSeeEverything ==
  \A s \in Systems : hooksRun[s] > 0 => Under[s] \ {s} \subseteq built

(* An accepted dependency graph never runs dry: a running build always has  *)
(* a component whose dependencies are built, or a loop that is complete.    *)
NeverStuck ==
  pc = "building" =>
    \E s \in Systems : /\ Current(s)
                       /\ \/ Children(s) \subseteq built
                          \/ \E n \in Children(s) : Ready(s, n)

(* Without at(), the ids compose() hands out never collide, whatever the    *)
(* stacks and the nesting.  If a first build fails on an id all the same,   *)
(* two builders of one system have names that spell alike: the key of one   *)
(* with what it appends is that of the other (function-builder.ts:485 makes *)
(* `${id}LogGroup`, which a sibling of the key fnLogGroup has as its id).   *)
UnpinnedCollisionsAreSpelled ==
  [][Len(calls) = 1 /\ (\A n \in Inner : pin[n] = NoPin) =>
       /\ err' # "DuplicateConstructIdError"
       /\ \A s \in Systems, n \in Leaves, wants \in Wants :
            LeafThrows(s, n, wants, "ConstructTreeDuplicate") =>
              \A c \in constructs, x \in Makes[n] : c.slot = PlaceOf(s, n, x) =>
                Parent[c.by] = s /\ Glue(KeyOf[c.by], c.as) = Glue(KeyOf[n], x)]_vars

(* A collision between the ids compose() hands out to two components of one *)
(* system in one build is always the typed error: the opaque one of the     *)
(* construct tree meets a construct of another system, one of an earlier    *)
(* build, or one whose name a builder derived.                              *)
HandedOutCollisionsAreTyped ==
  [][\A s \in Systems, n \in Leaves, wants \in Wants :
       LeafThrows(s, n, wants, "ConstructTreeDuplicate") =>
         \A c \in constructs : c.slot = SlotFor(s, n) /\ c.as = Itself =>
           c.run < Len(calls) \/ Parent[c.by] # s]_vars

(* at() keeps the paths a system had on its own: below a pinned component   *)
(* ids depend on the pin and the keys in between, on nothing above it.      *)
PathFrom(a, n) == {KeyOf[m] : m \in {x \in Under[a] \ {a} : n \in Under[x]}}
PinShieldsSubtree ==
  \A n \in Entered : \A a \in Inner :
    n \in Under[a] /\ pin[a] # NoPin
      /\ (\A m \in Under[a] \ {a} : n \in Under[m] => pin[m] = NoPin)
    => /\ SubSeq(idOf[n], 1, Len(pin[a])) = pin[a]
       /\ {idOf[n][i] : i \in Len(pin[a])+1..Len(idOf[n])} = PathFrom(a, n)

(* build() is not atomic: what a failed build created stays in the tree, so *)
(* after a build that created anything, another with the same arguments     *)
(* never completes.                                                         *)
RetryNeedsFreshScope ==
  pc = "returned" =>
    \A r \in 1..Len(calls)-1 :
      calls[r] = calls[Len(calls)] => \A c \in constructs : c.run # r

(* A build makes each construct of a builder at most once, and if it        *)
(* returns, all of them, at the scope and under the id the builder was      *)
(* given.                                                                   *)
EachLeafOnce ==
  \A n \in Leaves :
    LET mine == {c \in constructs : c.by = n /\ c.run = Len(calls)} IN
    /\ \A c, d \in mine : c.as = d.as => c = d
    /\ pc = "returned" =>
         {c.slot : c \in mine} = {<<scopeOf[n], Extended(idOf[n], x)>> : x \in Makes[n]}

(* A build that was started ends: it returns or it throws.                  *)
BuildEnds == pc = "building" ~> pc \in {"returned", "threw"}

(* What the documentation says of at() and DuplicateConstructIdError: a     *)
(* pinned id that is another component's is reported by compose(), not by   *)
(* the construct tree.                                                      *)
CollisionsAreTyped == Len(calls) = 1 => err # "ConstructTreeDuplicate"

(***************************************************************************)
(* What a system promises: SystemBuild, over the builders alone, ordered   *)
(* by the dependencies of everything they are nested in.                   *)
(***************************************************************************)
LiftedDeps ==
  {e \in Leaves \X Leaves :
     \E n \in Inner : \E d \in deps[n] : e[1] \in Under[d] /\ e[2] \in Under[n]}

StateOf == CASE pc = "building" -> "running"
             [] pc = "returned" -> "complete"
             [] pc = "threw" -> "failed"
             [] OTHER -> "idle"

Flat == INSTANCE SystemBuild
          WITH Builders <- Leaves, before <- LiftedDeps,
               state <- StateOf, done <- built \cap Leaves

RefinesSystemBuild == Flat!Spec
=============================================================================
