------------------------ MODULE ComposeScopingProofs ------------------------
(***************************************************************************)
(* More proofs about Compose: what the scope, the id and the context of a  *)
(* component are made of, which constructs a build leaves, and what the    *)
(* hooks see; for every tree, every declaration, and any number of builds. *)
(***************************************************************************)
EXTENDS ComposeProofs, FiniteSetTheorems, SequenceTheorems

(***************************************************************************)
(* Trees.                                                                  *)
(***************************************************************************)
(* What is under a node is the node, or has its parent under the node.     *)
LEMMA UnderParent ==
  ASSUME NEW a \in Nodes, NEW n \in Under[a], n # a
  PROVE  n \in Inner /\ Parent[n] \in Under[a]
<1> DEFINE C == {m \in Under[a] : m = a \/ (m \in Inner /\ Parent[m] \in Under[a])}
<1>1. C \in SUBSET Nodes /\ a \in C
  BY UnderSelf DEF Under
<1>2. ASSUME NEW m \in Inner, Parent[m] \in C PROVE m \in C
  <2>1. m \in Under[a]
    BY <1>2, TreeFacts DEF Under
  <2> QED
    BY <1>2, <2>1
<1> HIDE DEF C
<1>3. Under[a] \subseteq C
  BY <1>1, <1>2, UnderInduction
<1> QED
  BY <1>3 DEF C

(* A node is under whatever its parent is under.                           *)
LEMMA UnderChild ==
  ASSUME NEW a \in Nodes, NEW n \in Inner, Parent[n] \in Under[a]
  PROVE  n \in Under[a]
BY TreeFacts DEF Under

(* So a node other than a is under a exactly when its parent is.           *)
LEMMA UnderIff ==
  ASSUME NEW n \in Inner, NEW a \in Nodes, a # n
  PROVE  n \in Under[a] <=> Parent[n] \in Under[a]
BY UnderParent, UnderChild

(* Nothing but the root is above the root.                                 *)
LEMMA RootOnTop == \A a \in Nodes : Root \in Under[a] => a = Root
BY UnderParent DEF Inner

(* "Under" is transitive.                                                  *)
LEMMA UnderTransitive ==
  ASSUME NEW a \in Nodes, NEW b \in Under[a]
  PROVE  b \in Nodes /\ Under[b] \subseteq Under[a]
<1>1. b \in Nodes /\ Under[a] \in SUBSET Nodes
  BY DEF Under
<1>2. \A m \in Inner : Parent[m] \in Under[a] => m \in Under[a]
  BY UnderChild
<1> QED
  BY <1>1, <1>2, UnderInduction

(* Induction from the root: what holds of it and of the children of every  *)
(* node it holds of holds of all.                                          *)
LEMMA TreeInduction ==
  ASSUME NEW C \in SUBSET Nodes, Root \in C,
         \A m \in Inner : Parent[m] \in C => m \in C
  PROVE  C = Nodes
BY UnderInduction, TreeFacts, RootedAssumption

(* And it is antisymmetric: no node is nested in what is nested in it.     *)
LEMMA UnderAntisymmetric ==
  ASSUME NEW a \in Nodes, NEW m \in Under[a], a \in Under[m]
  PROVE  m = a
<1> SUFFICES ASSUME m # a PROVE FALSE
  OBVIOUS
<1> DEFINE K == {x \in Under[a] : a \in Under[x]}
           C == Nodes \ K
<1>0. m \in Nodes /\ a \in K /\ m \in K /\ K \subseteq Nodes
  BY UnderSelf, UnderTransitive
<1>1. Root \in C
  <2> SUFFICES ASSUME Root \in K PROVE FALSE
    BY TreeFacts
  <2>1. Root \in Under[a] /\ a = Root
    BY RootOnTop
  <2> QED
    BY <1>0, <2>1, RootOnTop
<1>2. ASSUME NEW y \in Inner, Parent[y] \in C PROVE y \in C
  <2> SUFFICES ASSUME y \in K PROVE Parent[y] \in K
    BY <1>2, TreeFacts
  <2>1. CASE y # a
    <3>1. Parent[y] \in Under[a]
      BY <2>1, UnderParent
    <3>2. Parent[y] \in Nodes /\ y \in Under[Parent[y]]
      BY TreeFacts, UnderSelf, UnderChild
    <3>3. a \in Under[Parent[y]]
      BY <3>2, UnderTransitive
    <3> QED
      BY <3>1, <3>3
  <2>2. CASE y = a
    <3>1. Parent[a] \in Under[m]
      BY <1>0, <2>2, UnderParent
    <3>2. Parent[a] \in Under[a]
      BY <1>0, <3>1, UnderTransitive
    <3>3. Parent[a] \in Nodes /\ a \in Under[Parent[a]]
      BY <2>2, TreeFacts, UnderSelf, UnderChild
    <3> QED
      BY <2>2, <3>2, <3>3
  <2> QED
    BY <2>1, <2>2
<1> HIDE DEF C
<1>3. C = Nodes
  <2>1. C \in SUBSET Nodes
    BY DEF C
  <2> QED
    BY <1>1, <1>2, <2>1, TreeInduction
<1> QED
  BY <1>0, <1>3 DEF C

(***************************************************************************)
(* Hooks.                                                                  *)
(***************************************************************************)
(* A hook of a system has run only when its components are built.          *)
HookInv == \A s \in Systems : hooksRun[s] > 0 => Children(s) \subseteq built

LEMMA HookInvStep == FrameInv /\ HookInv /\ [Next]_vars => HookInv'
<1> SUFFICES ASSUME FrameInv, HookInv, [Next]_vars PROVE HookInv'
  OBVIOUS
<1>0. hooksRun \in [Systems -> 0..MaxHooks]
  BY DEF FrameInv, TypeOK
<1>1. ASSUME hooksRun' = hooksRun, built \subseteq built' PROVE HookInv'
  BY <1>1 DEF HookInv
<1>2. ASSUME NEW s \in Systems, RunHook(s) PROVE HookInv'
  <2>1. Children(s) \subseteq built /\ built' = built
        /\ hooksRun' = [hooksRun EXCEPT ![s] = @ + 1]
    BY <1>2 DEF RunHook, LoopDone
  <2> QED
    BY <1>0, <2>1 DEF HookInv
<1>3. ASSUME NEW c \in Calls, NEW outer \in OuterContexts, CallBuild(c[1], c[2], outer)
      PROVE HookInv'
  BY <1>3 DEF CallBuild, HookInv
<1>4. ASSUME NEW s \in Systems, \/ ComposeSystem(s) \/ AfterBuild(s)
                               \/ HookThrows(s) \/ ReturnSystem(s)
      PROVE HookInv'
  BY <1>1, <1>4 DEF ComposeSystem, AfterBuild, HookThrows, ReturnSystem, frame
<1>5. ASSUME NEW s \in Systems, NEW n \in Children(s),
             \/ DuplicateId(s, n) \/ OpenSystem(s, n)
             \/ \E w \in Wants : BuildLeaf(s, n, w) \/ \E e \in Errors : LeafThrows(s, n, w, e)
      PROVE HookInv'
  BY <1>1, <1>5 DEF DuplicateId, OpenSystem, BuildLeaf, LeafThrows
<1>6. CASE UNCHANGED vars
  BY <1>1, <1>6 DEF vars, frame
<1> QED
  BY <1>2, <1>3, <1>4, <1>5, <1>6 DEF Next, BuildStep

(* An after-build hook sees a finished system: when the first of them runs *)
(* everything nested in the system, at any depth, has been built, and it   *)
(* stays so (ConfiguredLifecycle.build runs the hooks after #buildWith).   *)
THEOREM HooksAfterEverything == Spec => []HooksSeeEverything
<1>1. Init => HookInv
  BY DEF Init, HookInv
<1>2. FrameInv /\ HookInv => HooksSeeEverything
  <2> SUFFICES ASSUME FrameInv, HookInv, NEW s \in Systems, hooksRun[s] > 0
               PROVE  Under[s] \ {s} \subseteq built
    BY DEF HooksSeeEverything
  <2> DEFINE C == {s} \cup built
  <2>1. C \in SUBSET Nodes /\ s \in C /\ s \in Nodes
    BY TreeFacts DEF FrameInv, TypeOK
  <2>2. ASSUME NEW m \in Inner, Parent[m] \in C PROVE m \in C
    BY <2>2 DEF FrameInv, HookInv, Downward, Children
  <2> HIDE DEF C
  <2>3. Under[s] \subseteq C
    BY <2>1, <2>2, UnderInduction
  <2> QED
    BY <2>3 DEF C
<1> QED
  BY <1>1, <1>2, HookInvStep, FrameInvariant, PTL DEF Spec

(***************************************************************************)
(* Scopes, ids, contexts and constructs.                                   *)
(***************************************************************************)
(* In a build that has not thrown: the root has the arguments of the call, *)
(* every other component what #buildWith derives for it from its system.   *)
Walking == pc \in {"building", "returned"}
RootCalled == Walking => /\ calls # <<>>
                         /\ <<scopeOf[Root], idOf[Root]>> = calls[Len(calls)]
Derived(n) == /\ scopeOf[n] = ScopeFor(Parent[n], n)
              /\ idOf[n] = IdFor(Parent[n], n)
              /\ ctx[n] = ContextFor(Parent[n], n)
AllDerived == Walking => \A n \in Entered \cap Inner : Derived(n)
Reached == /\ pc = "building" => Root \in open
           /\ pc = "returned" => built = Nodes

\* idsByScope of a system has the slots of its components, no more, no less.
UsedIsEntered ==
  pc = "building" =>
    \A s \in Systems : used[s] = {<<scopeOf[m], idOf[m]>> : m \in Children(s) \cap Entered}

\* The constructs of this build are those of the leaves it has built, each where
\* its leaf derives it; those of all builds have a slot each, and a leaf has one
\* of each build under each of its names.
PlaceIn(n, x) == <<scopeOf[n], Extended(idOf[n], x)>>
MadeByBuilt ==
  Walking =>
    /\ \A c \in constructs :
         c.run = Len(calls) => c.by \in built /\ c.slot = PlaceIn(c.by, c.as)
    /\ \A n \in Leaves \cap built : \A x \in Makes[n] :
         \E c \in constructs : c.by = n /\ c.as = x /\ c.run = Len(calls)
ConstructsApart ==
  /\ \A c, d \in constructs :
       c.slot = d.slot \/ (c.by = d.by /\ c.as = d.as /\ c.run = d.run) => c = d
  /\ \A c \in constructs : c.run \in 1..Len(calls) /\ c.as \in Makes[c.by]

\* The slots a call of build() gives the components, whether they are reached
\* or not: a construct is where its own call put it.
SlotsOf(f, call) ==
  /\ f[Root] = call
  /\ \A n \in Inner :
       f[n] = <<IF route[n] = Inherit THEN f[Parent[n]][1] ELSE route[n],
                IF pin[n] = NoPin THEN Append(f[Parent[n]][2], KeyOf[n]) ELSE pin[n]>>
Repeatable ==
  \A c \in constructs : \A f \in [Nodes -> Scopes \X Ids] :
    SlotsOf(f, calls[c.run]) => c.slot = <<f[c.by][1], Extended(f[c.by][2], c.as)>>

WalkInv == RootCalled /\ AllDerived /\ Reached /\ UsedIsEntered
ConstructInv == MadeByBuilt /\ ConstructsApart /\ Repeatable

(* Entering a component derives its scope, id and context, and leaves those *)
(* of every component entered before as they were derived.                  *)
LEMMA EnterDerives ==
  ASSUME FrameInv, WalkInv, NEW s \in Systems, NEW n \in Children(s), Current(s), Ready(s, n),
         Enter(s, n), UNCHANGED <<deps, pin, route>>
  PROVE  /\ n \notin Entered /\ n # Root /\ n \in Inner /\ Parent[n] = s /\ s \in Entered
         /\ \A m \in Nodes \ {n} : /\ scopeOf'[m] = scopeOf[m] /\ idOf'[m] = idOf[m]
                                  /\ ctx'[m] = ctx[m]
         /\ <<scopeOf'[n], idOf'[n]>> = SlotFor(s, n)
         /\ \A m \in (Entered \cup {n}) \cap Inner : Derived(m)'
         /\ \A t \in Systems : used'[t] = IF t = s THEN used[t] \cup {SlotFor(s, n)} ELSE used[t]
<1>1. /\ n \in Inner /\ Parent[n] = s /\ s \in open /\ s # n /\ n \notin Entered
      /\ pc = "building" /\ n \in Nodes /\ n # Root
      /\ \A m \in Inner : Parent[m] = n => m \notin Entered
  BY ReadyFacts, TreeFacts DEF Entered
<1>2. TypeOK /\ Entered \subseteq Nodes
  BY TreeFacts DEF FrameInv, TypeOK, Entered
<1>3. /\ scopeOf' = [scopeOf EXCEPT ![n] = ScopeFor(s, n)]
      /\ idOf' = [idOf EXCEPT ![n] = IdFor(s, n)]
      /\ ctx' = [ctx EXCEPT ![n] = ContextFor(s, n)]
      /\ used' = [used EXCEPT ![s] = @ \cup {SlotFor(s, n)}]
  BY DEF Enter
<1>4. \A m \in Nodes \ {n} : scopeOf'[m] = scopeOf[m] /\ idOf'[m] = idOf[m] /\ ctx'[m] = ctx[m]
  BY <1>2, <1>3 DEF TypeOK
<1>5. scopeOf'[n] = ScopeFor(s, n) /\ idOf'[n] = IdFor(s, n) /\ ctx'[n] = ContextFor(s, n)
  BY <1>1, <1>2, <1>3 DEF TypeOK
<1>6. \A t \in Systems : used'[t] = IF t = s THEN used[t] \cup {SlotFor(s, n)} ELSE used[t]
  BY <1>2, <1>3 DEF TypeOK
<1>7. ASSUME NEW m \in (Entered \cup {n}) \cap Inner PROVE Derived(m)'
  <2>1. Parent[m] # n /\ Parent[m] \in Nodes
    BY <1>1, <1>7, TreeFacts
  <2>2. /\ ScopeFor(Parent[m], m)' = ScopeFor(Parent[m], m)
        /\ IdFor(Parent[m], m)' = IdFor(Parent[m], m)
        /\ ContextFor(Parent[m], m)' = ContextFor(Parent[m], m)
    BY <1>4, <2>1 DEF ScopeFor, IdFor, ContextFor, DepKeys
  <2>3. CASE m = n
    BY <1>1, <1>5, <2>2, <2>3 DEF Derived
  <2>4. CASE m # n
    <3>1. m \in Entered \cap Inner /\ m \in Nodes \ {n}
      BY <1>2, <1>7, <2>4
    <3>2. Derived(m)
      BY <1>1, <3>1 DEF WalkInv, AllDerived, Walking
    <3> QED
      BY <1>4, <2>2, <3>1, <3>2 DEF Derived
  <2> QED
    BY <2>3, <2>4
<1> QED
  BY <1>1, <1>4, <1>5, <1>6, <1>7 DEF SlotFor, Entered

(* Entering a component keeps the invariant of the walk.                   *)
LEMMA EnterKeepsWalk ==
  ASSUME FrameInv, WalkInv, NEW s \in Systems, NEW n \in Children(s), Current(s), Ready(s, n),
         Enter(s, n), UNCHANGED <<deps, pin, route, calls, pc>>, Entered' = Entered \cup {n},
         open \subseteq open'
  PROVE  WalkInv'
<1>1. /\ n \notin Entered /\ n # Root /\ n \in Inner /\ Parent[n] = s /\ s \in Entered
      /\ \A m \in Nodes \ {n} : scopeOf'[m] = scopeOf[m] /\ idOf'[m] = idOf[m]
      /\ <<scopeOf'[n], idOf'[n]>> = SlotFor(s, n)
      /\ \A m \in (Entered \cup {n}) \cap Inner : Derived(m)'
      /\ \A t \in Systems : used'[t] = IF t = s THEN used[t] \cup {SlotFor(s, n)} ELSE used[t]
  BY EnterDerives
<1>2. pc = "building" /\ pc' = "building" /\ Entered \subseteq Nodes
  BY TreeFacts DEF Current, FrameInv, TypeOK, Entered
<1>3. RootCalled' /\ AllDerived' /\ Reached'
  BY <1>1, <1>2, TreeFacts DEF WalkInv, RootCalled, AllDerived, Reached, Walking
<1>4. UsedIsEntered'
  <2> SUFFICES ASSUME NEW t \in Systems
               PROVE  used'[t] = {<<scopeOf'[m], idOf'[m]>> : m \in Children(t) \cap (Entered \cup {n})}
    BY DEF UsedIsEntered
  <2>1. used[t] = {<<scopeOf[m], idOf[m]>> : m \in Children(t) \cap Entered}
    BY <1>2 DEF WalkInv, UsedIsEntered
  <2>2. used[t] = {<<scopeOf'[m], idOf'[m]>> : m \in Children(t) \cap Entered}
    BY <1>1, <1>2, <2>1
  <2>3. CASE t = s
    <3>1. n \in Children(t) /\ used'[t] = used[t] \cup {<<scopeOf'[n], idOf'[n]>>}
      BY <1>1, <2>3
    <3> QED
      BY <2>2, <3>1
  <2>4. CASE t # s
    <3>1. n \notin Children(t) /\ used'[t] = used[t]
      BY <1>1, <2>4 DEF Children
    <3> QED
      BY <2>2, <3>1
  <2> QED
    BY <2>3, <2>4
<1> QED
  BY <1>3, <1>4 DEF WalkInv

(* Every step keeps it.                                                    *)
LEMMA WalkInvStep == FrameInv /\ FrameInv' /\ WalkInv /\ [Next]_vars => WalkInv'
<1> SUFFICES ASSUME FrameInv, FrameInv', WalkInv, [Next]_vars PROVE WalkInv'
  OBVIOUS
<1> USE DEF config, frame
<1>1. ASSUME pc' \notin {"building", "returned"} PROVE WalkInv'
  BY <1>1 DEF WalkInv, RootCalled, AllDerived, Reached, UsedIsEntered, Walking
<1>2. ASSUME UNCHANGED <<pc, calls, config, open, built, scopeOf, idOf, ctx, used>> PROVE WalkInv'
  BY <1>2 DEF WalkInv, RootCalled, AllDerived, Reached, UsedIsEntered, Walking, Entered,
              Derived, ScopeFor, IdFor, ContextFor, DepKeys
<1>3. ASSUME NEW s \in Systems, ComposeSystem(s) PROVE WalkInv'
  BY <1>1, <1>3 DEF ComposeSystem
<1>4. ASSUME NEW s \in Systems, AfterBuild(s) PROVE WalkInv'
  BY <1>2, <1>4 DEF AfterBuild
<1>5. ASSUME NEW c \in Calls, NEW outer \in OuterContexts, CallBuild(c[1], c[2], outer)
      PROVE WalkInv'
  <2>1. /\ calls \in Seq(Calls) /\ calls' = Append(calls, <<c[1], c[2]>>) /\ pc' = "building"
        /\ open' = {Root} /\ built' = {} /\ Root \in Nodes
        /\ scopeOf'[Root] = c[1] /\ idOf'[Root] = c[2] /\ \A s \in Systems : used'[s] = {}
    BY <1>5, TreeFacts DEF CallBuild, FrameInv, TypeOK
  <2>2. \A s \in Systems : Children(s) \cap {Root} = {}
    BY TreeFacts
  <2>3. c = <<c[1], c[2]>> /\ calls' = Append(calls, c)
    <3>1. c \in Scopes \X Ids
      BY ChoiceAssumption
    <3> QED
      BY <2>1, <3>1
  <2>4. calls' # <<>> /\ calls'[Len(calls')] = c
    BY <2>1, <2>3
  <2> QED
    BY <2>1, <2>2, <2>3, <2>4, TreeFacts
    DEF WalkInv, RootCalled, AllDerived, Reached, UsedIsEntered, Walking, Entered
<1>6. ASSUME NEW s \in Systems, NEW n \in Children(s), DuplicateId(s, n) PROVE WalkInv'
  BY <1>1, <1>6 DEF DuplicateId, Throw
<1>7. ASSUME NEW s \in Systems, NEW n \in Children(s), OpenSystem(s, n) PROVE WalkInv'
  BY <1>7, EnterKeepsWalk DEF OpenSystem, Entered
<1>8. ASSUME NEW s \in Systems, NEW n \in Children(s), NEW w \in Wants, BuildLeaf(s, n, w)
      PROVE WalkInv'
  BY <1>8, EnterKeepsWalk DEF BuildLeaf, Entered
<1>9. ASSUME NEW s \in Systems, NEW n \in Children(s), NEW w \in Wants, NEW e \in Errors,
             LeafThrows(s, n, w, e)
      PROVE WalkInv'
  BY <1>1, <1>9 DEF LeafThrows, Throw
<1>10. ASSUME NEW s \in Systems, RunHook(s) PROVE WalkInv'
  BY <1>2, <1>10 DEF RunHook
<1>11. ASSUME NEW s \in Systems, HookThrows(s) PROVE WalkInv'
  BY <1>1, <1>11 DEF HookThrows, Throw
<1>12. ASSUME NEW s \in Systems, ReturnSystem(s) PROVE WalkInv'
  <2>1. /\ Entered' = Entered /\ s \in open /\ built' = built \cup {s} /\ open' = open \ {s}
        /\ pc = "building" /\ pc' = (IF s = Root THEN "returned" ELSE pc)
        /\ UNCHANGED <<config, calls, scopeOf, idOf, ctx, used>>
    BY <1>12 DEF ReturnSystem, LoopDone, Current, Entered
  <2>2. RootCalled' /\ AllDerived' /\ UsedIsEntered'
    BY <2>1 DEF WalkInv, RootCalled, AllDerived, UsedIsEntered, Walking,
                Derived, ScopeFor, IdFor, ContextFor, DepKeys
  <2>3. Reached'
    <3>1. CASE s # Root
      BY <2>1, <3>1 DEF WalkInv, Reached
    <3>2. CASE s = Root
      <4>1. built' \in SUBSET Nodes /\ Root \in built' /\ \A m \in Inner : Parent[m] \in built' => m \in built'
        BY <2>1, <3>2 DEF FrameInv, TypeOK, Downward
      <4> QED
        BY <2>1, <3>2, <4>1, TreeInduction DEF Reached
    <3> QED
      BY <3>1, <3>2
  <2> QED
    BY <2>2, <2>3 DEF WalkInv
<1>13. CASE UNCHANGED vars
  BY <1>2, <1>13 DEF vars
<1> QED
  BY <1>3, <1>4, <1>5, <1>6, <1>7, <1>8, <1>9, <1>10, <1>11, <1>12, <1>13 DEF Next, BuildStep

(* In every reachable state each component has what its system derives.    *)
THEOREM WalkInvariant == Spec => [](FrameInv /\ WalkInv)
<1>1. Init => WalkInv
  BY DEF Init, WalkInv, RootCalled, AllDerived, Reached, UsedIsEntered, Walking
<1> QED
  BY <1>1, WalkInvStep, FrameInvariant, PTL DEF Spec

(***************************************************************************)
(* Constructs.                                                             *)
(***************************************************************************)
(* The slots a call determines are those the components are entered with.  *)
LEMMA SlotsAreEntered ==
  ASSUME FrameInv, WalkInv, pc = "building", NEW f \in [Nodes -> Scopes \X Ids],
         SlotsOf(f, calls[Len(calls)]), NEW n \in Entered
  PROVE  f[n] = <<scopeOf[n], idOf[n]>>
<1> DEFINE C == {m \in Nodes : m \in Entered => f[m] = <<scopeOf[m], idOf[m]>>}
<1>1. Root \in C
  BY TreeFacts DEF WalkInv, RootCalled, Walking, SlotsOf
<1>2. ASSUME NEW m \in Inner, Parent[m] \in C PROVE m \in C
  <2> SUFFICES ASSUME m \in Entered PROVE f[m] = <<scopeOf[m], idOf[m]>>
    BY TreeFacts
  <2>1. Parent[m] \in Entered
    BY DEF FrameInv, Upward
  <2>2. f[Parent[m]] = <<scopeOf[Parent[m]], idOf[Parent[m]]>>
    BY <1>2, <2>1
  <2>3. scopeOf[m] = ScopeFor(Parent[m], m) /\ idOf[m] = IdFor(Parent[m], m)
    BY DEF WalkInv, AllDerived, Walking, Derived
  <2> QED
    BY <2>2, <2>3 DEF SlotsOf, ScopeFor, IdFor
<1> HIDE DEF C
<1>3. C = Nodes
  <2>1. C \in SUBSET Nodes
    BY DEF C
  <2> QED
    BY <1>1, <1>2, <2>1, TreeInduction
<1> QED
  BY <1>3, TreeFacts DEF C, FrameInv, TypeOK, Entered

(* A builder's own construct has its id, and two names are two ids.         *)
LEMMA ExtendedItself == \A id \in Ids : Extended(id, Itself) = id
<1> SUFFICES ASSUME NEW id \in Ids PROVE Extended(id, Itself) = id
  OBVIOUS
<1> DEFINE n == Len(id)
<1>1. n \in Nat \ {0} /\ id \in [1..n -> Segments]
  BY DEF Ids
<1>2. Glue(id[n], Itself) = id[n]
  BY <1>1, ValueAssumption
<1> HIDE DEF n
<1>3. [id EXCEPT ![n] = Glue(id[n], Itself)] = id
  BY <1>1, <1>2
<1> QED
  BY <1>3 DEF Extended, n

LEMMA ExtendedApart ==
  ASSUME NEW id \in Ids, NEW x \in Suffixes, NEW y \in Suffixes,
         Extended(id, x) = Extended(id, y)
  PROVE  x = y
<1>1. Len(id) \in Nat \ {0} /\ id[Len(id)] \in Segments
  BY DEF Ids
<1>2. Glue(id[Len(id)], x) = Glue(id[Len(id)], y)
  BY ExtendedType
<1> QED
  BY <1>1, <1>2, ValueAssumption

(* The constructs a leaf makes have slots nobody had, are the first of     *)
(* their names in this build, and are where every repetition of the call   *)
(* would put them.                                                         *)
LEMMA NewConstructs ==
  ASSUME FrameInv, WalkInv, ConstructInv, NEW s \in Systems, NEW n \in Children(s), n \in Leaves,
         Current(s), Ready(s, n), UNCHANGED <<pin, route, calls>>,
         NEW some \in SUBSET Free(s, n), Create(s, n, some)
  PROVE  ConstructsApart' /\ Repeatable'
<1>1. /\ n \notin built /\ s \in Entered /\ pc = "building" /\ calls # <<>> /\ calls \in Seq(Calls)
      /\ n \in Inner /\ Parent[n] = s
  BY ReadyFacts DEF Entered, WalkInv, RootCalled, Walking, FrameInv, TypeOK
<1>2. Len(calls) \in 1..Len(calls)
  BY <1>1
<1>3. IdFor(s, n) \in Ids
  BY <1>1, SlotType DEF FrameInv
<1> DEFINE new == {Construct(s, n, x) : x \in some}
<1>4. constructs' = constructs \cup new
  BY DEF Create
<1>5. \A x \in some : x \in Makes[n] /\ x \in Suffixes /\ ~Taken(PlaceOf(s, n, x))
  BY ValueAssumption DEF Free
<1>6. \A x \in some : /\ Construct(s, n, x).slot = PlaceOf(s, n, x)
                      /\ Construct(s, n, x).by = n /\ Construct(s, n, x).as = x
                      /\ Construct(s, n, x).run = Len(calls)
  BY DEF Construct
<1>7. ASSUME NEW c \in new
      PROVE  /\ c.by = n /\ c.run = Len(calls) /\ c.as \in some
             /\ c.slot = PlaceOf(s, n, c.as) /\ c = Construct(s, n, c.as)
  BY <1>6, <1>7
<1>8. ASSUME NEW c \in new, NEW d \in constructs
      PROVE  c.slot # d.slot /\ ~(c.by = d.by /\ c.run = d.run)
  BY <1>1, <1>5, <1>7, <1>8 DEF Taken, ConstructInv, MadeByBuilt, Walking
<1>9. ASSUME NEW c \in new, NEW d \in new, c.slot = d.slot \/ c.as = d.as
      PROVE  c = d
  <2>1. c.as \in some /\ d.as \in some
    BY <1>7
  <2>2. c.slot = d.slot => Extended(IdFor(s, n), c.as) = Extended(IdFor(s, n), d.as)
    BY <1>7 DEF PlaceOf
  <2>3. c.as = d.as
    BY <1>3, <1>5, <1>9, <2>1, <2>2, ExtendedApart
  <2> QED
    BY <1>7, <2>3
<1> HIDE DEF new
<1>10. ConstructsApart'
  <2>1. ASSUME NEW c \in constructs', NEW d \in constructs',
               c.slot = d.slot \/ (c.by = d.by /\ c.as = d.as /\ c.run = d.run)
        PROVE  c = d
    BY <1>4, <1>8, <1>9, <2>1 DEF ConstructInv, ConstructsApart
  <2>2. ASSUME NEW c \in constructs'
        PROVE  c.run \in 1..Len(calls') /\ c.as \in Makes[c.by]
    BY <1>2, <1>4, <1>5, <1>7, <2>2 DEF ConstructInv, ConstructsApart
  <2> QED
    BY <2>1, <2>2 DEF ConstructsApart
<1>11. ASSUME NEW f \in [Nodes -> Scopes \X Ids], SlotsOf(f, calls[Len(calls)])
       PROVE  f[n] = <<ScopeFor(s, n), IdFor(s, n)>>
  <2>1. f[s] = <<scopeOf[s], idOf[s]>>
    BY <1>1, <1>11, SlotsAreEntered
  <2> QED
    BY <1>1, <1>11, <2>1 DEF SlotsOf, ScopeFor, IdFor
<1>12. \A f, call : SlotsOf(f, call)' = SlotsOf(f, call)
  BY DEF SlotsOf
<1>13. Repeatable'
  <2> SUFFICES ASSUME NEW c \in constructs', NEW f \in [Nodes -> Scopes \X Ids],
                      SlotsOf(f, calls[c.run])
               PROVE  c.slot = <<f[c.by][1], Extended(f[c.by][2], c.as)>>
    BY <1>12 DEF Repeatable
  <2>1. CASE c \in constructs
    BY <2>1 DEF ConstructInv, Repeatable
  <2>2. CASE c \in new
    BY <1>7, <1>11, <2>2 DEF PlaceOf
  <2> QED
    BY <1>4, <2>1, <2>2
<1> QED
  BY <1>10, <1>13

(* Every step keeps the invariant of the constructs.                       *)
LEMMA ConstructInvStep ==
  FrameInv /\ WalkInv /\ ConstructInv /\ [Next]_vars => ConstructInv'
<1> SUFFICES ASSUME FrameInv, WalkInv, ConstructInv, [Next]_vars PROVE ConstructInv'
  OBVIOUS
<1> USE DEF config, frame
<1>0. calls \in Seq(Calls) /\ built \subseteq Nodes
  BY DEF FrameInv, TypeOK
<1>1. ASSUME UNCHANGED <<pin, route, calls, constructs>> PROVE ConstructsApart' /\ Repeatable'
  BY <1>1 DEF ConstructInv, ConstructsApart, Repeatable, SlotsOf
<1>2. ASSUME pc' \notin {"building", "returned"} PROVE MadeByBuilt'
  BY <1>2 DEF MadeByBuilt, Walking
<1>3. ASSUME UNCHANGED <<calls, constructs>>, Walking' => Walking,
             \A m \in built : scopeOf'[m] = scopeOf[m] /\ idOf'[m] = idOf[m],
             built' \cap Leaves = built \cap Leaves, built \subseteq built'
      PROVE  MadeByBuilt'
  BY <1>3 DEF ConstructInv, MadeByBuilt, PlaceIn
<1>4. ASSUME NEW s \in Systems, ComposeSystem(s) PROVE ConstructInv'
  BY <1>1, <1>2, <1>4 DEF ComposeSystem, ConstructInv
<1>5. ASSUME NEW s \in Systems, AfterBuild(s) PROVE ConstructInv'
  BY <1>1, <1>3, <1>5 DEF AfterBuild, ConstructInv, Walking
<1>6. ASSUME NEW c \in Calls, NEW outer \in OuterContexts, CallBuild(c[1], c[2], outer)
      PROVE ConstructInv'
  <2>1. /\ calls' = Append(calls, <<c[1], c[2]>>) /\ built' = {}
        /\ UNCHANGED <<pin, route, constructs>>
    BY <1>6 DEF CallBuild
  <2>2. Len(calls') = Len(calls) + 1 /\ \A r \in 1..Len(calls) : calls'[r] = calls[r]
    BY <1>0, <2>1
  <2>3. \A k \in constructs : k.run \in 1..Len(calls)
    BY DEF ConstructInv, ConstructsApart
  <2>4. MadeByBuilt'
    BY <2>1, <2>2, <2>3, <1>0 DEF MadeByBuilt
  <2>5. ConstructsApart'
    BY <2>1, <2>2, <2>3, <1>0 DEF ConstructInv, ConstructsApart
  <2>6. Repeatable'
    BY <2>1, <2>2, <2>3 DEF ConstructInv, Repeatable, SlotsOf
  <2> QED
    BY <2>4, <2>5, <2>6 DEF ConstructInv
<1>7. ASSUME NEW s \in Systems, NEW n \in Children(s), DuplicateId(s, n) PROVE ConstructInv'
  BY <1>1, <1>2, <1>7 DEF DuplicateId, Throw, ConstructInv
<1>8. ASSUME NEW s \in Systems, NEW n \in Children(s), OpenSystem(s, n) PROVE ConstructInv'
  <2>1. \A m \in Nodes \ {n} : scopeOf'[m] = scopeOf[m] /\ idOf'[m] = idOf[m]
    BY <1>8, EnterDerives DEF OpenSystem
  <2>2. n \notin built
    BY <1>8, ReadyFacts DEF OpenSystem
  <2>3. /\ UNCHANGED <<pin, route, calls, constructs, pc>> /\ built' = built
    BY <1>8 DEF OpenSystem
  <2> QED
    BY <1>0, <1>1, <1>3, <2>1, <2>2, <2>3 DEF ConstructInv, Walking
<1>9. ASSUME NEW s \in Systems, NEW n \in Children(s), NEW w \in Wants, BuildLeaf(s, n, w)
      PROVE ConstructInv'
  <2>1. /\ Current(s) /\ Ready(s, n) /\ n \in Leaves /\ Free(s, n) = Makes[n] /\ Enter(s, n)
        /\ Create(s, n, Makes[n]) /\ built' = built \cup {n}
        /\ UNCHANGED <<config, calls, pc>> /\ pc = "building"
    BY <1>9 DEF BuildLeaf, Current
  <2>2. /\ \A m \in Nodes \ {n} : scopeOf'[m] = scopeOf[m] /\ idOf'[m] = idOf[m]
        /\ <<scopeOf'[n], idOf'[n]>> = SlotFor(s, n) /\ n \notin built
    BY <2>1, EnterDerives DEF Entered
  <2>3. /\ \A m \in built : \A x : PlaceIn(m, x)' = PlaceIn(m, x)
        /\ \A x : PlaceIn(n, x)' = PlaceOf(s, n, x)
    BY <1>0, <2>2 DEF PlaceIn, PlaceOf, SlotFor
  <2>4. \A x : /\ Construct(s, n, x).slot = PlaceOf(s, n, x) /\ Construct(s, n, x).by = n
               /\ Construct(s, n, x).as = x /\ Construct(s, n, x).run = Len(calls)
    BY DEF Construct
  <2>5. MadeByBuilt'
    <3>1. ASSUME NEW c \in constructs', c.run = Len(calls')
          PROVE  c.by \in built' /\ c.slot = PlaceIn(c.by, c.as)'
      <4>1. CASE c \in constructs
        <5>1. c.by \in built /\ c.slot = PlaceIn(c.by, c.as)
          BY <2>1, <3>1, <4>1 DEF ConstructInv, MadeByBuilt, Walking
        <5> QED
          BY <2>1, <2>3, <5>1
      <4>2. CASE c \notin constructs
        <5>1. PICK x \in Makes[n] : c = Construct(s, n, x)
          BY <2>1, <4>2 DEF Create
        <5> QED
          BY <2>1, <2>3, <2>4, <5>1
      <4> QED
        BY <4>1, <4>2
    <3>2. ASSUME NEW l \in Leaves \cap built', NEW x \in Makes[l]
          PROVE  \E c \in constructs' : c.by = l /\ c.as = x /\ c.run = Len(calls')
      <4>1. CASE l = n
        BY <2>1, <2>4, <4>1 DEF Create
      <4>2. CASE l # n
        BY <2>1, <3>2, <4>2 DEF ConstructInv, MadeByBuilt, Walking, Create
      <4> QED
        BY <4>1, <4>2
    <3> QED
      BY <3>1, <3>2 DEF MadeByBuilt
  <2>6. ConstructsApart' /\ Repeatable'
    BY <2>1, NewConstructs
  <2> QED
    BY <2>5, <2>6 DEF ConstructInv
<1>10. ASSUME NEW s \in Systems, NEW n \in Children(s), NEW w \in Wants, NEW e \in Errors,
              LeafThrows(s, n, w, e)
       PROVE ConstructInv'
  <2>1. MadeByBuilt'
    BY <1>2, <1>10 DEF LeafThrows, Throw
  <2>2. /\ Current(s) /\ Ready(s, n) /\ n \in Leaves /\ UNCHANGED <<pin, route, calls>>
        /\ \E some \in SUBSET Free(s, n) : Create(s, n, some)
    BY <1>10 DEF LeafThrows, Throw
  <2> QED
    BY <2>1, <2>2, NewConstructs DEF ConstructInv
<1>11. ASSUME NEW s \in Systems, RunHook(s) PROVE ConstructInv'
  BY <1>1, <1>3, <1>11 DEF RunHook, ConstructInv, Walking
<1>12. ASSUME NEW s \in Systems, HookThrows(s) PROVE ConstructInv'
  BY <1>1, <1>2, <1>12 DEF HookThrows, Throw, ConstructInv
<1>13. ASSUME NEW s \in Systems, ReturnSystem(s) PROVE ConstructInv'
  <2>1. /\ UNCHANGED <<pin, route, calls, constructs, scopeOf, idOf>> /\ pc = "building"
        /\ built' = built \cup {s} /\ s \notin Leaves
    BY <1>13 DEF ReturnSystem, LoopDone, Current, Leaves
  <2> QED
    BY <1>1, <1>3, <2>1 DEF ConstructInv, Walking
<1>14. CASE UNCHANGED vars
  BY <1>1, <1>3, <1>14 DEF vars, ConstructInv, Walking
<1> QED
  BY <1>4, <1>5, <1>6, <1>7, <1>8, <1>9, <1>10, <1>11, <1>12, <1>13, <1>14 DEF Next, BuildStep

(* In every reachable state each construct is the only one of its slot, of *)
(* its leaf and build, and where its call put it.                          *)
THEOREM ConstructInvariant == Spec => [](FrameInv /\ WalkInv /\ ConstructInv)
<1>1. Init => ConstructInv
  BY DEF Init, ConstructInv, MadeByBuilt, ConstructsApart, Repeatable, Walking
<1> QED
  BY <1>1, ConstructInvStep, WalkInvariant, PTL DEF Spec

(* A build makes each construct of a builder at most once, and a build     *)
(* that returns has made all of them, each at the scope and under the id   *)
(* build() was given (#buildWith calls component.build() once per key of   *)
(* the sorted graph).                                                      *)
THEOREM LeavesOnce == Spec => []EachLeafOnce
<1>1. FrameInv /\ WalkInv /\ ConstructInv => EachLeafOnce
  <2> SUFFICES ASSUME FrameInv, WalkInv, ConstructInv, NEW n \in Leaves
               PROVE  LET mine == {c \in constructs : c.by = n /\ c.run = Len(calls)} IN
                      /\ \A c, d \in mine : c.as = d.as => c = d
                      /\ pc = "returned" =>
                           {c.slot : c \in mine} = {<<scopeOf[n], Extended(idOf[n], x)>> : x \in Makes[n]}
    BY DEF EachLeafOnce
  <2> DEFINE mine == {c \in constructs : c.by = n /\ c.run = Len(calls)}
  <2>1. \A c, d \in mine : c.as = d.as => c = d
    BY DEF ConstructInv, ConstructsApart
  <2>2. ASSUME pc = "returned"
        PROVE  {c.slot : c \in mine} = {PlaceIn(n, x) : x \in Makes[n]}
    <3>1. n \in Leaves \cap built
      BY <2>2 DEF WalkInv, Reached, Leaves
    <3>2. \A c \in mine : c.slot = PlaceIn(n, c.as) /\ c.as \in Makes[n]
      BY <2>2 DEF ConstructInv, MadeByBuilt, ConstructsApart, Walking
    <3>3. \A x \in Makes[n] : \E c \in mine : c.as = x
      BY <2>2, <3>1 DEF ConstructInv, MadeByBuilt, Walking
    <3> QED
      BY <3>2, <3>3
  <2> QED
    BY <2>1, <2>2 DEF PlaceIn
<1> QED
  BY <1>1, ConstructInvariant, PTL

(* build() cannot be repeated where a build, failed or not, left anything: *)
(* a call with the same arguments gives the builder of what was left the   *)
(* same scope and id, and that slot is taken.                              *)
THEOREM NoSilentRetry == Spec => []RetryNeedsFreshScope
<1>1. FrameInv /\ WalkInv /\ ConstructInv => RetryNeedsFreshScope
  <2> SUFFICES ASSUME FrameInv, WalkInv, ConstructInv, pc = "returned",
                      NEW r \in 1..Len(calls)-1, calls[r] = calls[Len(calls)],
                      NEW c \in constructs, c.run = r
               PROVE  FALSE
    BY DEF RetryNeedsFreshScope
  <2> DEFINE f == [n \in Nodes |-> <<scopeOf[n], idOf[n]>>]
  <2>0. built = Nodes /\ c.by \in Leaves /\ calls \in Seq(Calls) /\ TypeOK
    BY DEF WalkInv, Reached, FrameInv, TypeOK
  <2>1. f \in [Nodes -> Scopes \X Ids]
    BY <2>0 DEF TypeOK
  <2>2. SlotsOf(f, calls[r])
    <3>1. f[Root] = calls[r]
      BY TreeFacts DEF WalkInv, RootCalled, Walking
    <3>2. ASSUME NEW n \in Inner
          PROVE  f[n] = <<IF route[n] = Inherit THEN f[Parent[n]][1] ELSE route[n],
                          IF pin[n] = NoPin THEN Append(f[Parent[n]][2], KeyOf[n]) ELSE pin[n]>>
      <4>1. Derived(n) /\ n \in Nodes /\ Parent[n] \in Nodes
        BY <2>0, TreeFacts DEF WalkInv, AllDerived, Walking, Entered
      <4> QED
        BY <4>1 DEF Derived, ScopeFor, IdFor
    <3> HIDE DEF f
    <3> QED
      BY <3>1, <3>2 DEF SlotsOf
  <2>3. c.slot = <<f[c.by][1], Extended(f[c.by][2], c.as)>>
    <3> HIDE DEF f
    <3> QED
      BY <2>1, <2>2 DEF ConstructInv, Repeatable
  <2>4. c.by \in Nodes /\ c.as \in Makes[c.by] /\ c.slot = PlaceIn(c.by, c.as)
    BY <2>0, <2>3 DEF Leaves, PlaceIn, ConstructInv, ConstructsApart
  <2>5. PICK d \in constructs : d.by = c.by /\ d.as = c.as /\ d.run = Len(calls)
    BY <2>0, <2>4 DEF ConstructInv, MadeByBuilt, Walking
  <2>6. d.slot = c.slot
    BY <2>4, <2>5 DEF ConstructInv, MadeByBuilt, Walking
  <2>7. d = c
    BY <2>6 DEF ConstructInv, ConstructsApart
  <2> QED
    BY <2>0, <2>5, <2>7
<1> QED
  BY <1>1, ConstructInvariant, PTL

(* A collision between the ids compose() hands out to two components of    *)
(* one system in one build is always the typed error: idsByScope has the   *)
(* slots of all components built so far, though not what a builder derives *)
(* from its own.                                                           *)
THEOREM HandedOutAreTyped == Spec => HandedOutCollisionsAreTyped
<1> DEFINE Opaque ==
      \A s \in Systems, n \in Leaves, wants \in Wants :
        LeafThrows(s, n, wants, "ConstructTreeDuplicate") =>
          \A c \in constructs : c.slot = SlotFor(s, n) /\ c.as = Itself =>
            c.run < Len(calls) \/ Parent[c.by] # s
<1>1. FrameInv /\ WalkInv /\ ConstructInv => Opaque
  <2> SUFFICES ASSUME FrameInv, WalkInv, ConstructInv,
                      NEW s \in Systems, NEW n \in Leaves, NEW wants \in Wants,
                      LeafThrows(s, n, wants, "ConstructTreeDuplicate"),
                      NEW c \in constructs, c.slot = SlotFor(s, n), c.as = Itself,
                      ~(c.run < Len(calls)), Parent[c.by] = s
               PROVE  FALSE
    OBVIOUS
  <2>0. /\ Current(s) /\ Ready(s, n) /\ SlotFor(s, n) \notin used[s] /\ pc = "building"
        /\ calls \in Seq(Calls) /\ c.by \in Leaves
    BY DEF LeafThrows, Enter, Current, FrameInv, TypeOK
  <2>1. c.run = Len(calls)
    BY <2>0 DEF ConstructInv, ConstructsApart
  <2>2. c.by \in built /\ c.slot = PlaceIn(c.by, Itself)
    BY <2>0, <2>1 DEF ConstructInv, MadeByBuilt, Walking
  <2>3. idOf[c.by] \in Ids
    BY <2>0 DEF FrameInv, TypeOK, Leaves
  <2>4. c.slot = <<scopeOf[c.by], idOf[c.by]>>
    BY <2>2, <2>3, ExtendedItself DEF PlaceIn
  <2>5. c.by \in Children(s) \cap Entered
    BY <2>0, <2>2, TreeFacts DEF Children, Entered, Leaves, Inner
  <2> QED
    BY <2>0, <2>4, <2>5 DEF WalkInv, UsedIsEntered
<1> HIDE DEF Opaque
<1>2. Opaque => [Opaque]_vars
  OBVIOUS
<1>3. Spec => [][Opaque]_vars
  BY <1>1, ConstructInvariant, PTL
<1> QED
  BY <1>3 DEF Opaque, HandedOutCollisionsAreTyped

(***************************************************************************)
(* Ids.                                                                    *)
(***************************************************************************)
(* An id tells its enclosing id and its last key.                          *)
LEMMA LastKey ==
  \A i, j \in Ids, x, y \in Segments : Append(i, x) = Append(j, y) => i = j /\ x = y
BY AppendInjective DEF Ids

(* What is derived from an id of this form tells the enclosing id too, and *)
(* how the last key and the text after it spell.                           *)
LEMMA DerivedKey ==
  ASSUME NEW i \in Ids, NEW k \in Segments, NEW x \in Suffixes
  PROVE  Extended(Append(i, k), x) = Append(i, Glue(k, x))
<1> DEFINE n == Len(i) + 1
           S == Names \cup Segments
           a == Append(i, k)
           d == Extended(a, x)
           e == Append(i, Glue(k, x))
<1>1. /\ i \in Seq(Segments) /\ i \in Seq(S) /\ Len(i) \in Nat
      /\ Glue(k, x) \in S
  BY ValueAssumption DEF Ids
<1>2. /\ a \in Ids /\ Len(a) = n /\ a[n] = k
      /\ \A m \in 1..Len(i) : a[m] = i[m]
  BY <1>1, AppendProperties DEF Ids
<1>3. /\ d \in Seq(S) /\ Len(d) = n /\ d[n] = Glue(k, x)
      /\ \A m \in 1..n-1 : d[m] = a[m]
  <2> HIDE DEF a, n
  <2>1. /\ d \in Seq(Names \cup Segments) /\ Len(d) = Len(a)
        /\ d[Len(a)] = Glue(a[Len(a)], x)
        /\ \A m \in 1..Len(a)-1 : d[m] = a[m]
    BY <1>2, ExtendedType
  <2> QED
    BY <1>2, <2>1
<1>4. /\ e \in Seq(S) /\ Len(e) = n /\ e[n] = Glue(k, x)
      /\ \A m \in 1..Len(i) : e[m] = i[m]
  <2> DEFINE g == Glue(k, x)
  <2> HIDE DEF g, S
  <2>1. g \in S
    BY <1>1 DEF g
  <2> QED
    BY <1>1, <2>1, AppendProperties DEF g
<1> HIDE DEF a, d, e, S
<1>5. \A m \in 1..n : d[m] = e[m]
  BY <1>1, <1>2, <1>3, <1>4
<1>6. d = e
  BY <1>3, <1>4, <1>5, SeqEqual
<1> QED
  BY <1>6 DEF a, d, e

LEMMA LastName ==
  \A i, j \in Ids, x, y \in Names : Append(i, x) = Append(j, y) => i = j /\ x = y
<1>1. \A i \in Ids : i \in Seq(Names \cup Segments)
  BY DEF Ids
<1> QED
  BY <1>1, AppendInjective

NoPins == \A n \in Inner : pin[n] = NoPin

(* Without at(), two components of a build never have the same id: it is   *)
(* the id of the system with the component's key.                          *)
LEMMA IdsUnique ==
  ASSUME FrameInv, WalkInv, NoPins, pc = "building"
  PROVE  /\ \A x \in Entered \cap Inner :
              /\ Parent[x] \in Entered /\ idOf[x] = Append(idOf[Parent[x]], KeyOf[x])
              /\ KeyOf[x] \in Segments /\ idOf[Parent[x]] \in Ids
         /\ \A x \in Entered \cap Inner : Len(idOf[x]) > Len(idOf[Root])
         /\ \A x \in Entered : \A y \in Entered : idOf[x] = idOf[y] => x = y
<1>0. TypeOK /\ Entered \subseteq Nodes /\ Root \in Entered
  BY TreeFacts DEF FrameInv, TypeOK, Entered, WalkInv, Reached
<1>1. ASSUME NEW x \in Entered \cap Inner
      PROVE  /\ Parent[x] \in Entered /\ idOf[x] = Append(idOf[Parent[x]], KeyOf[x])
             /\ KeyOf[x] \in Segments /\ idOf[Parent[x]] \in Ids
  BY <1>0, TreeFacts, TreeAssumption, ValueAssumption
  DEF WalkInv, AllDerived, Walking, Derived, IdFor, NoPins, FrameInv, Upward, TypeOK
<1>2. \A x \in Entered \cap Inner : Len(idOf[x]) > Len(idOf[Root])
  <2> DEFINE C == {x \in Nodes : x \in Entered =>
                                   x = Root \/ Len(idOf[x]) > Len(idOf[Root])}
  <2>1. C \in SUBSET Nodes /\ Root \in C
    BY TreeFacts
  <2>2. ASSUME NEW x \in Inner, Parent[x] \in C PROVE x \in C
    <3> SUFFICES ASSUME x \in Entered PROVE Len(idOf[x]) > Len(idOf[Root])
      BY TreeFacts
    <3>1. /\ idOf[x] = Append(idOf[Parent[x]], KeyOf[x]) /\ idOf[Parent[x]] \in Seq(Segments)
          /\ idOf[Root] \in Seq(Segments)
      BY <1>0, <1>1 DEF TypeOK, Ids
    <3>2. Parent[x] = Root \/ Len(idOf[Parent[x]]) > Len(idOf[Root])
      BY <1>1, <2>2
    <3> QED
      BY <3>1, <3>2
  <2> HIDE DEF C
  <2>3. C = Nodes
    BY <2>1, <2>2, TreeInduction
  <2> QED
    BY <1>0, <2>3, TreeFacts DEF C
<1>3. \A x \in Entered : \A y \in Entered : idOf[x] = idOf[y] => x = y
  <2> DEFINE C == {x \in Nodes : x \in Entered =>
                                   \A y \in Entered : idOf[x] = idOf[y] => x = y}
  <2>1. C \in SUBSET Nodes /\ Root \in C
    <3>1. \A y \in Entered : idOf[Root] = idOf[y] => Root = y
      <4> SUFFICES ASSUME NEW y \in Entered, y # Root, idOf[Root] = idOf[y] PROVE FALSE
        OBVIOUS
      <4>1. Len(idOf[y]) > Len(idOf[Root]) /\ Len(idOf[Root]) \in Nat
        BY <1>0, <1>2 DEF Inner, TypeOK, Ids
      <4> QED
        BY <4>1
    <3> QED
      BY <3>1, TreeFacts
  <2>2. ASSUME NEW x \in Inner, Parent[x] \in C PROVE x \in C
    <3> SUFFICES ASSUME x \in Entered, NEW y \in Entered, idOf[x] = idOf[y] PROVE x = y
      BY TreeFacts
    <3>1. y \in Inner
      <4> SUFFICES ASSUME y = Root PROVE FALSE
        BY <1>0 DEF Inner
      <4>1. Len(idOf[x]) > Len(idOf[Root]) /\ Len(idOf[Root]) \in Nat
        BY <1>0, <1>2 DEF TypeOK, Ids
      <4> QED
        BY <4>1
    <3>2. Append(idOf[Parent[x]], KeyOf[x]) = Append(idOf[Parent[y]], KeyOf[y])
      BY <1>1, <3>1
    <3>3. idOf[Parent[x]] = idOf[Parent[y]] /\ KeyOf[x] = KeyOf[y]
      <4>1. /\ idOf[Parent[x]] \in Ids /\ KeyOf[x] \in Segments
            /\ idOf[Parent[y]] \in Ids /\ KeyOf[y] \in Segments
        BY <1>1, <3>1 DEF Ids
      <4> QED
        BY <3>2, <4>1, LastKey, SMTT(60)
    <3>4. Parent[x] = Parent[y]
      BY <1>1, <2>2, <3>1, <3>3
    <3> QED
      BY <3>1, <3>3, <3>4, TreeAssumption
  <2> HIDE DEF C
  <2>3. C = Nodes
    BY <2>1, <2>2, TreeInduction
  <2> QED
    BY <1>0, <2>3 DEF C
<1> QED
  BY <1>1, <1>2, <1>3

(* And the one about to be built has an id none has.                       *)
LEMMA IdsApart ==
  ASSUME FrameInv, WalkInv, NoPins, NEW s \in Systems, NEW n \in Children(s),
         Current(s), Ready(s, n), NEW m \in Entered
  PROVE  idOf[m] # IdFor(s, n)
<1> SUFFICES ASSUME idOf[m] = IdFor(s, n) PROVE FALSE
  OBVIOUS
<1>0. /\ pc = "building" /\ TypeOK /\ Entered \subseteq Nodes /\ Root \in Entered
      /\ s \in Entered /\ n \in Inner /\ Parent[n] = s /\ n \notin Entered
  BY ReadyFacts, TreeFacts DEF FrameInv, TypeOK, Entered, WalkInv, Reached
<1>1. /\ \A x \in Entered \cap Inner :
           /\ Parent[x] \in Entered /\ idOf[x] = Append(idOf[Parent[x]], KeyOf[x])
           /\ KeyOf[x] \in Segments /\ idOf[Parent[x]] \in Ids
      /\ \A x \in Entered \cap Inner : Len(idOf[x]) > Len(idOf[Root])
      /\ \A x \in Entered : \A y \in Entered : idOf[x] = idOf[y] => x = y
  BY <1>0, IdsUnique
<1>4. /\ IdFor(s, n) = Append(idOf[s], KeyOf[n]) /\ KeyOf[n] \in Segments
      /\ idOf[s] \in Seq(Segments) /\ idOf[Root] \in Seq(Segments)
  BY <1>0, TreeFacts, TreeAssumption, ValueAssumption DEF IdFor, NoPins, TypeOK, Ids
<1>5. m \in Inner
  <2> SUFFICES ASSUME m = Root PROVE FALSE
    BY <1>0 DEF Inner
  <2>1. s = Root \/ Len(idOf[s]) > Len(idOf[Root])
    BY <1>0, <1>1 DEF Inner
  <2>2. Len(Append(idOf[s], KeyOf[n])) = Len(idOf[s]) + 1
    BY <1>4
  <2> QED
    BY <1>4, <2>1, <2>2
<1>6. idOf[Parent[m]] = idOf[s] /\ KeyOf[m] = KeyOf[n]
  <2>1. /\ idOf[Parent[m]] \in Ids /\ KeyOf[m] \in Segments
        /\ idOf[s] \in Ids /\ KeyOf[n] \in Segments
    BY <1>1, <1>4, <1>5 DEF Ids
  <2>2. Append(idOf[Parent[m]], KeyOf[m]) = Append(idOf[s], KeyOf[n])
    BY <1>1, <1>4, <1>5
  <2> QED
    BY <2>1, <2>2, LastKey, SMTT(60)
<1>7. Parent[m] = s
  BY <1>0, <1>1, <1>5, <1>6
<1> QED
  BY <1>0, <1>5, <1>6, <1>7, TreeAssumption

(* Without at(), a construct in the way of the component about to be built *)
(* is of a sibling whose key, with what the builder appends, spells as the *)
(* component's own.                                                        *)
LEMMA TakenIsSpelled ==
  ASSUME FrameInv, WalkInv, ConstructInv, NoPins, Len(calls) = 1,
         NEW s \in Systems, NEW n \in Children(s), Current(s), Ready(s, n), n \in Leaves,
         NEW c \in constructs, NEW x \in Makes[n], c.slot = PlaceOf(s, n, x)
  PROVE  Parent[c.by] = s /\ Glue(KeyOf[c.by], c.as) = Glue(KeyOf[n], x)
<1> DEFINE b == c.by
<1>0. /\ pc = "building" /\ TypeOK /\ s \in Entered /\ n \in Inner /\ Parent[n] = s
  BY ReadyFacts DEF FrameInv, Entered
<1>1. c.run = Len(calls) /\ b \in Leaves /\ c.as \in Suffixes /\ x \in Suffixes
  BY <1>0, ValueAssumption DEF ConstructInv, ConstructsApart, TypeOK
<1>2. b \in built /\ c.slot = PlaceIn(b, c.as)
  BY <1>0, <1>1 DEF ConstructInv, MadeByBuilt, Walking
<1>3. b \in Entered \cap Inner
  BY <1>1, <1>2, TreeFacts DEF Entered, Leaves, Inner
<1>4. /\ Parent[b] \in Entered /\ idOf[b] = Append(idOf[Parent[b]], KeyOf[b])
      /\ KeyOf[b] \in Segments /\ idOf[Parent[b]] \in Ids
  BY <1>0, <1>3, IdsUnique
<1>5. /\ IdFor(s, n) = Append(idOf[s], KeyOf[n]) /\ KeyOf[n] \in Segments /\ idOf[s] \in Ids
  BY <1>0, TreeFacts, TreeAssumption, ValueAssumption DEF IdFor, NoPins, TypeOK
<1>6. Extended(idOf[b], c.as) = Extended(IdFor(s, n), x)
  BY <1>2 DEF PlaceIn, PlaceOf
<1>7. Append(idOf[Parent[b]], Glue(KeyOf[b], c.as)) = Append(idOf[s], Glue(KeyOf[n], x))
  BY <1>1, <1>4, <1>5, <1>6, DerivedKey
<1>8. Glue(KeyOf[b], c.as) \in Names /\ Glue(KeyOf[n], x) \in Names
  BY <1>1, <1>4, <1>5, ValueAssumption
<1>9. idOf[Parent[b]] = idOf[s] /\ Glue(KeyOf[b], c.as) = Glue(KeyOf[n], x)
  <2> DEFINE i == idOf[Parent[b]]
             j == idOf[s]
             y == Glue(KeyOf[b], c.as)
             z == Glue(KeyOf[n], x)
  <2>1. i \in Ids /\ j \in Ids /\ y \in Names /\ z \in Names /\ Append(i, y) = Append(j, z)
    BY <1>4, <1>5, <1>7, <1>8
  <2> HIDE DEF i, j, y, z
  <2>2. i = j /\ y = z
    BY <2>1, LastName
  <2> QED
    BY <2>2 DEF i, j, y, z
<1> QED
  BY <1>0, <1>4, <1>9, IdsUnique

\* No typed error on a first build without pins.
NoTypedError == Len(calls) = 1 /\ NoPins => err # "DuplicateConstructIdError"

(* Every step keeps it.                                                    *)
LEMMA NoTypedErrorStep == FrameInv /\ WalkInv /\ NoTypedError /\ [Next]_vars => NoTypedError'
<1> SUFFICES ASSUME FrameInv, WalkInv, NoTypedError, [Next]_vars, Len(calls') = 1, NoPins'
             PROVE  err' # "DuplicateConstructIdError"
  BY DEF NoTypedError
<1> USE DEF config, frame
<1>1. ASSUME UNCHANGED <<calls, pin, err>> PROVE err' # "DuplicateConstructIdError"
  BY <1>1 DEF NoTypedError, NoPins
<1>2. ASSUME NEW s \in Systems, ComposeSystem(s) PROVE err' # "DuplicateConstructIdError"
  BY <1>1, <1>2 DEF ComposeSystem
<1>3. ASSUME NEW s \in Systems, AfterBuild(s) \/ RunHook(s) \/ ReturnSystem(s)
      PROVE err' # "DuplicateConstructIdError"
  BY <1>1, <1>3 DEF AfterBuild, RunHook, ReturnSystem
<1>4. ASSUME NEW c \in Calls, NEW outer \in OuterContexts, CallBuild(c[1], c[2], outer)
      PROVE err' # "DuplicateConstructIdError"
  BY <1>4 DEF CallBuild
<1>5. ASSUME NEW s \in Systems, NEW n \in Children(s), DuplicateId(s, n) PROVE FALSE
  <2>1. Current(s) /\ Ready(s, n) /\ pc = "building" /\ SlotFor(s, n) \in used[s] /\ NoPins
    BY <1>5 DEF DuplicateId, Current, Throw, NoPins
  <2>2. PICK m \in Entered : SlotFor(s, n) = <<scopeOf[m], idOf[m]>>
    BY <2>1 DEF WalkInv, UsedIsEntered
  <2>3. idOf[m] # IdFor(s, n)
    BY <2>1, IdsApart
  <2> QED
    BY <2>2, <2>3 DEF SlotFor
<1>6. ASSUME NEW s \in Systems, NEW n \in Children(s), NEW w \in Wants, BuildLeaf(s, n, w)
      PROVE err' # "DuplicateConstructIdError"
  BY <1>1, <1>6 DEF BuildLeaf
<1>7. ASSUME NEW s \in Systems, NEW n \in Children(s), NEW w \in Wants, NEW e \in Errors,
             LeafThrows(s, n, w, e)
      PROVE err' # "DuplicateConstructIdError"
  BY <1>7 DEF LeafThrows, Throw
<1>8. ASSUME NEW s \in Systems, HookThrows(s) PROVE err' # "DuplicateConstructIdError"
  BY <1>8 DEF HookThrows, Throw
<1>9. ASSUME NEW s \in Systems, NEW n \in Children(s), OpenSystem(s, n)
      PROVE err' # "DuplicateConstructIdError"
  BY <1>1, <1>9 DEF OpenSystem
<1>10. CASE UNCHANGED vars
  BY <1>1, <1>10 DEF vars
<1> QED
  BY <1>2, <1>3, <1>4, <1>5, <1>6, <1>7, <1>8, <1>9, <1>10 DEF Next, BuildStep

(* Without at(), the ids compose() hands out never collide, whatever the   *)
(* stacks and the nesting: a first build() never throws the typed error,   *)
(* and the construct tree's only where a name one builder derives is also  *)
(* that of a sibling (compose.ts joins the id given to build() and the     *)
(* component's key, and nobody looks at what a builder appends to it).     *)
THEOREM UnpinnedAreSpelled == Spec => UnpinnedCollisionsAreSpelled
<1> DEFINE Clash ==
      Len(calls) = 1 /\ NoPins =>
        \A s \in Systems, n \in Leaves, wants \in Wants :
          LeafThrows(s, n, wants, "ConstructTreeDuplicate") =>
            \A c \in constructs, x \in Makes[n] : c.slot = PlaceOf(s, n, x) =>
              Parent[c.by] = s /\ Glue(KeyOf[c.by], c.as) = Glue(KeyOf[n], x)
    Untyped == Len(calls) = 1 /\ NoPins => err' # "DuplicateConstructIdError"
<1>1. Init => NoTypedError
  BY DEF Init, NoTypedError
<1>2. FrameInv /\ WalkInv /\ ConstructInv => Clash
  <2> SUFFICES ASSUME FrameInv, WalkInv, ConstructInv, NoPins, Len(calls) = 1,
                      NEW s \in Systems, NEW n \in Leaves, NEW wants \in Wants,
                      LeafThrows(s, n, wants, "ConstructTreeDuplicate"),
                      NEW c \in constructs, NEW x \in Makes[n], c.slot = PlaceOf(s, n, x)
               PROVE  Parent[c.by] = s /\ Glue(KeyOf[c.by], c.as) = Glue(KeyOf[n], x)
    OBVIOUS
  <2>1. Current(s) /\ Ready(s, n) /\ n \in Children(s)
    BY DEF LeafThrows, Ready
  <2> QED
    BY <2>1, TakenIsSpelled
<1>3. FrameInv /\ NoTypedError' /\ [Next]_vars => Untyped
  <2> SUFFICES ASSUME FrameInv, NoTypedError', [Next]_vars, Len(calls) = 1, NoPins
               PROVE  err' # "DuplicateConstructIdError"
    OBVIOUS
  <2>1. CASE UNCHANGED <<calls, pin>>
    BY <2>1 DEF NoTypedError, NoPins
  <2>2. CASE \E c \in Calls, outer \in OuterContexts : CallBuild(c[1], c[2], outer)
    BY <2>2 DEF CallBuild
  <2>3. CASE BuildStep
    BY <2>1, <2>3 DEF BuildStep, RunHook, HookThrows, ReturnSystem, DuplicateId, OpenSystem,
                      BuildLeaf, LeafThrows, Throw, config
  <2>4. CASE \E s \in Systems : ComposeSystem(s) \/ AfterBuild(s)
    BY <2>1, <2>4 DEF ComposeSystem, AfterBuild, config
  <2>5. CASE UNCHANGED vars
    BY <2>1, <2>5 DEF vars, config
  <2> QED
    BY <2>2, <2>3, <2>4, <2>5 DEF Next
<1> DEFINE Spelled ==
      Len(calls) = 1 /\ (\A n \in Inner : pin[n] = NoPin) =>
        /\ err' # "DuplicateConstructIdError"
        /\ \A s \in Systems, n \in Leaves, wants \in Wants :
             LeafThrows(s, n, wants, "ConstructTreeDuplicate") =>
               \A c \in constructs, x \in Makes[n] : c.slot = PlaceOf(s, n, x) =>
                 Parent[c.by] = s /\ Glue(KeyOf[c.by], c.as) = Glue(KeyOf[n], x)
<1>4. Clash /\ Untyped => Spelled
  BY Zenon DEF NoPins
<1> HIDE DEF Clash, Untyped, Spelled
<1>5. Spelled => [Spelled]_vars
  OBVIOUS
<1>6. Spec => [][Spelled]_vars
  BY <1>1, <1>2, <1>3, <1>4, <1>5, NoTypedErrorStep, ConstructInvariant, PTL DEF Spec
<1> QED
  BY <1>6 DEF Spelled, UnpinnedCollisionsAreSpelled

(***************************************************************************)
(* Contexts and pins: what the walk derives, read off the tree.            *)
(***************************************************************************)
(* While build() runs or after it returned, the system of a component that *)
(* was entered was entered too.                                            *)
LEMMA WalkingUp ==
  ASSUME FrameInv, WalkInv, Walking, NEW n \in Entered \cap Inner
  PROVE  Parent[n] \in Entered
BY TreeFacts DEF FrameInv, Upward, WalkInv, Reached, Walking, Entered

(* A build that stops walking leaves the ids and contexts of what it had   *)
(* built as they were.                                                     *)
LEMMA StoppingKeeps ==
  ASSUME FrameInv, [Next]_vars, ~Walking'
  PROVE  /\ deps' = deps /\ pin' = pin /\ Entered' \subseteq Entered
         /\ \A m \in Entered' \cup {Root} : idOf'[m] = idOf[m] /\ ctx'[m] = ctx[m]
<1> DEFINE Kept == /\ deps' = deps /\ pin' = pin /\ Entered' \subseteq Entered
                   /\ \A m \in Entered' \cup {Root} : idOf'[m] = idOf[m] /\ ctx'[m] = ctx[m]
<1> USE DEF config, frame
<1>1. ASSUME UNCHANGED <<config, built, idOf, ctx>>, open' = {} \/ open' = open PROVE Kept
  BY <1>1 DEF Entered
<1>2. ASSUME NEW s \in Systems, ComposeSystem(s) \/ AfterBuild(s) \/ RunHook(s) PROVE Kept
  BY <1>1, <1>2 DEF ComposeSystem, AfterBuild, RunHook
<1>3. ASSUME NEW s \in Systems, HookThrows(s) PROVE Kept
  BY <1>1, <1>3 DEF HookThrows, Throw
<1>4. ASSUME NEW s \in Systems, NEW n \in Children(s), DuplicateId(s, n) PROVE Kept
  BY <1>1, <1>4 DEF DuplicateId, Throw
<1>5. ASSUME NEW s \in Systems, NEW n \in Children(s), NEW w \in Wants, NEW e \in Errors,
             LeafThrows(s, n, w, e)
      PROVE Kept
  <2>1. /\ UNCHANGED <<config, built>> /\ open' = {} /\ Current(s) /\ Ready(s, n)
        /\ idOf' = [idOf EXCEPT ![n] = IdFor(s, n)] /\ ctx' = [ctx EXCEPT ![n] = ContextFor(s, n)]
    BY <1>5 DEF LeafThrows, Throw, Enter
  <2>2. n \notin built /\ n # Root /\ Entered' = built /\ built \subseteq Nodes /\ Root \in Nodes
    BY <2>1, ReadyFacts, TreeFacts DEF Entered, FrameInv, TypeOK
  <2> QED
    BY <2>1, <2>2 DEF Entered, FrameInv, TypeOK
<1>6. Walking' \/ ~\E s \in Systems : \/ ReturnSystem(s)
                                      \/ \E n \in Children(s) : OpenSystem(s, n)
                                      \/ \E n \in Children(s), w \in Wants : BuildLeaf(s, n, w)
  BY DEF Walking, ReturnSystem, LoopDone, OpenSystem, BuildLeaf, Current
<1>7. \A c \in Calls, outer \in OuterContexts : ~CallBuild(c[1], c[2], outer)
  BY DEF CallBuild, Walking
<1>8. CASE UNCHANGED vars
  BY <1>1, <1>8 DEF vars
<1> QED
  BY <1>2, <1>3, <1>4, <1>5, <1>6, <1>7, <1>8 DEF Next, BuildStep

\* The components around n, itself included, that declare a dependency k.
Declaring(n, k) == {a \in Nodes : n \in Under[a] /\ Declares(a, k)}
Lexical(n, k) ==
  IF Declaring(n, k) = {}
  THEN k \in DOMAIN ctx[n] <=> k \in DOMAIN ctx[Root]
  ELSE \E a \in Declaring(n, k) :
         /\ \A b \in Declaring(n, k) : a \in Under[b]
         /\ k \in DOMAIN ctx[n]
         /\ ctx[n][k] \in deps[a] /\ KeyOf[ctx[n][k]] = k

(* By induction from the root: a context is that of the enclosing system   *)
(* with the declared dependencies over it, so the nearest declaration wins.*)
LEMMA WalkIsLexical == FrameInv /\ WalkInv /\ Walking => ContextIsLexical
<1> SUFFICES ASSUME FrameInv, WalkInv, Walking, NEW k \in Keys
             PROVE  \A n \in Entered : Lexical(n, k)
  BY DEF ContextIsLexical, Lexical, Declaring
<1> DEFINE C == {n \in Nodes : n \in Entered => Lexical(n, k)}
<1>1. C \in SUBSET Nodes /\ Root \in C
  <2>1. Declaring(Root, k) = {}
    BY RootOnTop DEF Declaring, Declares
  <2> QED
    BY <2>1, TreeFacts DEF Lexical
<1>2. ASSUME NEW n \in Inner, Parent[n] \in C PROVE n \in C
  <2> SUFFICES ASSUME n \in Entered PROVE Lexical(n, k)
    BY TreeFacts
  <2> DEFINE p == Parent[n]
  <2>1. p \in Entered /\ Lexical(p, k) /\ n \in Nodes /\ n # Root
    BY <1>2, WalkingUp, TreeFacts
  <2>2. ctx[n] = ContextFor(p, n)
    BY DEF WalkInv, AllDerived, Derived
  <2>3. CASE k \in DepKeys(n)
    <3>1. n \in Declaring(n, k) /\ \A b \in Declaring(n, k) : n \in Under[b]
      BY <2>1, <2>3, UnderSelf DEF Declaring, Declares
    <3>2. k \in DOMAIN ctx[n] /\ ctx[n][k] = CHOOSE d \in deps[n] : KeyOf[d] = k
      BY <2>2, <2>3 DEF ContextFor
    <3>3. ctx[n][k] \in deps[n] /\ KeyOf[ctx[n][k]] = k
      BY <2>3, <3>2 DEF DepKeys
    <3> QED
      BY <3>1, <3>2, <3>3 DEF Lexical
  <2>4. CASE k \notin DepKeys(n)
    <3>1. Declaring(n, k) = Declaring(p, k)
      BY <2>4, UnderIff DEF Declaring, Declares
    <3>2. /\ k \in DOMAIN ctx[n] <=> k \in DOMAIN ctx[p]
          /\ k \in DOMAIN ctx[p] => ctx[n][k] = ctx[p][k]
      BY <2>2, <2>4 DEF ContextFor
    <3> HIDE DEF p
    <3> QED
      BY <2>1, <3>1, <3>2 DEF Lexical
  <2> QED
    BY <2>3, <2>4
<1> HIDE DEF C
<1>3. C = Nodes
  BY <1>1, <1>2, TreeInduction
<1> QED
  BY <1>3, TreeFacts DEF C, FrameInv, TypeOK, Entered

(* Scoping is lexical: a key in a component's context means the dependency *)
(* of the nearest enclosing component that declares one, and what nobody   *)
(* declares comes from the caller (#buildWith merges parentContext under   *)
(* the context of the declared dependencies).                              *)
THEOREM LexicalScoping == Spec => []ContextIsLexical
<1>1. Init => ContextIsLexical
  BY DEF Init, ContextIsLexical, Entered
<1>2. FrameInv /\ ContextIsLexical /\ [Next]_vars /\ ~Walking' => ContextIsLexical'
  <2> SUFFICES ASSUME FrameInv, ContextIsLexical, [Next]_vars, ~Walking',
                      NEW n \in Entered', NEW k \in Keys
               PROVE  Lexical(n, k)'
    BY DEF ContextIsLexical, Lexical, Declaring
  <2>1. /\ deps' = deps /\ n \in Entered /\ ctx'[n] = ctx[n] /\ ctx'[Root] = ctx[Root]
    BY StoppingKeeps
  <2>2. Declaring(n, k)' = Declaring(n, k)
    BY <2>1 DEF Declaring, Declares, DepKeys
  <2>3. Lexical(n, k)
    BY <2>1 DEF ContextIsLexical, Lexical, Declaring
  <2> QED
    BY <2>1, <2>2, <2>3 DEF Lexical
<1> QED
  BY <1>1, <1>2, WalkIsLexical, WalkInvariant, PTL DEF Spec

\* The id of n is the pin of a followed by the keys from a down to n.
Shielded(n, a) ==
  n \in Under[a] /\ pin[a] # NoPin
      /\ (\A m \in Under[a] \ {a} : n \in Under[m] => pin[m] = NoPin)
    => /\ Len(pin[a]) <= Len(idOf[n])
       /\ SubSeq(idOf[n], 1, Len(pin[a])) = pin[a]
       /\ {idOf[n][i] : i \in Len(pin[a])+1..Len(idOf[n])} = PathFrom(a, n)

(* The keys from a down to n are those down to its parent, and its own.    *)
LEMMA PathSteps ==
  ASSUME NEW a \in Nodes, NEW n \in Under[a], n # a
  PROVE  PathFrom(a, n) = PathFrom(a, Parent[n]) \cup {KeyOf[n]}
<1>1. n \in Inner /\ Parent[n] \in Under[a] /\ n \in Nodes
  BY UnderParent, TreeFacts
<1>2. \A x \in Under[a] : n \in Under[x] <=> x = n \/ Parent[n] \in Under[x]
  BY <1>1, UnderIff, UnderSelf, UnderChild DEF Under
<1> QED
  BY <1>1, <1>2 DEF PathFrom

(* By induction from the pinned component.                                 *)
LEMMA WalkShields ==
  FrameInv /\ WalkInv /\ Walking => \A n \in Entered : \A a \in Inner : Shielded(n, a)
<1> SUFFICES ASSUME FrameInv, WalkInv, Walking, NEW a \in Inner
             PROVE  \A n \in Entered : Shielded(n, a)
  OBVIOUS
<1> DEFINE C == {n \in Nodes : n \in Entered => Shielded(n, a)}
<1>0. TypeOK /\ a \in Nodes /\ a # Root /\ pin[a] \in {NoPin} \cup Ids
  BY TreeFacts, ChoiceAssumption DEF FrameInv, TypeOK
<1>1. C \in SUBSET Nodes /\ Root \in C
  BY <1>0, RootOnTop, TreeFacts DEF Shielded
<1>2. ASSUME NEW n \in Inner, Parent[n] \in C PROVE n \in C
  <2> SUFFICES ASSUME n \in Entered, n \in Under[a], pin[a] # NoPin,
                      \A m \in Under[a] \ {a} : n \in Under[m] => pin[m] = NoPin
               PROVE  /\ Len(pin[a]) <= Len(idOf[n])
                      /\ SubSeq(idOf[n], 1, Len(pin[a])) = pin[a]
                      /\ {idOf[n][i] : i \in Len(pin[a])+1..Len(idOf[n])} = PathFrom(a, n)
    BY TreeFacts DEF Shielded
  <2> DEFINE p == Parent[n]
  <2>1. /\ p \in Entered /\ idOf[n] = IdFor(p, n) /\ pin[a] \in Seq(Segments)
        /\ n \in Nodes /\ p \in Nodes
    BY <1>0, WalkingUp, TreeFacts DEF WalkInv, AllDerived, Derived, Ids
  <2>2. CASE n = a
    <3>1. idOf[n] = pin[a]
      BY <2>1, <2>2 DEF IdFor
    <3>2. PathFrom(a, n) = {}
      BY <1>0, <2>2, UnderAntisymmetric DEF PathFrom
    <3> QED
      BY <2>1, <3>1, <3>2
  <2>3. CASE n # a
    <3>1. p \in Under[a] /\ \A m \in Under[a] \ {a} : p \in Under[m] => pin[m] = NoPin
      BY <1>0, <2>3, UnderParent, UnderChild DEF Under
    <3>2. /\ Len(pin[a]) <= Len(idOf[p])
          /\ SubSeq(idOf[p], 1, Len(pin[a])) = pin[a]
          /\ {idOf[p][i] : i \in Len(pin[a])+1..Len(idOf[p])} = PathFrom(a, p)
      BY <1>2, <2>1, <3>1 DEF Shielded
    <3>3. idOf[n] = Append(idOf[p], KeyOf[n]) /\ KeyOf[n] \in Segments /\ idOf[p] \in Seq(Segments)
      <4>1. pin[n] = NoPin
        BY <1>0, <2>1, <2>3, UnderSelf
      <4> QED
        BY <1>0, <2>1, <4>1, TreeAssumption, ValueAssumption DEF IdFor, TypeOK, Ids
    <3>4. PathFrom(a, n) = PathFrom(a, p) \cup {KeyOf[n]}
      BY <1>0, <2>3, PathSteps
    <3> HIDE DEF p
    <3>5. SubSeq(idOf[n], 1, Len(pin[a])) = SubSeq(idOf[p], 1, Len(pin[a]))
      BY <2>1, <3>2, <3>3
    <3>6. /\ Len(idOf[n]) = Len(idOf[p]) + 1 /\ idOf[n][Len(idOf[p]) + 1] = KeyOf[n]
          /\ \A i \in 1..Len(idOf[p]) : idOf[n][i] = idOf[p][i]
          /\ Len(idOf[p]) \in Nat /\ Len(pin[a]) \in Nat
      BY <2>1, <3>3
    <3>7. {idOf[n][i] : i \in Len(pin[a])+1..Len(idOf[n])}
            = {idOf[p][i] : i \in Len(pin[a])+1..Len(idOf[p])} \cup {KeyOf[n]}
      <4> DEFINE f == idOf[n]
                 g == idOf[p]
                 I == Len(pin[a])+1..Len(idOf[p])
                 J == Len(pin[a])+1..Len(idOf[n])
                 last == Len(idOf[p]) + 1
      <4>1. J = I \cup {last} /\ (\A i \in I : f[i] = g[i]) /\ f[last] = KeyOf[n]
        BY <3>2, <3>6
      <4> HIDE DEF f, g, I, J, last
      <4>2. {f[i] : i \in J} = {g[i] : i \in I} \cup {KeyOf[n]}
        BY <4>1
      <4> QED
        BY <4>2 DEF f, g, I, J
    <3>8. Len(pin[a]) <= Len(idOf[n])
      BY <3>2, <3>6
    <3> QED
      BY <3>2, <3>4, <3>5, <3>7, <3>8
  <2> QED
    BY <2>2, <2>3
<1> HIDE DEF C
<1>3. C = Nodes
  BY <1>1, <1>2, TreeInduction
<1> QED
  BY <1>3, TreeFacts DEF C, FrameInv, TypeOK, Entered

(* at() keeps the paths a component had on its own: below a pin, ids are   *)
(* the pin and the keys in between, whatever the tree above it is.         *)
THEOREM PinsShield == Spec => []PinShieldsSubtree
<1>1. Init => PinShieldsSubtree
  BY DEF Init, PinShieldsSubtree, Entered
<1>2. FrameInv /\ PinShieldsSubtree /\ [Next]_vars /\ ~Walking' => PinShieldsSubtree'
  <2> SUFFICES ASSUME FrameInv, PinShieldsSubtree, [Next]_vars, ~Walking',
                      NEW n \in Entered', NEW a \in Inner, n \in Under[a], pin'[a] # NoPin,
                      \A m \in Under[a] \ {a} : n \in Under[m] => pin'[m] = NoPin
               PROVE  /\ SubSeq(idOf'[n], 1, Len(pin'[a])) = pin'[a]
                      /\ {idOf'[n][i] : i \in Len(pin'[a])+1..Len(idOf'[n])} = PathFrom(a, n)
    BY DEF PinShieldsSubtree
  <2>1. pin' = pin /\ n \in Entered /\ idOf'[n] = idOf[n]
    BY StoppingKeeps
  <2> QED
    BY <2>1 DEF PinShieldsSubtree
<1>3. FrameInv /\ WalkInv /\ Walking => PinShieldsSubtree
  BY WalkShields DEF PinShieldsSubtree, Shielded
<1> QED
  BY <1>1, <1>2, <1>3, WalkInvariant, PTL DEF Spec

(***************************************************************************)
(* What a build still has ahead of it: the nodes to enter, the nodes to    *)
(* complete, and the hooks there is room for.                              *)
(***************************************************************************)
HooksAhead == {w \in Systems \X (1..MaxHooks) : hooksRun[w[1]] < w[2]}
Enters == 0
Completes == MaxHooks + 1
Ahead == (Nodes \ Entered) \X {Enters} \cup (Nodes \ built) \X {Completes} \cup HooksAhead

(* It is finite, so fewer things ahead is a smaller number.                *)
LEMMA FewerAhead ==
  ASSUME TypeOK, TypeOK'
  PROVE  /\ Cardinality(Ahead) \in Nat
         /\ Ahead' \subseteq Ahead /\ Ahead' # Ahead => Cardinality(Ahead') < Cardinality(Ahead)
<1>1. /\ IsFiniteSet(Nodes \ Entered) /\ IsFiniteSet(Nodes \ built) /\ IsFiniteSet(Systems)
      /\ MaxHooks \in Nat
  BY TreeAssumption, RootedAssumption, ChoiceAssumption, FS_Subset
<1>2. /\ IsFiniteSet((Nodes \ Entered) \X {Enters}) /\ IsFiniteSet((Nodes \ built) \X {Completes})
      /\ IsFiniteSet(Systems \X (1..MaxHooks))
  <2>1. \A x : IsFiniteSet({x})
    BY FS_Singleton
  <2>2. IsFiniteSet(1..MaxHooks)
    BY <1>1, FS_Interval
  <2> QED
    BY <1>1, <2>1, <2>2, FS_Product
<1>3. IsFiniteSet(HooksAhead)
  BY <1>2, FS_Subset DEF HooksAhead
<1>4. IsFiniteSet(Ahead)
  BY <1>2, <1>3, FS_Union DEF Ahead
<1>5. /\ Cardinality(Ahead) \in Nat
      /\ Ahead' \subseteq Ahead =>
           /\ Cardinality(Ahead') \in Nat /\ Cardinality(Ahead') <= Cardinality(Ahead)
           /\ Cardinality(Ahead') = Cardinality(Ahead) => Ahead' = Ahead
  BY <1>4, FS_Subset, FS_CardinalityType
<1> QED
  BY <1>5

(* A build that is running comes closer to its end with each of its steps: *)
(* a step throws, or leaves less ahead.  With Progress, which has it that  *)
(* there always is a next step, no build of an accepted system loops or    *)
(* hangs, however its hooks and builders behave.                           *)
THEOREM EveryStepCounts ==
  Spec => [][BuildStep => pc' = "threw" \/ Cardinality(Ahead') < Cardinality(Ahead)]_vars
<1>1. ASSUME FrameInv, TypeOK', BuildStep, pc' # "threw"
      PROVE  Ahead' \subseteq Ahead /\ Ahead' # Ahead
  <2>0. /\ open \subseteq Systems /\ built \subseteq Nodes /\ hooks \in [Systems -> 0..MaxHooks]
        /\ hooksRun \in [Systems -> 0..MaxHooks] /\ Apart
    BY <1>1 DEF FrameInv, TypeOK
  <2>1. ASSUME NEW s \in Systems, RunHook(s) PROVE Ahead' \subseteq Ahead /\ Ahead' # Ahead
    <3> DEFINE next == hooksRun[s] + 1
    <3>1. /\ next \in 1..MaxHooks /\ Entered' = Entered /\ built' = built
          /\ hooksRun' = [hooksRun EXCEPT ![s] = next]
      BY <2>0, <2>1, ChoiceAssumption DEF RunHook, Entered
    <3>2. HooksAhead' \subseteq HooksAhead /\ <<s, next>> \in HooksAhead
          /\ <<s, next>> \notin HooksAhead'
      BY <2>0, <3>1, ChoiceAssumption DEF HooksAhead
    <3>3. next # Enters /\ next # Completes
      BY <3>1, ChoiceAssumption DEF Enters, Completes
    <3> QED
      BY <3>1, <3>2, <3>3 DEF Ahead
  <2>2. ASSUME NEW s \in Systems, ReturnSystem(s) PROVE Ahead' \subseteq Ahead /\ Ahead' # Ahead
    <3>1. /\ s \in open /\ open' = open \ {s} /\ built' = built \cup {s} /\ hooksRun' = hooksRun
      BY <2>2 DEF ReturnSystem, LoopDone, Current
    <3>2. s \in Nodes \ built /\ Entered' = Entered /\ HooksAhead' = HooksAhead
      BY <2>0, <3>1, TreeAssumption DEF Apart, Entered, HooksAhead
    <3>3. <<s, Completes>> \in Ahead /\ <<s, Completes>> \notin Ahead'
      BY <2>0, <3>1, <3>2, ChoiceAssumption DEF Ahead, HooksAhead, Enters, Completes
    <3> QED
      BY <3>1, <3>2, <3>3 DEF Ahead
  <2>3. ASSUME NEW s \in Systems, NEW n \in Children(s),
               Current(s), Ready(s, n), Entered' = Entered \cup {n}, built \subseteq built',
               hooksRun' = hooksRun, n \in Leaves \/ n \in Systems
        PROVE  Ahead' \subseteq Ahead /\ Ahead' # Ahead
    <3>1. n \in Nodes \ Entered /\ HooksAhead' = HooksAhead
      BY <2>0, <2>3, TreeFacts DEF Current, Ready, Entered, Children, Inner, HooksAhead
    <3>2. <<n, Enters>> \in Ahead /\ <<n, Enters>> \notin Ahead'
      BY <2>3, <3>1, ChoiceAssumption DEF Ahead, HooksAhead, Enters, Completes
    <3> QED
      BY <2>3, <3>1, <3>2 DEF Ahead
  <2>4. ASSUME NEW s \in Systems, NEW n \in Children(s), OpenSystem(s, n)
        PROVE  Ahead' \subseteq Ahead /\ Ahead' # Ahead
    BY <2>3, <2>4 DEF OpenSystem, Entered
  <2>5. ASSUME NEW s \in Systems, NEW n \in Children(s), NEW wants \in Wants, BuildLeaf(s, n, wants)
        PROVE  Ahead' \subseteq Ahead /\ Ahead' # Ahead
    BY <2>3, <2>5 DEF BuildLeaf, Entered
  <2> QED
    BY <1>1, <2>1, <2>2, <2>4, <2>5 DEF BuildStep, HookThrows, DuplicateId, LeafThrows, Throw
<1>2. FrameInv /\ FrameInv' =>
        (BuildStep => pc' = "threw" \/ Cardinality(Ahead') < Cardinality(Ahead))
  BY <1>1, FewerAhead DEF FrameInv
<1> QED
  BY <1>2, FrameInvariant, PTL
=============================================================================
