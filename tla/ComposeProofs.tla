---------------------------- MODULE ComposeProofs ----------------------------
(***************************************************************************)
(* Proofs about Compose, for every tree of components, every declaration   *)
(* of dependencies, pins and routes, and any number of builds and hooks.   *)
(***************************************************************************)
EXTENDS Compose, TLAPS

(***************************************************************************)
(* Trees.                                                                  *)
(***************************************************************************)
(* Inner nodes have a system of the tree as parent, and dependencies are   *)
(* siblings.                                                               *)
LEMMA TreeFacts ==
  /\ Root \in Systems /\ Systems \subseteq Nodes
  /\ \A n \in Inner : Parent[n] \in Systems /\ n \in Nodes /\ n # Root
  /\ \A s : \A n \in Children(s) : n \in Inner /\ Parent[n] = s
  /\ \A d \in DepChoices : \A n \in Inner : d[n] \subseteq Siblings(n) /\ d[n] \subseteq Inner
BY TreeAssumption, ChoiceAssumption DEF Inner, Children, Siblings

(* Induction over the tree: a set that contains a node and the children of *)
(* each of its members contains everything under the node.                 *)
LEMMA UnderInduction ==
  ASSUME NEW a \in Nodes, NEW C \in SUBSET Nodes, a \in C,
         \A m \in Inner : Parent[m] \in C => m \in C
  PROVE  Under[a] \subseteq C
BY DEF Under

(* A node is under itself, and under a only if its parent is, or it is a.  *)
LEMMA UnderSelf == \A a \in Nodes : a \in Under[a]
BY DEF Under

(***************************************************************************)
(* Types.                                                                  *)
(***************************************************************************)
(* The context handed to a component is a function from keys to results.   *)
LEMMA ContextType ==
  ASSUME TypeOK, NEW s \in Systems, NEW n \in Inner
  PROVE  ContextFor(s, n) \in Contexts
<1>1. PICK K \in SUBSET Keys : ctx[s] \in [K -> Nodes \cup {Outside}]
  <2>1. ctx[s] \in Contexts
    BY TreeFacts DEF TypeOK
  <2> QED
    BY <2>1 DEF Contexts
<1>2. deps[n] \subseteq Inner /\ DepKeys(n) \subseteq Keys
  BY TreeFacts, TreeAssumption DEF TypeOK, DepKeys, Inner
<1>3. \A k \in DepKeys(n) : (CHOOSE d \in deps[n] : KeyOf[d] = k) \in Nodes
  BY <1>2 DEF DepKeys, Inner
<1>4. ContextFor(s, n) \in [K \cup DepKeys(n) -> Nodes \cup {Outside}]
  BY <1>1, <1>3 DEF ContextFor
<1> QED
  BY <1>2, <1>4 DEF Contexts

(* So are the scope and the id, and the slot they make.                    *)
LEMMA SlotType ==
  ASSUME TypeOK, NEW s \in Systems, NEW n \in Inner
  PROVE  ScopeFor(s, n) \in Scopes /\ IdFor(s, n) \in Ids
         /\ SlotFor(s, n) \in Scopes \X Ids
<1>1. scopeOf[s] \in Scopes /\ idOf[s] \in Seq(Segments) /\ KeyOf[n] \in Segments
  BY TreeFacts, TreeAssumption, ValueAssumption DEF TypeOK, Ids
<1>2. route[n] \in Scopes \cup {Inherit}
  BY ChoiceAssumption DEF TypeOK
<1>3. pin[n] \in {NoPin} \cup Ids
  BY ChoiceAssumption DEF TypeOK
<1>4. Append(idOf[s], KeyOf[n]) \in Seq(Segments) /\ Append(idOf[s], KeyOf[n]) # <<>>
  BY <1>1
<1> QED
  BY <1>1, <1>2, <1>3, <1>4 DEF ScopeFor, IdFor, SlotFor, Ids

(* A derived construct lies in the same scope, under an id of its own.     *)
LEMMA ExtendedType ==
  ASSUME NEW id \in Ids, NEW x \in Suffixes
  PROVE  /\ Extended(id, x) \in Seq(Names \cup Segments)
         /\ Len(Extended(id, x)) = Len(id) /\ Len(id) \in Nat \ {0}
         /\ Extended(id, x)[Len(id)] = Glue(id[Len(id)], x)
         /\ \A i \in 1..Len(id)-1 : Extended(id, x)[i] = id[i]
<1> DEFINE n == Len(id)
           d == Extended(id, x)
<1>1. n \in Nat \ {0} /\ id \in [1..n -> Segments]
  BY DEF Ids
<1>2. Glue(id[n], x) \in Names
  BY <1>1, ValueAssumption
<1>3. d = [i \in 1..n |-> IF i = n THEN Glue(id[n], x) ELSE id[i]]
  BY <1>1 DEF Extended
<1> HIDE DEF d, n
<1>4. d \in [1..n -> Names \cup Segments] /\ n \in Nat
  BY <1>1, <1>2, <1>3
<1>5. d \in Seq(Names \cup Segments) /\ Len(d) = n
  BY <1>4
<1>6. d[n] = Glue(id[n], x) /\ \A i \in 1..n-1 : d[i] = id[i]
  BY <1>1, <1>3
<1> QED
  BY <1>1, <1>5, <1>6 DEF d, n

(* Entering a component keeps the frames well typed.                       *)
LEMMA EnterType ==
  ASSUME TypeOK, NEW s \in Systems, NEW n \in Inner, Enter(s, n)
  PROVE  /\ scopeOf' \in [Nodes -> Scopes] /\ idOf' \in [Nodes -> Ids]
         /\ ctx' \in [Nodes -> Contexts]
         /\ used' \in [Systems -> SUBSET (Scopes \X Ids)]
BY ContextType, SlotType DEF Enter, TypeOK

(* The initial state is well typed.                                        *)
LEMMA TypeInit == Init => TypeOK
<1> SUFFICES ASSUME Init PROVE TypeOK
  OBVIOUS
<1>1. AnyCall \in Calls /\ AnyCall \in Scopes \X Ids
  BY ChoiceAssumption DEF AnyCall
<1>2. NoContext \in Contexts
  BY DEF NoContext, Contexts
<1> QED
  BY <1>1, <1>2, ChoiceAssumption DEF Init, TypeOK, Phases, Errors

(* Every step keeps the types.                                             *)
LEMMA TypeStep == TypeOK /\ [Next]_vars => TypeOK'
<1> SUFFICES ASSUME TypeOK, [Next]_vars PROVE TypeOK'
  OBVIOUS
<1> USE TreeFacts
<1>1. ASSUME NEW s \in Systems, ComposeSystem(s) PROVE TypeOK'
  BY <1>1 DEF ComposeSystem, TypeOK, Phases, Errors, config, frame
<1>2. ASSUME NEW s \in Systems, AfterBuild(s) PROVE TypeOK'
  BY <1>2, ChoiceAssumption DEF AfterBuild, TypeOK, config, frame
<1>3. ASSUME NEW c \in Calls, NEW outer \in OuterContexts, CallBuild(c[1], c[2], outer)
      PROVE TypeOK'
  <2> DEFINE given == [k \in outer |-> Outside]
  <2>0. c \in Scopes \X Ids
    BY ChoiceAssumption
  <2>1. c = <<c[1], c[2]>> /\ c[1] \in Scopes /\ c[2] \in Ids
    BY <2>0
  <2>2. NoContext \in Contexts /\ given \in Contexts
    <3>1. NoContext \in [{} -> Nodes \cup {Outside}] /\ {} \in SUBSET Keys
      BY DEF NoContext
    <3>2. given \in [outer -> Nodes \cup {Outside}] /\ outer \in SUBSET Keys
      BY ChoiceAssumption
    <3> HIDE DEF given
    <3> QED
      BY <3>1, <3>2 DEF Contexts
  <2>3. calls' \in Seq(Calls)
    <3> DEFINE args == <<c[1], c[2]>>
    <3>1. args \in Calls
      BY ONLY <2>1, c \in Calls
    <3>2. calls \in Seq(Calls) /\ calls' = Append(calls, args)
      BY <1>3 DEF CallBuild, TypeOK
    <3> HIDE DEF args
    <3> QED
      BY <3>1, <3>2
  <2>4. ctx' \in [Nodes -> Contexts]
    <3>1. ctx' = [n \in Nodes |-> IF n = Root THEN given ELSE NoContext]
      BY <1>3 DEF CallBuild
    <3> HIDE DEF given
    <3> QED
      BY <3>1, <2>2
  <2>5. scopeOf' \in [Nodes -> Scopes] /\ idOf' \in [Nodes -> Ids]
    BY <1>3, <2>1 DEF CallBuild
  <2>6. used' \in [Systems -> SUBSET (Scopes \X Ids)] /\ hooksRun' \in [Systems -> 0..MaxHooks]
    BY <1>3, ChoiceAssumption DEF CallBuild
  <2>7. built' \subseteq Nodes /\ open' \subseteq Systems
    BY <1>3 DEF CallBuild
  <2> QED
    BY <1>3, <2>3, <2>4, <2>5, <2>6, <2>7
    DEF CallBuild, TypeOK, Phases, Errors, config
<1>4. ASSUME NEW s \in Systems, NEW n \in Children(s), DuplicateId(s, n) PROVE TypeOK'
  BY <1>4 DEF DuplicateId, Throw, TypeOK, Phases, Errors, config
<1>5. ASSUME NEW s \in Systems, NEW n \in Children(s), OpenSystem(s, n) PROVE TypeOK'
  BY <1>5, EnterType DEF OpenSystem, TypeOK, config
<1>6. ASSUME NEW s \in Systems, NEW n \in Children(s), n \in Leaves,
             NEW some \in SUBSET Makes[n], Create(s, n, some)
      PROVE constructs' \subseteq [slot : Scopes \X Seq(Names \cup Segments), by : Leaves,
                                   as : Suffixes, run : Nat]
  <2>1. ScopeFor(s, n) \in Scopes /\ IdFor(s, n) \in Ids /\ Len(calls) \in Nat
    BY <1>6, SlotType DEF TypeOK
  <2>2. ASSUME NEW x \in some
        PROVE  Construct(s, n, x) \in [slot : Scopes \X Seq(Names \cup Segments), by : Leaves,
                                       as : Suffixes, run : Nat]
    <3>1. x \in Suffixes
      BY <1>6, <2>2, ValueAssumption
    <3>2. Extended(IdFor(s, n), x) \in Seq(Names \cup Segments)
      BY <2>1, <3>1, ExtendedType
    <3> QED
      BY <1>6, <2>1, <3>1, <3>2 DEF Construct, PlaceOf
  <2> QED
    BY <1>6, <2>2 DEF Create, TypeOK
<1>7. ASSUME NEW s \in Systems, NEW n \in Children(s), NEW w \in Wants, BuildLeaf(s, n, w)
      PROVE TypeOK'
  <2>1. constructs' \subseteq [slot : Scopes \X Seq(Names \cup Segments), by : Leaves,
                                as : Suffixes, run : Nat]
    BY <1>6, <1>7 DEF BuildLeaf
  <2> QED
    BY <1>7, <2>1, EnterType DEF BuildLeaf, TypeOK, config
<1>8. ASSUME NEW s \in Systems, NEW n \in Children(s), NEW w \in Wants, NEW e \in Errors,
             LeafThrows(s, n, w, e)
      PROVE TypeOK'
  <2>1. constructs' \subseteq [slot : Scopes \X Seq(Names \cup Segments), by : Leaves,
                                as : Suffixes, run : Nat]
    BY <1>6, <1>8 DEF LeafThrows, Free
  <2> QED
    BY <1>8, <2>1, EnterType DEF LeafThrows, Throw, TypeOK, Phases, config
<1>9. ASSUME NEW s \in Systems, RunHook(s) PROVE TypeOK'
  BY <1>9, ChoiceAssumption DEF RunHook, TypeOK, config
<1>10. ASSUME NEW s \in Systems, HookThrows(s) PROVE TypeOK'
  BY <1>10 DEF HookThrows, Throw, TypeOK, Phases, Errors, config
<1>11. ASSUME NEW s \in Systems, ReturnSystem(s) PROVE TypeOK'
  BY <1>11 DEF ReturnSystem, TypeOK, Phases, config
<1>12. CASE UNCHANGED vars
  BY <1>12 DEF TypeOK, vars, config, frame
<1> QED
  BY <1>1, <1>2, <1>3, <1>4, <1>5, <1>7, <1>8, <1>9, <1>10, <1>11, <1>12
  DEF Next, BuildStep

(* Every variable of every reachable state holds a value of its type       *)
(* (compose.ts: the locals of #buildWith and the lists they fill).         *)
THEOREM TypeCorrect == Spec => []TypeOK
BY TypeInit, TypeStep, PTL DEF Spec

(***************************************************************************)
(* The call stack and the results.                                         *)
(***************************************************************************)
(* open is a chain from the outermost system to the current one, built is  *)
(* closed downwards, and everything a frame was given is built.            *)
Upward == pc = "building" => \A n \in Entered \cap Inner : Parent[n] \in Entered
Downward == \A n \in Inner : Parent[n] \in built => n \in built
Apart == open \cap built = {} /\ (pc # "building" => open = {})
Chain == /\ \A m, n \in open \cap Inner : Parent[m] = Parent[n] => m = n
         /\ pc = "building" => \E s \in Systems : Current(s)
DepsBuilt == \A n \in Entered \cap Inner : deps[n] \subseteq built
ContextBuilt == \A n \in Entered : \A k \in DOMAIN ctx[n] :
                  ctx[n][k] # Outside => ctx[n][k] \in built
HooksDone == pc = "building" => \A s \in Systems \cap built : hooksRun[s] = hooks[s]

FrameInv == TypeOK /\ Upward /\ Downward /\ Apart /\ Chain /\ DepsBuilt
            /\ ContextBuilt /\ HooksDone

(* What holds of the component a system is about to build.                 *)
LEMMA ReadyFacts ==
  ASSUME FrameInv, NEW s \in Systems, NEW n \in Children(s), Current(s), Ready(s, n)
  PROVE  /\ n \in Inner /\ Parent[n] = s /\ s \in open /\ s # n
         /\ n \notin built /\ n \notin open /\ deps[n] \subseteq built
         /\ pc = "building"
         /\ \A m \in Inner : Parent[m] = n => m \notin Entered
<1>1. n \in Inner /\ Parent[n] = s /\ n \notin built /\ n \notin open /\ s \in open
      /\ deps[n] \subseteq built /\ pc = "building" /\ s # n
  BY DEF Current, Ready, Children
<1>2. ASSUME NEW m \in Inner, Parent[m] = n PROVE m \notin Entered
  BY <1>1, <1>2 DEF FrameInv, Upward, Entered
<1> QED
  BY <1>1, <1>2

(* The context of an entered component holds built results only: its       *)
(* declared dependencies, or what the enclosing frame was given.           *)
LEMMA EnterContext ==
  ASSUME FrameInv, NEW s \in Systems, NEW n \in Children(s), Current(s), Ready(s, n),
         Enter(s, n)
  PROVE  \A m \in Entered \cup {n} : \A k \in DOMAIN ctx'[m] :
           ctx'[m][k] # Outside => ctx'[m][k] \in built
<1>1. n \in Nodes /\ n \notin Entered /\ s \in Entered /\ deps[n] \subseteq built
  BY ReadyFacts, TreeFacts DEF Entered
<1>2. ctx \in [Nodes -> Contexts] /\ ctx' = [ctx EXCEPT ![n] = ContextFor(s, n)]
  BY DEF FrameInv, TypeOK, Enter
<1>3. ASSUME NEW k \in DOMAIN ContextFor(s, n), ContextFor(s, n)[k] # Outside
      PROVE  ContextFor(s, n)[k] \in built
  <2>1. CASE k \in DepKeys(n)
    <3>1. ContextFor(s, n)[k] = CHOOSE d \in deps[n] : KeyOf[d] = k
      BY <1>3, <2>1 DEF ContextFor
    <3>2. \E d \in deps[n] : KeyOf[d] = k
      BY <2>1 DEF DepKeys
    <3> QED
      BY <1>1, <3>1, <3>2
  <2>2. CASE k \notin DepKeys(n)
    <3>1. k \in DOMAIN ctx[s] /\ ContextFor(s, n)[k] = ctx[s][k]
      BY <1>3, <2>2 DEF ContextFor
    <3> QED
      BY <1>1, <1>3, <3>1 DEF FrameInv, ContextBuilt
  <2> QED
    BY <2>1, <2>2
<1>4. ASSUME NEW m \in Entered PROVE m # n /\ ctx'[m] = ctx[m]
  BY <1>1, <1>2
<1>5. ctx'[n] = ContextFor(s, n)
  BY <1>1, <1>2
<1> QED
  BY <1>3, <1>4, <1>5 DEF FrameInv, ContextBuilt

(* Opening a nested system keeps the invariant.                            *)
LEMMA OpenSystemKeeps ==
  ASSUME FrameInv, TypeOK', NEW s \in Systems, NEW n \in Children(s), OpenSystem(s, n)
  PROVE  FrameInv'
<1> USE DEF OpenSystem, Entered
<1>1. Current(s) /\ Ready(s, n) /\ Enter(s, n) /\ open' = open \cup {n} /\ built' = built
      /\ pc' = pc /\ deps' = deps /\ hooks' = hooks /\ hooksRun' = hooksRun
  BY DEF config
<1>2. /\ n \in Inner /\ Parent[n] = s /\ s \in open /\ s # n
      /\ n \notin built /\ n \notin open /\ deps[n] \subseteq built
      /\ pc = "building" /\ n \in Systems
      /\ \A m \in Inner : Parent[m] = n => m \notin Entered
  BY <1>1, ReadyFacts
<1>3. Upward' /\ Downward' /\ Apart' /\ DepsBuilt' /\ HooksDone'
  BY <1>1, <1>2 DEF FrameInv, Upward, Downward, Apart, DepsBuilt, HooksDone
<1>4. Chain'
  <2>1. Children(n) \cap open' = {}
    BY <1>1, <1>2 DEF Children
  <2>2. \A m \in open \cap Inner : Parent[m] # s
    BY <1>1 DEF Current, Children
  <2> QED
    BY <1>1, <1>2, <2>1, <2>2 DEF FrameInv, Chain, Current, Children
<1>5. ContextBuilt'
  BY <1>1, EnterContext DEF ContextBuilt
<1> QED
  BY <1>3, <1>4, <1>5 DEF FrameInv

(* So does building a builder.                                             *)
LEMMA BuildLeafKeeps ==
  ASSUME FrameInv, TypeOK', NEW s \in Systems, NEW n \in Children(s), NEW w \in Wants,
         BuildLeaf(s, n, w)
  PROVE  FrameInv'
<1> USE DEF BuildLeaf, Entered
<1>1. Current(s) /\ Ready(s, n) /\ Enter(s, n) /\ open' = open /\ built' = built \cup {n}
      /\ pc' = pc /\ deps' = deps /\ hooks' = hooks /\ hooksRun' = hooksRun /\ n \in Leaves
  BY DEF config
<1>2. /\ n \in Inner /\ Parent[n] = s /\ s \in open
      /\ n \notin built /\ n \notin open /\ deps[n] \subseteq built
  BY <1>1, ReadyFacts
<1>3. Upward' /\ Apart' /\ DepsBuilt' /\ HooksDone'
  BY <1>1, <1>2 DEF FrameInv, Upward, Apart, DepsBuilt, HooksDone, Leaves
<1>4. Downward'
  BY <1>1, TreeFacts DEF FrameInv, Downward, Leaves
<1>5. Chain'
  BY <1>1 DEF FrameInv, Chain, Current, Children
<1>6. ContextBuilt'
  BY <1>1, EnterContext DEF ContextBuilt
<1> QED
  BY <1>3, <1>4, <1>5, <1>6 DEF FrameInv

(* And a system that returns: its parent becomes the current one.          *)
LEMMA ReturnSystemKeeps ==
  ASSUME FrameInv, TypeOK', NEW s \in Systems, ReturnSystem(s)
  PROVE  FrameInv'
<1> USE DEF ReturnSystem, Entered
<1>1. /\ Current(s) /\ Children(s) \subseteq built /\ s \in open /\ s \notin built
      /\ open' = open \ {s} /\ built' = built \cup {s} /\ pc = "building"
      /\ deps' = deps /\ hooks' = hooks /\ hooksRun' = hooksRun /\ ctx' = ctx
      /\ hooksRun[s] = hooks[s]
      /\ pc' = IF s = Root THEN "returned" ELSE pc
      /\ Children(s) \cap open = {}
  BY DEF LoopDone, Current, FrameInv, Apart, config
<1>2. Upward' /\ Downward' /\ DepsBuilt' /\ HooksDone' /\ ContextBuilt'
  BY <1>1 DEF FrameInv, Upward, Downward, DepsBuilt, HooksDone, ContextBuilt, Children
<1>3. CASE s = Root
  <2>1. open = {Root}
    <3> DEFINE C == Nodes \ (open \ {Root})
    <3>1. ASSUME NEW m \in Inner, Parent[m] \in C PROVE m \in C
      <4>1. SUFFICES ASSUME m \in open PROVE FALSE
        BY DEF Inner
      <4>2. Parent[m] \in open
        BY <1>1, <4>1 DEF FrameInv, Upward, Downward, Apart
      <4>3. Parent[m] = Root
        BY <3>1, <4>2
      <4> QED
        BY <1>1, <1>3, <4>1, <4>3 DEF Children
    <3>2. Root \in Nodes /\ Root \in C
      BY TreeFacts
    <3> HIDE DEF C
    <3>3. Under[Root] \subseteq C
      BY <3>1, <3>2, UnderInduction DEF C
    <3> QED
      BY <1>1, <1>3, <3>3, TreeFacts, RootedAssumption DEF C, FrameInv, TypeOK
  <2> QED
    BY <1>1, <1>2, <1>3, <2>1 DEF FrameInv, Apart, Chain
<1>4. CASE s # Root
  <2>1. s \in Inner /\ Parent[s] \in Systems
    BY <1>4, TreeFacts DEF Inner
  <2>2. Parent[s] \in open
    BY <1>1, <2>1 DEF FrameInv, Upward, Downward
  <2>3. Parent[s] # s
    BY <1>1, <2>1 DEF Children
  <2>4. Children(Parent[s]) \cap open' = {}
    BY <1>1, <2>1 DEF FrameInv, Chain, Children
  <2>5. Current(Parent[s])'
    BY <1>1, <1>4, <2>2, <2>3, <2>4 DEF Current, Children
  <2>6. Chain'
    BY <1>1, <2>1, <2>5 DEF FrameInv, Chain
  <2> QED
    BY <1>1, <1>2, <1>4, <2>6 DEF FrameInv, Apart
<1> QED
  BY <1>3, <1>4

(* Every step keeps the invariant of the call stack.                       *)
LEMMA FrameInvStep == FrameInv /\ [Next]_vars => FrameInv'
<1> SUFFICES ASSUME FrameInv, [Next]_vars PROVE FrameInv'
  OBVIOUS
<1>0. TypeOK /\ TypeOK'
  BY TypeStep DEF FrameInv
<1>1. ASSUME NEW s \in Systems, ComposeSystem(s) PROVE FrameInv'
  <2>1. UNCHANGED <<deps, hooks, frame>> /\ pc # "building" /\ pc' # "building"
    BY <1>1 DEF ComposeSystem, config
  <2> QED
    BY <1>0, <2>1 DEF FrameInv, Upward, Downward, Apart, Chain, DepsBuilt, ContextBuilt,
                      HooksDone, Entered, frame
<1>2. ASSUME NEW s \in Systems, AfterBuild(s) PROVE FrameInv'
  <2>1. UNCHANGED <<deps, pc, frame>> /\ pc # "building"
    BY <1>2 DEF AfterBuild, config
  <2> QED
    BY <1>0, <2>1 DEF FrameInv, Upward, Downward, Apart, Chain, DepsBuilt, ContextBuilt,
                      HooksDone, Entered, frame
<1>3. ASSUME NEW c \in Calls, NEW outer \in OuterContexts, CallBuild(c[1], c[2], outer)
      PROVE FrameInv'
  <2>1. open' = {Root} /\ built' = {} /\ pc' = "building" /\ deps' = deps
    BY <1>3 DEF CallBuild, config
  <2>2. ctx'[Root] = [k \in outer |-> Outside]
    BY <1>3, TreeFacts DEF CallBuild
  <2>3. Upward' /\ Downward' /\ Apart' /\ DepsBuilt' /\ HooksDone' /\ ContextBuilt'
    BY <2>1, <2>2, TreeFacts
    DEF Upward, Downward, Apart, DepsBuilt, HooksDone, ContextBuilt, Entered
  <2>4. Chain'
    BY <2>1, TreeFacts DEF Chain, Current, Children
  <2> QED
    BY <1>0, <2>3, <2>4 DEF FrameInv
<1>4. ASSUME pc' = "threw", open' = {}, built' = built, deps' = deps,
             \A m \in built : ctx'[m] = ctx[m]
      PROVE FrameInv'
  BY <1>0, <1>4 DEF FrameInv, Upward, Downward, Apart, Chain, DepsBuilt, ContextBuilt,
                    HooksDone, Entered
<1>5. ASSUME NEW s \in Systems, NEW n \in Children(s), DuplicateId(s, n) PROVE FrameInv'
  BY <1>4, <1>5 DEF DuplicateId, Throw, config
<1>6. ASSUME NEW s \in Systems, NEW n \in Children(s), NEW w \in Wants, NEW e \in Errors,
             LeafThrows(s, n, w, e)
      PROVE FrameInv'
  <2>1. n \notin built
    BY <1>6, ReadyFacts DEF LeafThrows
  <2>2. \A m \in built : ctx'[m] = ctx[m]
    BY <1>0, <1>6, <2>1 DEF LeafThrows, Enter, TypeOK
  <2> QED
    BY <1>4, <1>6, <2>2 DEF LeafThrows, Throw, config
<1>7. ASSUME NEW s \in Systems, HookThrows(s) PROVE FrameInv'
  BY <1>4, <1>7 DEF HookThrows, Throw, config
<1>8. ASSUME NEW s \in Systems, RunHook(s) PROVE FrameInv'
  <2>1. UNCHANGED <<deps, pc, open, built, ctx>> /\ s \notin built /\ pc = "building"
    BY <1>8 DEF RunHook, LoopDone, Current, FrameInv, Apart, config
  <2>2. \A t \in Systems \ {s} : hooks'[t] = hooks[t] /\ hooksRun'[t] = hooksRun[t]
    BY <1>0, <1>8 DEF RunHook, TypeOK
  <2> QED
    BY <1>0, <2>1, <2>2 DEF FrameInv, Upward, Downward, Apart, Chain, DepsBuilt,
                            ContextBuilt, HooksDone, Entered, Current
<1>9. CASE UNCHANGED vars
  BY <1>0, <1>9 DEF FrameInv, Upward, Downward, Apart, Chain, DepsBuilt, ContextBuilt,
                    HooksDone, Entered, Current, vars, config, frame
<1> QED
  BY <1>0, <1>1, <1>2, <1>3, <1>5, <1>6, <1>7, <1>8, <1>9,
     OpenSystemKeeps, BuildLeafKeeps, ReturnSystemKeeps
  DEF Next, BuildStep

(* The initial state satisfies it.                                         *)
LEMMA FrameInvInit == Init => FrameInv
BY TypeInit DEF Init, FrameInv, Upward, Downward, Apart, Chain, DepsBuilt, ContextBuilt,
                HooksDone, Entered

(* The invariant of the call stack holds in every reachable state.         *)
THEOREM FrameInvariant == Spec => []FrameInv
BY FrameInvInit, FrameInvStep, PTL DEF Spec

(***************************************************************************)
(* Contexts hold finished results.                                         *)
(***************************************************************************)
(* Everything under a built node is built, and its hooks have run.         *)
LEMMA BuiltIsFinished ==
  ASSUME FrameInv, pc = "building", NEW a \in built, NEW m \in Under[a]
  PROVE  m \in built /\ (m \in Systems => hooksRun[m] = hooks[m])
<1>1. a \in Nodes /\ built \in SUBSET Nodes
  BY DEF FrameInv, TypeOK
<1>2. Under[a] \subseteq built
  BY <1>1, UnderInduction DEF FrameInv, Downward
<1> QED
  BY <1>2 DEF FrameInv, HooksDone

(* No component ever receives a result still in the making (#buildWith     *)
(* reads results[dep] only after the component of that key has returned).  *)
THEOREM FinishedContexts == Spec => []ContextIsFinished
<1>1. FrameInv => ContextIsFinished
  BY BuiltIsFinished DEF ContextIsFinished, FrameInv, ContextBuilt
<1> QED
  BY <1>1, FrameInvariant, PTL

(***************************************************************************)
(* The dependency graph.                                                   *)
(***************************************************************************)
(* A system exists only if its graph and those nested in it are acyclic.   *)
GraphInv ==
  /\ \A s \in composed : s \in Systems /\ Acyclic(s) /\ Children(s) \cap Systems \subseteq composed
  /\ pc \notin {"composing", "rejected"} => Root \in composed

(* compose() is the only step that touches the graph.                      *)
LEMMA GraphInvStep == TypeOK /\ GraphInv /\ [Next]_vars => GraphInv'
<1> SUFFICES ASSUME TypeOK, GraphInv, [Next]_vars PROVE GraphInv'
  OBVIOUS
<1>1. ASSUME NEW s \in Systems, ComposeSystem(s) PROVE GraphInv'
  <2>1. deps' = deps
    BY <1>1 DEF ComposeSystem, config
  <2>2. CASE Acyclic(s)
    BY <1>1, <2>1, <2>2 DEF ComposeSystem, GraphInv, Acyclic
  <2>3. CASE ~Acyclic(s)
    BY <1>1, <2>1, <2>3 DEF ComposeSystem, GraphInv, Acyclic
  <2> QED
    BY <2>2, <2>3
<1>2. ASSUME UNCHANGED <<deps, composed>>, pc \notin {"composing", "rejected"} \/ pc' = pc
      PROVE GraphInv'
  BY <1>2 DEF GraphInv, Acyclic
<1>3. ASSUME NEW s \in Systems, AfterBuild(s) PROVE GraphInv'
  BY <1>2, <1>3 DEF AfterBuild, config
<1>4. ASSUME NEW c \in Calls, NEW outer \in OuterContexts, CallBuild(c[1], c[2], outer)
      PROVE GraphInv'
  BY <1>2, <1>4 DEF CallBuild, config
<1>5. ASSUME BuildStep PROVE GraphInv'
  <2>1. UNCHANGED <<deps, composed>> /\ pc = "building"
    BY <1>5 DEF BuildStep, RunHook, HookThrows, ReturnSystem, LoopDone, Current, DuplicateId,
                OpenSystem, BuildLeaf, LeafThrows, Throw, config
  <2> QED
    BY <1>2, <2>1
<1>6. CASE UNCHANGED vars
  BY <1>2, <1>6 DEF vars, config
<1> QED
  BY <1>1, <1>3, <1>4, <1>5, <1>6 DEF Next

(* So once build() runs, every system of the tree is acyclic.              *)
LEMMA AllAcyclic ==
  ASSUME GraphInv, pc = "building", NEW s \in Systems
  PROVE  Acyclic(s)
<1> DEFINE C == {n \in Nodes : n \in Systems => n \in composed}
<1>1. Root \in C
  BY TreeFacts DEF GraphInv
<1>2. ASSUME NEW m \in Inner, Parent[m] \in C PROVE m \in C
  BY <1>2, TreeFacts DEF GraphInv, Children, Inner
<1>3. Under[Root] \subseteq C
  <2> HIDE DEF C
  <2>1. C \in SUBSET Nodes
    BY DEF C
  <2> QED
    BY <1>1, <1>2, <2>1, TreeFacts, UnderInduction
<1> QED
  BY <1>3, TreeFacts, RootedAssumption DEF GraphInv

(* The topological loop of #buildWith always finds a next component: an    *)
(* accepted graph cannot leave a build waiting on itself.                  *)
THEOREM Progress == Spec => []NeverStuck
<1>1. FrameInv /\ GraphInv => NeverStuck
  <2> SUFFICES ASSUME FrameInv, GraphInv, pc = "building" PROVE NeverStuck
    BY DEF NeverStuck
  <2>1. PICK s \in Systems : Current(s)
    BY DEF FrameInv, Chain
  <2>2. CASE Children(s) \subseteq built
    BY <2>1, <2>2 DEF NeverStuck
  <2>3. CASE ~(Children(s) \subseteq built)
    <3> DEFINE C == Children(s) \ built
    <3>1. PICK n \in C : deps[n] \cap C = {}
      BY <2>3, AllAcyclic DEF Acyclic
    <3>2. deps[n] \subseteq Children(s)
      BY TreeFacts DEF FrameInv, TypeOK, Siblings, Children
    <3>3. n \in Children(s) /\ Ready(s, n)
      BY <3>1, <3>2 DEF Ready
    <3> QED
      BY <2>1, <3>3 DEF NeverStuck
  <2> QED
    BY <2>2, <2>3
<1>2. Init => GraphInv
  BY DEF Init, GraphInv
<1>3. TypeOK /\ GraphInv /\ [Next]_vars => GraphInv'
  BY GraphInvStep
<1> QED
  BY <1>1, <1>2, <1>3, TypeCorrect, FrameInvariant, PTL DEF Spec

(***************************************************************************)
(* Refinement of SystemBuild.                                              *)
(***************************************************************************)
(* When a builder is about to run, every builder that anything around it   *)
(* depends on has run.                                                     *)
LEMMA PrerequisitesDone ==
  ASSUME FrameInv, NEW s \in Systems, NEW n \in Children(s), Current(s), Ready(s, n),
         NEW a \in Leaves, <<a, n>> \in LiftedDeps
  PROVE  a \in built
<1>1. PICK b \in Inner : \E d \in deps[b] : a \in Under[d] /\ n \in Under[b]
  BY DEF LiftedDeps
<1>2. PICK d \in deps[b] : a \in Under[d] /\ n \in Under[b]
  BY <1>1
<1>3. /\ n \in Inner /\ Parent[n] = s /\ s \in open /\ deps[n] \subseteq built
      /\ pc = "building"
  BY ReadyFacts
<1>4. b \in Entered \/ b = n
  <2> SUFFICES ASSUME b \notin Entered, b # n PROVE FALSE
    OBVIOUS
  <2> DEFINE C == Nodes \ (Entered \cup {n})
  <2>1. b \in C /\ b \in Nodes /\ C \in SUBSET Nodes
    BY DEF Inner
  <2>2. ASSUME NEW m \in Inner, Parent[m] \in C PROVE m \in C
    BY <1>3, <2>2 DEF FrameInv, Upward, Entered, Inner
  <2> HIDE DEF C
  <2>3. n \in C
    BY <1>2, <2>1, <2>2, UnderInduction
  <2> QED
    BY <2>3 DEF C
<1>5. deps[b] \subseteq built
  BY <1>3, <1>4 DEF FrameInv, DepsBuilt
<1>6. d \in built /\ d \in Nodes /\ built \in SUBSET Nodes
  BY <1>5 DEF FrameInv, TypeOK
<1>7. Under[d] \subseteq built
  BY <1>6, UnderInduction DEF FrameInv, Downward
<1> QED
  BY <1>2, <1>7

(* Nested composition implements SystemBuild: whatever the nesting, the    *)
(* builders run in the order of the lifted dependencies, and a build that  *)
(* returns has run them all.                                               *)
THEOREM Refinement == Spec => RefinesSystemBuild
<1>1. Init => Flat!Init
  BY DEF Init, Flat!Init, LiftedDeps, StateOf
<1>2. FrameInv /\ FrameInv' /\ [Next]_vars => [Flat!Next]_(Flat!vars)
  <2> SUFFICES ASSUME FrameInv, FrameInv', [Next]_vars PROVE [Flat!Next]_(Flat!vars)
    OBVIOUS
  <2>0. TypeOK /\ Phases = {"composing", "rejected", "ready", "building", "returned", "threw"}
    BY DEF FrameInv, Phases
  <2>1. deps' = deps => LiftedDeps' = LiftedDeps
    BY DEF LiftedDeps
  <2>2. ASSUME deps' = deps, StateOf' = StateOf, (built \cap Leaves)' = built \cap Leaves
        PROVE  Flat!vars' = Flat!vars
    BY <2>1, <2>2 DEF Flat!vars
  <2>3. ASSUME deps' = deps, pc = "building", pc' = "threw", built' = built
        PROVE  Flat!Next
    BY <2>1, <2>3 DEF Flat!Next, Flat!Fail, StateOf
  <2>4. ASSUME NEW s \in Systems, ComposeSystem(s) PROVE Flat!vars' = Flat!vars
    <3>1. deps' = deps /\ built' = built /\ StateOf = "idle" /\ StateOf' = "idle"
      BY <2>4 DEF ComposeSystem, config, frame, StateOf
    <3> QED
      BY <2>2, <3>1
  <2>5. ASSUME NEW s \in Systems, AfterBuild(s) PROVE Flat!vars' = Flat!vars
    BY <2>2, <2>5 DEF AfterBuild, config, frame, StateOf
  <2>6. ASSUME NEW c \in Calls, NEW outer \in OuterContexts, CallBuild(c[1], c[2], outer)
        PROVE  Flat!Next
    <3>1. deps' = deps /\ built' = {} /\ StateOf \in {"idle", "complete", "failed"}
          /\ StateOf' = "running"
      BY <2>6 DEF CallBuild, config, StateOf
    <3> QED
      BY <2>1, <3>1 DEF Flat!Next, Flat!Begin
  <2>7. ASSUME NEW s \in Systems, NEW n \in Children(s), DuplicateId(s, n) PROVE Flat!Next
    BY <2>3, <2>7 DEF DuplicateId, Throw, Current, config
  <2>8. ASSUME NEW s \in Systems, NEW n \in Children(s), NEW w \in Wants, NEW e \in Errors,
               LeafThrows(s, n, w, e)
        PROVE  Flat!Next
    BY <2>3, <2>8 DEF LeafThrows, Throw, Current, config
  <2>9. ASSUME NEW s \in Systems, HookThrows(s) PROVE Flat!Next
    BY <2>3, <2>9 DEF HookThrows, LoopDone, Throw, Current, config
  <2>10. ASSUME NEW s \in Systems, NEW n \in Children(s), OpenSystem(s, n)
         PROVE  Flat!vars' = Flat!vars
    BY <2>2, <2>10 DEF OpenSystem, config, StateOf
  <2>11. ASSUME NEW s \in Systems, RunHook(s) PROVE Flat!vars' = Flat!vars
    BY <2>2, <2>11 DEF RunHook, config, StateOf
  <2>12. ASSUME NEW s \in Systems, NEW n \in Children(s), NEW w \in Wants, BuildLeaf(s, n, w)
         PROVE  Flat!Next
    <3>1. /\ Current(s) /\ Ready(s, n) /\ n \in Leaves /\ deps' = deps
          /\ built' = built \cup {n} /\ pc' = pc /\ pc = "building"
      BY <2>12 DEF BuildLeaf, Current, config
    <3>2. n \notin built
      BY <3>1 DEF Ready
    <3>3. \A a \in Leaves : <<a, n>> \in LiftedDeps => a \in built \cap Leaves
      BY <3>1, PrerequisitesDone
    <3>4. (built \cap Leaves)' = (built \cap Leaves) \cup {n}
      BY <3>1
    <3>5. StateOf = "running" /\ StateOf' = "running"
      BY <3>1 DEF StateOf
    <3> QED
      BY <2>1, <3>1, <3>2, <3>3, <3>4, <3>5 DEF Flat!Next, Flat!Run
  <2>13. ASSUME NEW s \in Systems, ReturnSystem(s) PROVE [Flat!Next]_(Flat!vars)
    <3>1. /\ deps' = deps /\ built' = built \cup {s} /\ pc = "building"
          /\ pc' = IF s = Root THEN "returned" ELSE pc
          /\ (built \cap Leaves)' = built \cap Leaves
      BY <2>13 DEF ReturnSystem, LoopDone, Current, config, Leaves
    <3>2. CASE s # Root
      BY <2>2, <3>1, <3>2 DEF StateOf
    <3>3. CASE s = Root
      <4>1. built' \in SUBSET Nodes /\ Root \in built' /\ Root \in Nodes
        BY <3>1, <3>3, TreeFacts DEF FrameInv, TypeOK
      <4>2. \A m \in Inner : Parent[m] \in built' => m \in built'
        BY DEF FrameInv, Downward
      <4>3. Under[Root] \subseteq built'
        BY <4>1, <4>2, UnderInduction
      <4>4. built \cap Leaves = Leaves
        BY <3>1, <4>3, RootedAssumption DEF Leaves
      <4>5. StateOf = "running" /\ StateOf' = "complete"
        BY <3>1, <3>3 DEF StateOf
      <4> QED
        BY <2>1, <3>1, <4>4, <4>5 DEF Flat!Next, Flat!Complete
    <3> QED
      BY <3>2, <3>3
  <2>14. CASE UNCHANGED vars
    BY <2>2, <2>14 DEF vars, config, frame, StateOf
  <2> QED
    BY <2>4, <2>5, <2>6, <2>7, <2>8, <2>9, <2>10, <2>11, <2>12, <2>13, <2>14
    DEF Next, BuildStep
<1> QED
  BY <1>1, <1>2, FrameInvariant, PTL DEF Spec, RefinesSystemBuild, Flat!Spec
=============================================================================
