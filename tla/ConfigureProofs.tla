--------------------------- MODULE ConfigureProofs ---------------------------
(***************************************************************************)
(* Proofs about what a program configures before and between builds: stack *)
(* strategies (StackStrategies), after-build hooks that tag and export     *)
(* (AfterBuildHooks), and builders, their properties, tags and grants      *)
(* (Builders); for any number of components, stacks, hooks, builders and   *)
(* calls.                                                                  *)
(***************************************************************************)
EXTENDS StackStrategies, AfterBuildHooks, Builders, CommonLemmas, FiniteSetTheorems, TLAPS


(***************************************************************************)
(* Stack strategies: the inductive invariant.                              *)
(***************************************************************************)
\* A strategy remembers stacks of its own making, a different one per group.
MemoryApart ==
  \A st \in Strategies : \A g \in DOMAIN memo[st] :
    /\ memo[st][g] \in stacks /\ memo[st][g].by = st
    /\ \A h \in DOMAIN memo[st] : memo[st][g] = memo[st][h] => g = h

\* A key is resolved to what its strategy remembers for its group.
Remembers(m, st, k, s) == GroupOf(st, k) \in DOMAIN m[st] /\ m[st][GroupOf(st, k)] = s
ResolvedRemembered ==
  \A i \in 1..Len(resolved) : Remembers(memo, build.st, Keys[i], resolved[i])

\* What was placed, in this build or an earlier one, is still remembered.
PlacedRemembered ==
  \A p \in placed : p.stack.by \in Strategies /\ Remembers(memo, p.stack.by, p.key, p.stack)

\* Stacks come from strategies that were made, and so does a running build.
Makers ==
  /\ \A s \in stacks : s.by \in Strategies /\ holds[s.by] # "none"
  /\ pc # "idle" => holds[build.st] # "none"

StrategyInv ==
  /\ build.st \in Strategies
  /\ DOMAIN memo = Strategies /\ DOMAIN holds = Strategies
  /\ resolved \in Seq(stacks) /\ Len(resolved) <= Len(Keys)
  /\ MemoryApart /\ ResolvedRemembered /\ PlacedRemembered
  /\ Makers /\ CopyIsSnapshot

(* Resolving a key to a stack its strategy already had, or has just made   *)
(* and remembered, keeps what holds of the resolved keys.                  *)
LEMMA ResolveOne ==
  ASSUME StrategyInv, Resolving, NEW s \in stacks', stacks \subseteq stacks',
         resolved' = Append(resolved, s), build' = build,
         \A i \in 1..Len(resolved) : Remembers(memo', build.st, Keys[i], resolved[i]),
         Remembers(memo', build.st, NextKey, s)
  PROVE  /\ resolved' \in Seq(stacks') /\ Len(resolved') <= Len(Keys)
         /\ ResolvedRemembered'
<1>1. resolved \in Seq(stacks) /\ resolved \in Seq(stacks') /\ Keys \in Seq(Range(Keys))
  BY StrategyAssumption DEF StrategyInv
<1>2. /\ Len(resolved') = Len(resolved) + 1 /\ resolved' \in Seq(stacks')
      /\ resolved'[Len(resolved) + 1] = s
      /\ \A i \in 1..Len(resolved) : resolved'[i] = resolved[i]
  BY <1>1
<1>3. Len(resolved') <= Len(Keys)
  BY <1>1, <1>2 DEF Resolving
<1>4. ASSUME NEW i \in 1..Len(resolved') PROVE Remembers(memo', build.st, Keys[i], resolved'[i])
  <2>1. CASE i \in 1..Len(resolved)
    BY <1>2, <2>1
  <2>2. CASE i = Len(resolved) + 1
    BY <1>2, <2>2 DEF NextKey
  <2> QED
    BY <1>1, <1>2, <2>1, <2>2
<1> QED
  BY <1>2, <1>3, <1>4 DEF ResolvedRemembered

(* A new stack is unlike any before it, and is remembered for one group.   *)
LEMMA CreateStackKeeps == StrategyInv /\ CreateStack => StrategyInv'
<1> SUFFICES ASSUME StrategyInv, CreateStack PROVE StrategyInv'
  OBVIOUS
<1> DEFINE st == build.st
           g == GroupOf(st, NextKey)
           s == [app |-> build.app, id |-> StackId(st, NextKey),
                 cfg |-> ConfigOf(st), by |-> st, run |-> build.run]
<1>1. /\ Resolving /\ g \notin DOMAIN memo[st] /\ ~Taken(s.app, s.id)
      /\ stacks' = stacks \cup {s} /\ resolved' = Append(resolved, s)
      /\ memo' = [memo EXCEPT ![st] = [h \in DOMAIN @ \cup {g} |-> IF h = g THEN s ELSE @[h]]]
      /\ UNCHANGED <<version, holds, pc, err, build, placed>>
  BY DEF CreateStack, Known
<1>2. s \notin stacks /\ s.by = st /\ st \in Strategies
  BY <1>1 DEF Taken, StrategyInv
<1>3. /\ DOMAIN memo' = Strategies
      /\ memo'[st] = [h \in DOMAIN memo[st] \cup {g} |-> IF h = g THEN s ELSE memo[st][h]]
      /\ \A t \in Strategies \ {st} : memo'[t] = memo[t]
  BY <1>1, <1>2 DEF StrategyInv
<1> HIDE DEF s, g, st
<1>4. ASSUME NEW t \in Strategies, NEW k, NEW x, Remembers(memo, t, k, x)
      PROVE  Remembers(memo', t, k, x)
  BY <1>1, <1>3, <1>4 DEF Remembers
<1>5. MemoryApart'
  BY <1>1, <1>2, <1>3 DEF StrategyInv, MemoryApart
<1>6. resolved' \in Seq(stacks') /\ Len(resolved') <= Len(Keys) /\ ResolvedRemembered'
  <2>1. Remembers(memo', build.st, NextKey, s)
    BY <1>3 DEF Remembers, g, st
  <2>2. \A i \in 1..Len(resolved) : Remembers(memo', build.st, Keys[i], resolved[i])
    BY <1>4 DEF StrategyInv, ResolvedRemembered
  <2> QED
    BY <1>1, <2>1, <2>2, ResolveOne
<1>7. PlacedRemembered'
  BY <1>1, <1>4 DEF StrategyInv, PlacedRemembered
<1>8. Makers' /\ CopyIsSnapshot'
  <2>1. holds[st] # "none" /\ s.cfg = ConfigOf(st)
    BY <1>1 DEF StrategyInv, Makers, Resolving, s, st
  <2> QED
    BY <1>1, <1>2, <2>1 DEF StrategyInv, Makers, CopyIsSnapshot, ConfigOf, st
<1> QED
  BY <1>1, <1>3, <1>5, <1>6, <1>7, <1>8 DEF StrategyInv

(* Every step keeps the invariant.                                         *)
LEMMA StrategyInvStep == StrategyInv /\ [StrategyNext]_strategyVars => StrategyInv'
<1> SUFFICES ASSUME StrategyInv, [StrategyNext]_strategyVars PROVE StrategyInv'
  OBVIOUS
<1>1. ASSUME UNCHANGED <<holds, memo, stacks, build, resolved, placed>>,
             pc' = pc \/ pc' = "idle" \/ pc # "idle"
      PROVE  StrategyInv'
  BY <1>1 DEF StrategyInv, MemoryApart, ResolvedRemembered, PlacedRemembered, Remembers,
              Makers, CopyIsSnapshot
<1>2. CASE Configure
  BY <1>1, <1>2 DEF Configure
<1>3. ASSUME NEW st \in Strategies, NEW mode \in {"live", "copy"}, CreateStrategy(st, mode)
      PROVE  StrategyInv'
  BY <1>3 DEF CreateStrategy, StrategyInv, MemoryApart, ResolvedRemembered, PlacedRemembered,
              Remembers, Makers, CopyIsSnapshot
<1>4. ASSUME NEW st \in Strategies, NEW app \in Apps, NEW id \in SystemIds,
             StartBuild(st, app, id)
      PROVE  StrategyInv'
  BY <1>4 DEF StartBuild, StrategyInv, MemoryApart, ResolvedRemembered, PlacedRemembered,
              Remembers, Makers, CopyIsSnapshot
<1>5. CASE Reuse
  <2> DEFINE s == memo[build.st][GroupOf(build.st, NextKey)]
  <2>1. /\ Resolving /\ GroupOf(build.st, NextKey) \in DOMAIN memo[build.st]
        /\ resolved' = Append(resolved, s) /\ build.st \in Strategies
        /\ UNCHANGED <<version, holds, memo, stacks, pc, err, build, placed>>
    BY <1>5 DEF Reuse, Known, StrategyInv
  <2>2. s \in stacks
    BY <2>1 DEF StrategyInv, MemoryApart
  <2> HIDE DEF s
  <2>3. /\ Remembers(memo', build.st, NextKey, s)
        /\ \A i \in 1..Len(resolved) : Remembers(memo', build.st, Keys[i], resolved[i])
    BY <2>1 DEF StrategyInv, ResolvedRemembered, Remembers, s
  <2>4. resolved' \in Seq(stacks') /\ Len(resolved') <= Len(Keys) /\ ResolvedRemembered'
    BY <2>1, <2>2, <2>3, ResolveOne
  <2> QED
    BY <2>1, <2>4 DEF StrategyInv, MemoryApart, PlacedRemembered, Remembers,
                      Makers, CopyIsSnapshot
<1>6. CASE CreateStack
  BY <1>6, CreateStackKeeps
<1>7. CASE CreateStackThrows \/ ComponentThrows
  BY <1>1, <1>7 DEF CreateStackThrows, ComponentThrows, Fail
<1>8. CASE BeginComponents \/ Return
  BY <1>1, <1>8 DEF BeginComponents, AllResolved, Return
<1>9. ASSUME NEW i \in 1..Len(Keys), BuildComponent(i) PROVE StrategyInv'
  <2> DEFINE p == [key |-> Keys[i], stack |-> resolved[i], run |-> build.run]
  <2>1. /\ i \in 1..Len(resolved) /\ placed' = placed \cup {p}
        /\ UNCHANGED <<version, holds, memo, stacks, pc, err, build, resolved>>
    BY <1>9 DEF BuildComponent, Unplaced
  <2>2. build.st \in Strategies /\ Remembers(memo, build.st, p.key, p.stack)
    BY <2>1 DEF StrategyInv, ResolvedRemembered
  <2>3. p.stack.by = build.st
    BY <2>2 DEF StrategyInv, MemoryApart, Remembers
  <2> HIDE DEF p
  <2>4. PlacedRemembered'
    BY <2>1, <2>2, <2>3 DEF StrategyInv, PlacedRemembered, Remembers
  <2> QED
    BY <2>1, <2>4 DEF StrategyInv, MemoryApart, ResolvedRemembered, Remembers,
                      Makers, CopyIsSnapshot
<1>10. CASE UNCHANGED strategyVars
  BY <1>1, <1>10 DEF strategyVars
<1> QED
  BY <1>2, <1>3, <1>4, <1>5, <1>6, <1>7, <1>8, <1>9, <1>10 DEF StrategyNext

(* In every reachable state a strategy remembers, for each group it has    *)
(* met, a stack of its own, and keys are where it remembers.               *)
THEOREM StrategyInvariant == StrategySpec => []StrategyInv
<1>1. StrategyInit => StrategyInv
  BY StrategyAssumption
  DEF StrategyInit, StrategyInv, MemoryApart, ResolvedRemembered, PlacedRemembered,
      Makers, CopyIsSnapshot
<1> QED
  BY <1>1, StrategyInvStep, PTL DEF StrategySpec

(* Two components of a build share a stack exactly when the classifier     *)
(* puts them in one group, whether the stack is new or remembered from a   *)
(* build on another app (groupedStacks keys its map by group alone).       *)
THEOREM OneStackPerGroup == StrategySpec => []SameStackIffSameGroup
<1>1. StrategyInv => SameStackIffSameGroup
  BY StrategyAssumption
  DEF StrategyInv, SameStackIffSameGroup, MemoryApart, ResolvedRemembered, Remembers, GroupOf
<1> QED
  BY <1>1, StrategyInvariant, PTL

(* A strategy given builder.copy() makes every stack with the              *)
(* configuration of the moment of the copy, whatever the user does to the  *)
(* original afterwards and however many builds reuse the strategy.         *)
THEOREM CopiesAreSnapshots == StrategySpec => []CopyIsSnapshot
<1>1. StrategyInv => CopyIsSnapshot
  BY DEF StrategyInv
<1> QED
  BY <1>1, StrategyInvariant, PTL

(* A component of a key a strategy has placed before goes to the very same *)
(* stack, in every later build, on any app.                                *)
THEOREM StacksAreKept == StrategySpec => StrategyNeverMoves
<1> DEFINE Kept == \A p \in placed' \ placed : \A q \in placed :
                     q.key = p.key /\ q.stack.by = p.stack.by => q.stack = p.stack
<1>1. StrategyInv /\ [StrategyNext]_strategyVars => Kept
  <2> SUFFICES ASSUME StrategyInv, [StrategyNext]_strategyVars,
                      NEW p \in placed' \ placed, NEW q \in placed,
                      q.key = p.key, q.stack.by = p.stack.by
               PROVE  q.stack = p.stack
    OBVIOUS
  <2>1. PICK i \in 1..Len(Keys) : BuildComponent(i)
    <3>1. placed' # placed
      OBVIOUS
    <3> QED
      BY <3>1
      DEF StrategyNext, strategyVars, Configure, CreateStrategy, StartBuild, Reuse, CreateStack,
          CreateStackThrows, BeginComponents, ComponentThrows, Return, Fail
  <2>2. i \in 1..Len(resolved) /\ p.key = Keys[i] /\ p.stack = resolved[i]
    BY <2>1 DEF BuildComponent, Unplaced
  <2>3. Remembers(memo, build.st, p.key, p.stack) /\ build.st \in Strategies
    BY <2>2 DEF StrategyInv, ResolvedRemembered
  <2>4. p.stack.by = build.st
    BY <2>3 DEF StrategyInv, MemoryApart, Remembers
  <2>5. Remembers(memo, build.st, q.key, q.stack)
    BY <2>4 DEF StrategyInv, PlacedRemembered
  <2> QED
    BY <2>3, <2>5 DEF Remembers
<1> HIDE DEF Kept
<1>2. StrategySpec => [][Kept]_strategyVars
  BY <1>1, StrategyInvariant, PTL DEF StrategySpec
<1> QED
  BY <1>2 DEF Kept, StrategyNeverMoves

-----------------------------------------------------------------------------
(***************************************************************************)
(* The inductive invariant of the hooks.                                   *)
(***************************************************************************)

\* Every variable holds a value of its type; the hooks run one after another, and
\* none before the program has made them all.
HookTypes ==
  /\ hooks \in Seq(TagsHooks \cup OutputsHooks)
  /\ layout \in [Component -> Scopes] /\ ready \in 0..Len(hooks)
  /\ turn \in Nat /\ entry \in Nat
  /\ after = "making" => turn = 0 /\ entry = 1
  /\ after = "running" => turn \in 1..Len(hooks)
  /\ after = "done" => turn = Len(hooks) + 1

\* The hooks that have run and say something of a scope, the last of which
\* decides which text was set last on it.
Spoke(scope) == {i \in DOMAIN hooks : i < turn /\ Says(hooks[i], scope) # {}}
MarksFollow ==
  after \in {"making", "running", "done"} =>
    /\ marks \in [Scopes -> Seq(STRING)]
    /\ \A scope \in Scopes :
         /\ marks[scope] = <<>> <=> Spoke(scope) = {}
         /\ \A i \in Spoke(scope) :
              (\A j \in Spoke(scope) : j <= i) => Last(marks[scope]) \in Says(hooks[i], scope)

\* Every definition of an output that has been reached is in the tree.
Placed(h, k) == <<Target(h, h.entries[k]), h.entries[k].name>>
ExportsFollow ==
  \A i \in DOMAIN hooks : hooks[i].kind = "outputs" =>
    \A k \in DOMAIN hooks[i].entries :
      i < turn \/ (i = turn /\ k < entry) => Placed(hooks[i], k) \in exported

HooksInv == HookTypes /\ MarksFollow /\ ExportsFollow

(***************************************************************************)
(* What one hook adds.                                                     *)
(***************************************************************************)
(* A tags() hook adds a text to a scope just when it says something of it, *)
(* and the last it adds is one of what it says.                            *)
LEMMA AddedTexts ==
  ASSUME NEW h \in TagsHooks, NEW scope
  PROVE  LET added == TagsAdded(h, Len(h.entries), scope) IN
         /\ added \in Seq(STRING) /\ (added = <<>> <=> Says(h, scope) = {})
         /\ added # <<>> => Last(added) \in Says(h, scope)
<1> DEFINE n == Len(h.entries)
           here(i) == layout[h.entries[i].at] = scope
           ss == [i \in 1..n |-> IF here(i) THEN <<h.entries[i].text>> ELSE <<>>]
           E == Entered(h, n, scope)
           G == IF scope = TopOf(h.of) THEN Given(h.system) ELSE <<>>
           named == {h.entries[i].text : i \in {j \in DOMAIN h.entries : here(j)}}
<1>0. h.entries \in Seq([at : STRING, text : STRING]) /\ h.kind = "tags" /\ h.system \in STRING
  <2> HIDE DEF n, here, ss, E, G, named
  <2> QED
    BY DEF TagsHooks
<1>1. n \in Nat /\ DOMAIN h.entries = 1..n /\ \A i \in 1..n : h.entries[i].text \in STRING
  <2> DEFINE T == [at : STRING, text : STRING]
             r == h.entries
  <2>1. r \in Seq(T) /\ \A e \in T : e.text \in STRING
    BY <1>0
  <2> HIDE DEF T, r, here, ss, E, G, named
  <2>2. Len(r) \in Nat /\ DOMAIN r = 1..Len(r) /\ \A i \in 1..Len(r) : r[i] \in T
    BY <2>1
  <2> QED
    BY <2>1, <2>2 DEF r
<1> HIDE DEF n
<1>2. ss \in Seq(Seq(STRING)) /\ DOMAIN ss = 1..n
      /\ \A i \in 1..n : ss[i] = IF here(i) THEN <<h.entries[i].text>> ELSE <<>>
  <2> HIDE DEF here, E, G, named
  <2>1. \A i \in 1..n : (IF here(i) THEN <<h.entries[i].text>> ELSE <<>>) \in Seq(STRING)
    <3> SUFFICES ASSUME NEW i \in 1..n
                 PROVE  (IF here(i) THEN <<h.entries[i].text>> ELSE <<>>) \in Seq(STRING)
      OBVIOUS
    <3> DEFINE t == h.entries[i].text
    <3>1. t \in STRING
      BY <1>1
    <3> HIDE DEF t
    <3>2. <<t>> \in Seq(STRING) /\ <<>> \in Seq(STRING)
      BY <3>1, OneElement
    <3> QED
      BY <3>2 DEF t
  <2>2. ss \in [1..n -> Seq(STRING)]
    BY <2>1
  <2>3. \A i \in 1..n : ss[i] = IF here(i) THEN <<h.entries[i].text>> ELSE <<>>
    OBVIOUS
  <2> HIDE DEF ss
  <2> QED
    BY <1>1, <2>2, <2>3
<1>3. /\ E = FlattenSeq(ss) /\ E \in Seq(STRING)
      /\ \A i \in DOMAIN E : \E j \in DOMAIN ss : \E k \in DOMAIN ss[j] : ss[j][k] = E[i]
      /\ \A j \in DOMAIN ss : \A k \in DOMAIN ss[j] : \E i \in DOMAIN E : E[i] = ss[j][k]
  <2>1. E = FlattenSeq(ss)
    BY DEF Entered
  <2> DEFINE F == FlattenSeq(ss)
  <2> HIDE DEF ss, E, here, G, named
  <2>2. ss \in Seq(Seq(STRING))
    BY <1>2
  <2>3. /\ F \in Seq(STRING)
        /\ \A i \in DOMAIN F : \E j \in DOMAIN ss : \E k \in DOMAIN ss[j] : ss[j][k] = F[i]
        /\ \A j \in DOMAIN ss : \A k \in DOMAIN ss[j] : \E i \in DOMAIN F : F[i] = ss[j][k]
    BY <2>2, FlattenElements
  <2>4. E = F
    BY <2>1
  <2> HIDE DEF F
  <2> QED
    BY <2>1, <2>3, <2>4 DEF F
<1> HIDE DEF ss, E
<1>4. \A i \in DOMAIN E : E[i] \in named
  <2> SUFFICES ASSUME NEW i \in DOMAIN E PROVE E[i] \in named
    OBVIOUS
  <2>1. PICK j \in DOMAIN ss : \E k \in DOMAIN ss[j] : ss[j][k] = E[i]
    BY <1>3
  <2>2. PICK k \in DOMAIN ss[j] : ss[j][k] = E[i]
    BY <2>1
  <2>3. j \in 1..n /\ here(j) /\ ss[j][k] = h.entries[j].text
    <3>1. j \in 1..n /\ ss[j] = IF here(j) THEN <<h.entries[j].text>> ELSE <<>>
      BY <1>2
    <3> HIDE DEF here
    <3> QED
      BY <3>1
  <2> QED
    BY <1>1, <2>2, <2>3
<1>5. named # {} => DOMAIN E # {}
  <2> SUFFICES ASSUME NEW j \in 1..n, here(j) PROVE DOMAIN E # {}
    BY <1>1
  <2>1. j \in DOMAIN ss /\ 1 \in DOMAIN ss[j]
    BY <1>2
  <2> QED
    BY <1>3, <2>1
<1>6. Says(h, scope) = IF named # {} THEN named
                       ELSE IF scope = TopOf(h.of) THEN {h.system} \ {NoText} ELSE {}
  BY <1>0 DEF Says
<1>7. TagsAdded(h, n, scope) = G \o E
  BY DEF TagsAdded, E
<1>8. /\ G \in Seq(STRING) /\ (G = <<>> \/ G = <<h.system>>)
      /\ (G # <<>> <=> scope = TopOf(h.of) /\ h.system # NoText)
  <2> HIDE DEF here, named
  <2>1. CASE scope = TopOf(h.of) /\ h.system # NoText
    <3>1. G = <<h.system>>
      BY <2>1 DEF Given
    <3> HIDE DEF G
    <3> QED
      BY <1>0, <2>1, <3>1
  <2>2. CASE ~(scope = TopOf(h.of) /\ h.system # NoText)
    <3>1. G = <<>>
      BY <2>2 DEF Given
    <3> HIDE DEF G
    <3> QED
      BY <2>2, <3>1
  <2> QED
    BY <2>1, <2>2
<1> HIDE DEF G, named
<1>9. CASE named # {}
  <2>1. E # <<>> /\ Len(E) \in Nat \ {0} /\ Len(E) \in DOMAIN E
    BY <1>3, <1>5, <1>9
  <2>2. /\ G \o E \in Seq(STRING) /\ G \o E # <<>> /\ (G \o E)[Len(G \o E)] = E[Len(E)]
    BY <1>3, <1>8, <2>1
  <2>3. Last(G \o E) \in named
    BY <1>4, <2>1, <2>2 DEF Last
  <2> QED
    BY <1>6, <1>7, <1>9, <2>2, <2>3 DEF n
<1>10. CASE named = {}
  <2>1. E = <<>> /\ G \o E = G
    <3>1. DOMAIN E = {} /\ E \in Seq(STRING)
      BY <1>3, <1>4, <1>10
    <3>2. E = <<>>
      BY <3>1
    <3> QED
      BY <1>8, <3>2
  <2>2. Says(h, scope) = IF scope = TopOf(h.of) THEN {h.system} \ {NoText} ELSE {}
    BY <1>6, <1>10
  <2>3. G = <<>> <=> Says(h, scope) = {}
    BY <1>8, <2>2
  <2>4. G # <<>> => Last(G) \in Says(h, scope)
    <3> SUFFICES ASSUME G # <<>> PROVE Last(G) \in Says(h, scope)
      OBVIOUS
    <3>1. G = <<h.system>> /\ h.system \in Says(h, scope)
      BY <1>8, <2>2
    <3> QED
      BY <3>1 DEF Last
  <2> QED
    BY <1>7, <1>8, <2>1, <2>3, <2>4 DEF n
<1> QED
  BY <1>9, <1>10
(***************************************************************************)
(* The invariant holds, and implies the property.                          *)
(***************************************************************************)
(* It holds before a hook is made: nothing is set and nothing exported.    *)
LEMMA HooksInit == NoHooks => HooksInv
<1> SUFFICES ASSUME NoHooks PROVE HooksInv
  OBVIOUS
<1>1. hooks \in Seq(TagsHooks \cup OutputsHooks) /\ Len(hooks) \in Nat
  BY HooksAssumption DEF NoHooks
<1>2. HookTypes
  BY <1>1 DEF NoHooks, HookTypes, Scopes
<1>3. MarksFollow
  <2>1. \A scope \in Scopes : Spoke(scope) = {} /\ marks[scope] = <<>>
    BY <1>1 DEF NoHooks, Spoke, Scopes
  <2>2. marks \in [Scopes -> Seq(STRING)]
    BY DEF NoHooks, Scopes
  <2> QED
    BY <2>1, <2>2 DEF MarksFollow
<1>4. ExportsFollow
  BY <1>1 DEF NoHooks, ExportsFollow
<1> QED
  BY <1>2, <1>3, <1>4 DEF HooksInv

(* When a hook has run, it has spoken of what it says something of.        *)
LEMMA OneMoreSpoke ==
  ASSUME HookTypes, turn \in 1..Len(hooks), turn' = turn + 1, hooks' = hooks, layout' = layout,
         NEW scope
  PROVE  Spoke(scope)' = IF Says(Hook, scope) # {} THEN Spoke(scope) \cup {turn} ELSE Spoke(scope)
<1>1. hooks \in Seq(TagsHooks \cup OutputsHooks) /\ DOMAIN hooks = 1..Len(hooks) /\ Len(hooks) \in Nat
  BY DEF HookTypes
<1>2. \A i \in DOMAIN hooks : Says(hooks[i], scope)' = Says(hooks[i], scope)
  BY DEF Says, TopOf
<1>3. \A i \in DOMAIN hooks : i < turn' <=> i < turn \/ i = turn
  BY <1>1
<1>4. Spoke(scope)' = {i \in DOMAIN hooks : i < turn' /\ Says(hooks[i], scope) # {}}
  BY <1>2 DEF Spoke
<1> HIDE DEF Says
<1> QED
  BY <1>1, <1>3, <1>4 DEF Spoke, Hook

(* A hook that adds just the texts that it says keeps the marks right.     *)
LEMMA MarksKept ==
  ASSUME HooksInv, after = "running", turn' = turn + 1, hooks' = hooks, layout' = layout,
         NEW added \in [Scopes -> Seq(STRING)],
         \A s \in Scopes :
           /\ added[s] = <<>> <=> Says(Hook, s) = {}
           /\ added[s] # <<>> => Last(added[s]) \in Says(Hook, s),
         marks' = [s \in Scopes |-> marks[s] \o added[s]]
  PROVE  MarksFollow'
<1>1. /\ HookTypes /\ turn \in 1..Len(hooks) /\ turn \in Nat
      /\ marks \in [Scopes -> Seq(STRING)] /\ DOMAIN hooks = 1..Len(hooks)
  BY DEF HooksInv, HookTypes, MarksFollow
<1>2. \A s \in Scopes : marks[s] \in Seq(STRING) /\ marks'[s] = marks[s] \o added[s]
                        /\ marks'[s] \in Seq(STRING)
  BY <1>1
<1>3. marks' \in [Scopes -> Seq(STRING)]
  BY <1>2
<1>4. ASSUME NEW s \in Scopes
      PROVE  /\ marks'[s] = <<>> <=> Spoke(s)' = {}
             /\ \A i \in Spoke(s)' :
                  (\A j \in Spoke(s)' : j <= i) => Last(marks'[s]) \in Says(hooks[i], s)'
  <2>1. \A i \in DOMAIN hooks : Says(hooks[i], s)' = Says(hooks[i], s)
    BY DEF Says, TopOf
  <2>2. Spoke(s) \subseteq DOMAIN hooks /\ \A i \in Spoke(s) : i < turn
    BY DEF Spoke
  <2>3. /\ marks[s] = <<>> <=> Spoke(s) = {}
        /\ \A i \in Spoke(s) :
             (\A j \in Spoke(s) : j <= i) => Last(marks[s]) \in Says(hooks[i], s)
    BY DEF HooksInv, MarksFollow
  <2>4. CASE Says(Hook, s) = {}
    <3>1. Spoke(s)' = Spoke(s)
      BY <1>1, <2>4, OneMoreSpoke
    <3>2. marks'[s] = marks[s]
      BY <1>2, <2>4
    <3> QED
      BY <2>1, <2>2, <2>3, <3>1, <3>2
  <2>5. CASE Says(Hook, s) # {}
    <3>1. Spoke(s)' = Spoke(s) \cup {turn}
      BY <1>1, <2>5, OneMoreSpoke
    <3>2. \A i \in Spoke(s)' : (\A j \in Spoke(s)' : j <= i) => i = turn
      <4> SUFFICES ASSUME NEW i \in Spoke(s)', \A j \in Spoke(s)' : j <= i PROVE i = turn
        OBVIOUS
      <4>1. turn <= i /\ (i = turn \/ (i \in 1..Len(hooks) /\ i < turn))
        BY <1>1, <2>2, <3>1
      <4> QED
        BY <1>1, <4>1
    <3>3. /\ added[s] \in Seq(STRING) /\ added[s] # <<>>
          /\ Last(added[s]) \in Says(Hook, s)
      BY <2>5
    <3>4. marks'[s] # <<>> /\ Last(marks'[s]) = Last(added[s])
      BY <1>2, <3>3 DEF Last
    <3>5. \A i \in Spoke(s)' : i = turn => Says(hooks[i], s)' = Says(Hook, s)
      BY <1>1, <2>1 DEF Hook
    <3> QED
      BY <3>1, <3>2, <3>3, <3>4, <3>5
  <2> QED
    BY <2>4, <2>5
<1> QED
  BY <1>3, <1>4 DEF MarksFollow

(* The number of the hook after one that is not the last.                  *)
LEMMA TurnBound ==
  ASSUME NEW n \in Nat, NEW t \in 1..n
  PROVE  t \in Nat /\ t + 1 \in Nat /\ (t # n => t + 1 \in 1..n)
OBVIOUS

(* The step that runs a tags() hook to its end.                            *)
LEMMA RunTagsKeeps ==
  ASSUME HooksInv, RunTags
  PROVE  HooksInv'
<1>0. HookTypes /\ MarksFollow /\ ExportsFollow
  BY DEF HooksInv
<1>1. /\ after = "running" /\ turn \in 1..Len(hooks) /\ turn' = turn + 1 /\ entry' = 1
      /\ hooks' = hooks /\ layout' = layout /\ ready' = ready /\ exported' = exported
      /\ Hook.kind = "tags" /\ HookTypes
      /\ after' = IF turn = Len(hooks) THEN "done" ELSE "running"
  BY <1>0 DEF RunTags, Running, NextHook, HookTypes
<1>2. /\ DOMAIN hooks = 1..Len(hooks) /\ Len(hooks) \in Nat
      /\ \A i \in 1..Len(hooks) : hooks[i] \in TagsHooks \cup OutputsHooks
  BY <1>0, SequenceElements DEF HookTypes
<1>3. Hook \in TagsHooks
  <2>1. Hook \in TagsHooks \cup OutputsHooks
    BY <1>0, <1>1, <1>2 DEF Hook
  <2> QED
    BY <1>1, <2>1 DEF OutputsHooks
<1>4. HookTypes'
  <2>1. turn + 1 \in Nat /\ (turn # Len(hooks) => turn + 1 \in 1..Len(hooks))
    BY <1>1, <1>2, TurnBound
  <2> QED
    BY <1>0, <1>1, <2>1 DEF HookTypes
<1>5. MarksFollow'
  <2> DEFINE added == [s \in Scopes |-> TagsAdded(Hook, Len(Hook.entries), s)]
  <2>1. marks \in [Scopes -> Seq(STRING)]
    BY <1>0, <1>1 DEF MarksFollow
  <2>2. marks' = [s \in Scopes |-> marks[s] \o added[s]]
    BY <2>1 DEF RunTags, Add
  <2>3. \A s \in Scopes :
          /\ added[s] \in Seq(STRING) /\ (added[s] = <<>> <=> Says(Hook, s) = {})
          /\ added[s] # <<>> => Last(added[s]) \in Says(Hook, s)
    <3> SUFFICES ASSUME NEW s \in Scopes
                 PROVE  /\ added[s] \in Seq(STRING) /\ (added[s] = <<>> <=> Says(Hook, s) = {})
                        /\ added[s] # <<>> => Last(added[s]) \in Says(Hook, s)
      OBVIOUS
    <3>1. added[s] = TagsAdded(Hook, Len(Hook.entries), s)
      OBVIOUS
    <3> HIDE DEF added
    <3> QED
      BY <1>3, <3>1, AddedTexts
  <2>4. added \in [Scopes -> Seq(STRING)]
    BY <2>3
  <2> HIDE DEF added
  <2> QED
    BY <1>1, <2>2, <2>3, <2>4, MarksKept
<1>6. ExportsFollow'
  <2> SUFFICES ASSUME NEW i \in DOMAIN hooks, hooks[i].kind = "outputs",
                      NEW k \in DOMAIN hooks[i].entries, i < turn + 1 \/ (i = turn + 1 /\ k < 1)
               PROVE  Placed(hooks[i], k) \in exported
    BY <1>1 DEF ExportsFollow, Placed, Target, TopOf
  <2>1. hooks[i] \in OutputsHooks
    BY <1>2 DEF TagsHooks
  <2>2. k \in Nat /\ k >= 1
    BY <2>1 DEF OutputsHooks
  <2>3. i \in Nat /\ turn \in Nat /\ i # turn /\ i < turn + 1
    <3>1. i \in Nat /\ turn \in Nat
      BY <1>1, <1>2, TurnBound
    <3>2. i # turn
      BY <1>1 DEF Hook
    <3>3. ~(k < 1)
      BY <2>2
    <3> QED
      BY <3>1, <3>2, <3>3
  <2>4. i < turn
    BY <2>3
  <2> QED
    BY <1>0, <2>4 DEF ExportsFollow
<1> QED
  BY <1>4, <1>5, <1>6 DEF HooksInv

(* The step that makes the next output of an outputs() hook.               *)
LEMMA MakeOutputKeeps ==
  ASSUME HooksInv, MakeOutput
  PROVE  HooksInv'
<1>0. HookTypes /\ MarksFollow /\ ExportsFollow
  BY DEF HooksInv
<1>1. /\ after = "running" /\ turn \in 1..Len(hooks) /\ turn' = turn /\ entry' = entry + 1
      /\ hooks' = hooks /\ layout' = layout /\ ready' = ready /\ after' = after /\ marks' = marks
      /\ exported' = exported \cup {Placed(Hook, entry)} /\ entry \in Nat
  BY <1>0 DEF MakeOutput, Running, HookTypes, Placed, Output
<1>2. /\ DOMAIN hooks = 1..Len(hooks) /\ Len(hooks) \in Nat
      /\ \A i \in 1..Len(hooks) : hooks[i] \in TagsHooks \cup OutputsHooks
  BY <1>0, SequenceElements DEF HookTypes
<1>3. HookTypes'
  BY <1>0, <1>1 DEF HookTypes
<1>5. MarksFollow'
  <2>1. \A h, s : Says(h, s)' = Says(h, s)
    BY <1>1 DEF Says, TopOf
  <2>2. \A s : Spoke(s)' = Spoke(s)
    BY <1>1, <2>1 DEF Spoke
  <2> QED
    BY <1>0, <1>1, <2>1, <2>2 DEF MarksFollow
<1>4. ExportsFollow'
  <2> SUFFICES ASSUME NEW i \in DOMAIN hooks, hooks[i].kind = "outputs",
                      NEW k \in DOMAIN hooks[i].entries, i < turn \/ (i = turn /\ k < entry + 1)
               PROVE  Placed(hooks[i], k) \in exported'
    BY <1>1 DEF ExportsFollow, Placed, Target, TopOf
  <2>1. hooks[i] \in OutputsHooks
    BY <1>2 DEF TagsHooks
  <2>2. k \in Nat
    BY <2>1 DEF OutputsHooks
  <2>3. i < turn \/ (i = turn /\ k < entry) \/ (i = turn /\ k = entry)
    BY <1>1, <2>2
  <2> QED
    BY <1>0, <1>1, <2>3 DEF ExportsFollow, Hook
<1> QED
  BY <1>3, <1>4, <1>5 DEF HooksInv

(* The step that ends an outputs() hook, which says nothing of any scope.  *)
LEMMA OutputsDoneKeeps ==
  ASSUME HooksInv, OutputsDone
  PROVE  HooksInv'
<1>0. HookTypes /\ MarksFollow /\ ExportsFollow
  BY DEF HooksInv
<1>1. /\ after = "running" /\ turn \in 1..Len(hooks) /\ turn' = turn + 1 /\ entry' = 1
      /\ hooks' = hooks /\ layout' = layout /\ ready' = ready /\ exported' = exported
      /\ Hook.kind = "outputs" /\ HookTypes /\ marks' = marks /\ entry > Len(Hook.entries)
      /\ after' = IF turn = Len(hooks) THEN "done" ELSE "running"
  BY <1>0 DEF OutputsDone, Running, NextHook, HookTypes
<1>2. /\ DOMAIN hooks = 1..Len(hooks) /\ Len(hooks) \in Nat
      /\ \A i \in 1..Len(hooks) : hooks[i] \in TagsHooks \cup OutputsHooks
  BY <1>0, SequenceElements DEF HookTypes
<1>3. HookTypes'
  <2>1. turn + 1 \in Nat /\ (turn # Len(hooks) => turn + 1 \in 1..Len(hooks))
    BY <1>1, <1>2, TurnBound
  <2> QED
    BY <1>0, <1>1, <2>1 DEF HookTypes
<1>4. MarksFollow'
  <2>1. \A s \in Scopes : Spoke(s)' = Spoke(s)
    BY <1>1, OneMoreSpoke DEF Says
  <2>2. \A s : \A i \in DOMAIN hooks : Says(hooks[i], s)' = Says(hooks[i], s)
    BY <1>1 DEF Says, TopOf
  <2>3. \A s : Spoke(s) \subseteq DOMAIN hooks
    BY DEF Spoke
  <2> QED
    BY <1>0, <1>1, <2>1, <2>2, <2>3 DEF MarksFollow
<1>5. ExportsFollow'
  <2> SUFFICES ASSUME NEW i \in DOMAIN hooks, hooks[i].kind = "outputs",
                      NEW k \in DOMAIN hooks[i].entries, i < turn + 1 \/ (i = turn + 1 /\ k < 1)
               PROVE  Placed(hooks[i], k) \in exported
    BY <1>1 DEF ExportsFollow, Placed, Target, TopOf
  <2>1. hooks[i] \in OutputsHooks
    BY <1>2 DEF TagsHooks
  <2>2. k \in 1..Len(hooks[i].entries) /\ Len(hooks[i].entries) \in Nat
    BY <2>1 DEF OutputsHooks
  <2>3. i \in Nat /\ turn \in Nat /\ i < turn + 1
    <3>1. i \in Nat /\ turn \in Nat
      BY <1>1, <1>2, TurnBound
    <3>2. ~(k < 1)
      BY <2>2
    <3> QED
      BY <3>1, <3>2
  <2>4. i = turn => k < entry
    <3> SUFFICES ASSUME i = turn PROVE k < entry
      OBVIOUS
    <3>1. entry \in Nat /\ entry > Len(hooks[i].entries)
      BY <1>0, <1>1 DEF Hook, HookTypes
    <3> QED
      BY <2>2, <3>1
  <2>5. i < turn \/ (i = turn /\ k < entry)
    BY <2>3, <2>4
  <2> QED
    BY <1>0, <2>5 DEF ExportsFollow
<1> QED
  BY <1>3, <1>4, <1>5 DEF HooksInv

(* The step that makes a hook, or throws.                                  *)
LEMMA MakeHookKeeps ==
  ASSUME HooksInv, MakeHook
  PROVE  HooksInv'
<1>0. HookTypes /\ MarksFollow /\ ExportsFollow
  BY DEF HooksInv
<1>1. /\ after = "making" /\ after' \in {"making", "refused"} /\ ready' = ready + 1
      /\ ready < Len(hooks) /\ turn' = turn /\ entry' = entry /\ hooks' = hooks
      /\ layout' = layout /\ exported' = exported /\ marks' = marks
  BY DEF MakeHook
<1>2. Len(hooks) \in Nat
  BY <1>0, SequenceElements DEF HookTypes
<1>3. HookTypes'
  <2>1. ready' \in 0..Len(hooks)
    BY <1>0, <1>1, <1>2 DEF HookTypes
  <2> QED
    BY <1>0, <1>1, <2>1 DEF HookTypes
<1>4. MarksFollow'
  <2>1. \A h, s : Says(h, s)' = Says(h, s)
    BY <1>1 DEF Says, TopOf
  <2>2. \A s : Spoke(s)' = Spoke(s)
    BY <1>1, <2>1 DEF Spoke
  <2> QED
    BY <1>0, <1>1, <2>1, <2>2 DEF MarksFollow
<1>5. ExportsFollow'
  BY <1>0, <1>1 DEF ExportsFollow, Placed, Target, TopOf
<1> QED
  BY <1>3, <1>4, <1>5 DEF HooksInv

(* The step that changes a record a hook was made of: none has run.        *)
LEMMA EditTagsKeeps ==
  ASSUME HooksInv, EditTags
  PROVE  HooksInv'
<1>0. HookTypes /\ MarksFollow /\ ExportsFollow
  BY DEF HooksInv
<1>1. /\ after = "making" /\ after' = after /\ ready' = ready /\ turn = 0 /\ entry = 1
      /\ turn' = turn /\ entry' = entry /\ layout' = layout /\ exported' = exported /\ marks' = marks
  BY <1>0 DEF EditTags, HookTypes
<1>2. /\ DOMAIN hooks = 1..Len(hooks) /\ Len(hooks) \in Nat
      /\ \A i \in 1..Len(hooks) : hooks[i] \in TagsHooks \cup OutputsHooks
  BY <1>0, SequenceElements DEF HookTypes
<1>3. PICK i \in 1..ready, text \in BadTexts \cup {"edited"} :
        hooks[i].kind = "tags" /\ hooks' = [hooks EXCEPT ![i].system = text]
  BY DEF EditTags
<1>4. i \in 1..Len(hooks) /\ hooks[i] \in TagsHooks /\ text \in STRING
  <2>1. i \in 1..Len(hooks)
    BY <1>0, <1>2 DEF HookTypes
  <2>2. hooks[i] \in TagsHooks
    BY <1>2, <1>3, <2>1 DEF OutputsHooks
  <2>3. text \in STRING
    <3>1. BadTexts \cup {"edited"} \subseteq STRING
      BY HooksAssumption
    <3> QED
      BY <3>1
  <2> QED
    BY <2>1, <2>2, <2>3
<1> DEFINE h == [hooks[i] EXCEPT !.system = text]
<1>5. h \in TagsHooks
  BY <1>4 DEF TagsHooks
<1>6. hooks' = [hooks EXCEPT ![i] = h]
  BY <1>3
<1>7. hooks' \in Seq(TagsHooks \cup OutputsHooks) /\ Len(hooks') = Len(hooks)
      /\ DOMAIN hooks' = DOMAIN hooks
  <2> HIDE DEF h
  <2>1. hooks \in Seq(TagsHooks \cup OutputsHooks)
    BY <1>0 DEF HookTypes
  <2>2. h \in TagsHooks \cup OutputsHooks
    BY <1>5
  <2> QED
    BY <1>4, <1>6, <2>1, <2>2, ReplaceElement
<1>8. HookTypes'
  BY <1>0, <1>1, <1>7 DEF HookTypes
<1>9. \A s : Spoke(s) = {} /\ Spoke(s)' = {}
  BY <1>1, <1>2, <1>7 DEF Spoke
<1>10. MarksFollow'
  BY <1>0, <1>1, <1>9 DEF MarksFollow
<1>11. ExportsFollow'
  BY <1>1, <1>2, <1>7 DEF ExportsFollow
<1> QED
  BY <1>8, <1>10, <1>11 DEF HooksInv

(* The step in which the build comes to the hooks: the first is next.      *)
LEMMA BuildReachesHooksKeeps ==
  ASSUME HooksInv, BuildReachesHooks
  PROVE  HooksInv'
<1>0. HookTypes /\ MarksFollow /\ ExportsFollow
  BY DEF HooksInv
<1>1. /\ after = "making" /\ after' = (IF hooks = <<>> THEN "done" ELSE "running")
      /\ turn = 0 /\ entry = 1 /\ turn' = 1 /\ entry' = entry /\ hooks' = hooks /\ ready' = ready
      /\ layout' = layout /\ exported' = exported /\ marks' = marks
  BY <1>0 DEF BuildReachesHooks, HookTypes
<1>2. /\ DOMAIN hooks = 1..Len(hooks) /\ Len(hooks) \in Nat
      /\ (hooks = <<>> => Len(hooks) = 0) /\ (hooks # <<>> => 1 \in 1..Len(hooks))
  BY <1>0 DEF HookTypes
<1>3. HookTypes'
  BY <1>0, <1>1, <1>2 DEF HookTypes
<1>4. \A s : Spoke(s) = {} /\ Spoke(s)' = {}
  BY <1>1, <1>2 DEF Spoke
<1>5. MarksFollow'
  BY <1>0, <1>1, <1>4 DEF MarksFollow
<1>6. ExportsFollow'
  <2>1. \A i \in DOMAIN hooks : i >= 1
    BY <1>2
  <2> SUFFICES ASSUME NEW i \in DOMAIN hooks, hooks[i].kind = "outputs",
                      NEW k \in DOMAIN hooks[i].entries, i < 1 \/ (i = 1 /\ k < 1)
               PROVE  FALSE
    BY <1>1 DEF ExportsFollow
  <2>2. hooks[i] \in TagsHooks \cup OutputsHooks
    BY <1>0, SequenceElements DEF HookTypes
  <2>3. k \in Nat /\ k >= 1
    BY <2>2 DEF TagsHooks, OutputsHooks
  <2> QED
    BY <1>2, <2>1, <2>3
<1> QED
  BY <1>3, <1>5, <1>6 DEF HooksInv

(* A step that stops the build leaves nothing to be said of the marks.     *)
LEMMA ThrowKeeps ==
  ASSUME HooksInv, RunTagsThrows \/ OutputThrows
  PROVE  HooksInv'
<1>1. /\ HookTypes /\ ExportsFollow /\ after' = "threw" /\ ready' = ready /\ turn' = turn
      /\ entry' = entry /\ hooks' = hooks /\ layout' = layout /\ exported' = exported
  BY DEF HooksInv, RunTagsThrows, OutputThrows
<1> QED
  BY <1>1 DEF HooksInv, HookTypes, MarksFollow, ExportsFollow, Placed, Target, TopOf

(* Every step of the hooks.                                                *)
THEOREM HooksInvariant == HooksSpec => []HooksInv
<1>1. NoHooks => HooksInv
  BY HooksInit
<1>2. HooksInv /\ [HooksNext]_hookVars => HooksInv'
  <2> SUFFICES ASSUME HooksInv, [HooksNext]_hookVars PROVE HooksInv'
    OBVIOUS
  <2>1. CASE MakeHook
    BY <2>1, MakeHookKeeps
  <2>2. CASE EditTags
    BY <2>2, EditTagsKeeps
  <2>3. CASE BuildReachesHooks
    BY <2>3, BuildReachesHooksKeeps
  <2>4. CASE RunTags
    BY <2>4, RunTagsKeeps
  <2>5. CASE MakeOutput
    BY <2>5, MakeOutputKeeps
  <2>6. CASE OutputsDone
    BY <2>6, OutputsDoneKeeps
  <2>7. CASE RunTagsThrows \/ OutputThrows
    BY <2>7, ThrowKeeps
  <2>8. CASE UNCHANGED hookVars
    <3>1. \A h, s : Says(h, s)' = Says(h, s)
      BY <2>8 DEF Says, TopOf, hookVars
    <3>2. \A s : Spoke(s)' = Spoke(s)
      BY <2>8, <3>1 DEF Spoke, hookVars
    <3>3. HookTypes'
      BY <2>8 DEF HooksInv, HookTypes, hookVars
    <3>4. MarksFollow'
      BY <2>8, <3>1, <3>2 DEF HooksInv, MarksFollow, hookVars
    <3>5. ExportsFollow'
      BY <2>8 DEF HooksInv, ExportsFollow, Placed, Target, TopOf, hookVars
    <3> QED
      BY <3>3, <3>4, <3>5 DEF HooksInv
  <2> QED
    BY <2>1, <2>2, <2>3, <2>4, <2>5, <2>6, <2>7, <2>8 DEF HooksNext
<1> QED
  BY <1>1, <1>2, PTL DEF HooksSpec

(* When the last hook has run, the texts set on a scope end with what the  *)
(* last of the hooks that speak of it says, which is what a component of   *)
(* the scope then carries.                                                 *)
LEMMA TagFollows ==
  ASSUME HooksInv, after = "done", NEW c \in Resources
  PROVE  LET speak(scope) == {i \in DOMAIN hooks : Says(hooks[i], scope) # {}}
             scope == IF speak(layout[c]) # {} THEN layout[c] ELSE Top
             deciding == {i \in speak(scope) : \A j \in speak(scope) : j <= i}
         IN /\ c \in owned => Tag(c) = "builder"
            /\ c \notin owned /\ deciding = {} => Tag(c) = NoText
            /\ c \notin owned => \A i \in deciding : Tag(c) \in Says(hooks[i], scope)
<1> DEFINE speak(s) == {i \in DOMAIN hooks : Says(hooks[i], s) # {}}
           scope == IF speak(layout[c]) # {} THEN layout[c] ELSE Top
           deciding == {i \in speak(scope) : \A j \in speak(scope) : j <= i}
<1>1. /\ layout[c] \in Scopes /\ Top \in Scopes
      /\ DOMAIN hooks = 1..Len(hooks) /\ Len(hooks) \in Nat /\ turn = Len(hooks) + 1
  <2> HIDE DEF speak, scope, deciding
  <2> QED
    BY DEF HooksInv, HookTypes, Scopes, Resources
<1>2. \A i \in DOMAIN hooks : i < turn
  BY <1>1
<1>3. \A s : speak(s) = Spoke(s) /\ speak(s) \in SUBSET (1..Len(hooks))
  BY <1>1, <1>2 DEF Spoke
<1>4. \A s \in Scopes :
        /\ marks[s] = <<>> <=> Spoke(s) = {}
        /\ \A i \in Spoke(s) : (\A j \in Spoke(s) : j <= i) => Last(marks[s]) \in Says(hooks[i], s)
  BY DEF HooksInv, MarksFollow
<1> HIDE DEF speak
<1>5. c \notin owned => Tag(c) = IF marks[scope] = <<>> THEN NoText ELSE Last(marks[scope])
  BY <1>1, <1>3, <1>4 DEF Tag
<1>6. scope \in Scopes
  BY <1>1
<1> HIDE DEF scope
<1>7. ASSUME c \notin owned, deciding = {} PROVE Tag(c) = NoText
  <2>1. speak(scope) = {}
    <3> SUFFICES ASSUME speak(scope) # {} PROVE FALSE
      OBVIOUS
    <3>1. /\ Max(speak(scope)) \in speak(scope)
          /\ \A j \in speak(scope) : j <= Max(speak(scope))
      BY <1>1, <1>3, MaxIsGreatest
    <3> QED
      BY <1>7, <3>1
  <2> QED
    BY <1>3, <1>4, <1>5, <1>6, <1>7, <2>1
<1>8. ASSUME c \notin owned, NEW i \in deciding PROVE Tag(c) \in Says(hooks[i], scope)
  <2>1. i \in Spoke(scope) /\ \A j \in Spoke(scope) : j <= i
    BY <1>3
  <2>2. marks[scope] # <<>> /\ Last(marks[scope]) \in Says(hooks[i], scope)
    BY <1>4, <1>6, <2>1
  <2> QED
    BY <1>5, <1>8, <2>2
<1>9. c \in owned => Tag(c) = "builder"
  BY DEF Tag
<1> QED
  BY <1>7, <1>8, <1>9 DEF speak, scope

(* Every definition of an outputs() call is in the tree at the end.        *)
LEMMA OutputsFollow ==
  ASSUME HooksInv, after = "done", NEW i \in DOMAIN hooks, hooks[i].kind = "outputs",
         NEW e \in Range(hooks[i].entries)
  PROVE  <<Target(hooks[i], e), e.name>> \in exported
<1>1. PICK k \in DOMAIN hooks[i].entries : e = hooks[i].entries[k]
  BY DEF Range
<1>2. i < turn
  BY DEF HooksInv, HookTypes
<1> QED
  BY <1>1, <1>2 DEF HooksInv, ExportsFollow, Placed

(* HooksFollowTheLayout: what a component is tagged with, and where an     *)
(* output is, follows from where the components were built and from the    *)
(* records as they stand, as long as they stay valid, for any nesting of   *)
(* systems and any list of tags() and outputs() hooks.                     *)
THEOREM HooksFollow == HooksSpec => []HooksFollowTheLayout
<1>1. HooksInv => HooksFollowTheLayout
  <2> SUFFICES ASSUME HooksInv, after = "done", RecordsAreValid PROVE HooksFollowTheLayout
    BY DEF HooksFollowTheLayout
  <2>1. \A i \in DOMAIN hooks : hooks[i].kind = "outputs" =>
          \A e \in Range(hooks[i].entries) :
            <<Target(hooks[i], e), e.name>> \in exported
    BY OutputsFollow
  <2> QED
    BY <2>1, TagFollows DEF HooksFollowTheLayout
<1> QED
  BY <1>1, HooksInvariant, PTL

-----------------------------------------------------------------------------

(***************************************************************************)
(* Builders: the inductive invariant.                                      *)
(***************************************************************************)
\* The calls a log records.
Accepted ==
  [op : {"set"}, key : Props, val : Values] \cup [op : {"grant"}, key : Grants, val : Grants]
    \cup [op : {"tags"}, key : Entries, val : {Unset}]

\* Each builder has its objects of the heap to itself, and the caller its outer proxy.
HeapApart ==
  /\ alive \subseteq Builders
  /\ propsAt = [b \in Builders |-> b] /\ tagsAt = [b \in Builders |-> b]
  /\ queueAt = [b \in Builders |-> b]
  /\ handle = [b \in Builders |-> "outer"]

HeapTypes ==
  /\ props \in [Builders -> [Props -> Values \cup {Unset}]]
  /\ tags \in [Builders -> [TagKeys -> TagValues \cup {Unset}]]
  /\ queue \in [Builders -> Seq(Grants)]
  /\ log \in [Builders -> Seq(Accepted)]

\* The n-th grant of a log is one of its grants.
Ranked(calls) ==
  \A n \in 1..Cardinality(GrantCalls(calls)) : Nth(GrantCalls(calls), n) \in GrantCalls(calls)

BuilderInv ==
  /\ HeapApart /\ HeapTypes /\ \A b \in Builders : Ranked(log[b])
  /\ CopiesAreIndependent /\ BuildReflectsCalls

(***************************************************************************)
(* Replaying one call more.                                                *)
(***************************************************************************)
(* The last of the positions of a sequence and the one after it is the     *)
(* latter; and the last of some positions is one of them.                  *)
LEMMA LastPosition ==
  ASSUME NEW n \in Nat, NEW I \in SUBSET (1..n)
  PROVE  Max(I \cup {n + 1}) = n + 1 /\ (I # {} => Max(I) \in I)
<1> DEFINE J == I \cup {n + 1}
           m == n + 1
<1>1. J \in SUBSET (1..m) /\ J # {} /\ m \in Nat
  <2>1. \A i \in I : i \in Nat /\ 1 <= i /\ i <= n
    OBVIOUS
  <2> QED
    BY <2>1
<1> HIDE DEF J, m
<1>2. Max(J) \in J /\ \A y \in J : y <= Max(J)
  BY <1>1, MaxIsGreatest
<1>3. Max(J) = n + 1
  <2>1. Max(J) \in 1..m /\ m <= Max(J)
    BY <1>1, <1>2 DEF J, m
  <2> QED
    BY <1>1, <2>1 DEF m
<1> QED
  BY <1>3, MaxIsGreatest DEF J

(* What a sequence has after a call is appended.                           *)
LEMMA Appended ==
  ASSUME NEW T, NEW s \in Seq(T), NEW c \in T
  PROVE  /\ Append(s, c) \in Seq(T) /\ Len(Append(s, c)) = Len(s) + 1 /\ Len(s) \in Nat
         /\ DOMAIN s = 1..Len(s) /\ DOMAIN Append(s, c) = DOMAIN s \cup {Len(s) + 1}
         /\ Len(s) + 1 \notin DOMAIN s
         /\ Append(s, c)[Len(s) + 1] = c /\ \A i \in DOMAIN s : Append(s, c)[i] = s[i]
OBVIOUS

(* A setter's value replaces the property it sets, and no other call does. *)
LEMMA ReplayingProps ==
  ASSUME NEW s \in Seq(Accepted), NEW c \in Accepted
  PROVE  ReplayProps(Append(s, c)) =
           [p \in Props |-> IF c.op = "set" /\ c.key = p THEN c.val ELSE ReplayProps(s)[p]]
<1> DEFINE on(t, p) == {i \in DOMAIN t : t[i].op = "set" /\ t[i].key = p}
           u == Append(s, c)
           n == Len(s)
<1>1. /\ n \in Nat /\ DOMAIN s = 1..n /\ DOMAIN u = DOMAIN s \cup {n + 1}
      /\ n + 1 \notin DOMAIN s /\ u[n + 1] = c /\ \A i \in DOMAIN s : u[i] = s[i]
  BY Appended
<1> HIDE DEF u, n
<1>2. ASSUME NEW p \in Props
      PROVE  (IF on(u, p) = {} THEN Unset ELSE u[Max(on(u, p))].val)
               = IF c.op = "set" /\ c.key = p THEN c.val
                 ELSE IF on(s, p) = {} THEN Unset ELSE s[Max(on(s, p))].val
  <2>1. on(s, p) \in SUBSET (1..n)
    BY <1>1
  <2>2. CASE c.op = "set" /\ c.key = p
    <3>1. on(u, p) = on(s, p) \cup {n + 1}
      BY <1>1, <2>2
    <3>2. Max(on(u, p)) = n + 1
      BY <1>1, <2>1, <3>1, LastPosition
    <3> QED
      BY <1>1, <2>2, <3>1, <3>2
  <2>3. CASE ~(c.op = "set" /\ c.key = p)
    <3>1. on(u, p) = on(s, p)
      BY <1>1, <2>3
    <3>2. on(s, p) # {} => Max(on(s, p)) \in DOMAIN s
      BY <1>1, <2>1, LastPosition
    <3> HIDE DEF on
    <3> QED
      BY <1>1, <2>3, <3>1, <3>2
  <2> QED
    BY <2>2, <2>3
<1> QED
  BY <1>2 DEF ReplayProps, u

(* The entries of a tags() call replace the tags they name, and no other   *)
(* call does.                                                              *)
LEMMA ReplayingTags ==
  ASSUME NEW s \in Seq(Accepted), NEW c \in Accepted
  PROVE  ReplayTags(Append(s, c)) =
           IF c.op = "tags" THEN Put(ReplayTags(s), c.key) ELSE ReplayTags(s)
<1> DEFINE on(t, k) == {i \in DOMAIN t : t[i].op = "tags" /\ Names(t[i].key, k)}
           u == Append(s, c)
           n == Len(s)
<1>1. /\ n \in Nat /\ DOMAIN s = 1..n /\ DOMAIN u = DOMAIN s \cup {n + 1}
      /\ n + 1 \notin DOMAIN s /\ u[n + 1] = c /\ \A i \in DOMAIN s : u[i] = s[i]
  BY Appended
<1> HIDE DEF u, n
<1>2. ASSUME NEW k \in TagKeys
      PROVE  /\ c.op = "tags" /\ Names(c.key, k) => on(u, k) # {} /\ u[Max(on(u, k))] = c
             /\ ~(c.op = "tags" /\ Names(c.key, k)) =>
                  on(u, k) = on(s, k) /\ (on(s, k) # {} => u[Max(on(u, k))] = s[Max(on(s, k))])
  <2>1. on(s, k) \in SUBSET (1..n)
    BY <1>1
  <2>2. CASE c.op = "tags" /\ Names(c.key, k)
    <3>1. on(u, k) = on(s, k) \cup {n + 1}
      BY <1>1, <2>2
    <3>2. Max(on(u, k)) = n + 1
      BY <1>1, <2>1, <3>1, LastPosition
    <3> QED
      BY <1>1, <2>2, <3>1, <3>2
  <2>3. CASE ~(c.op = "tags" /\ Names(c.key, k))
    <3>1. on(u, k) = on(s, k)
      BY <1>1, <2>3
    <3>2. on(s, k) # {} => Max(on(s, k)) \in DOMAIN s
      BY <1>1, <2>1, LastPosition
    <3> HIDE DEF on
    <3> QED
      BY <1>1, <2>3, <3>1, <3>2
  <2> QED
    BY <2>2, <2>3
<1>3. /\ ReplayTags(u) = [k \in TagKeys |-> IF on(u, k) = {} THEN Unset
                                             ELSE Put(NoTags, u[Max(on(u, k))].key)[k]]
      /\ ReplayTags(s) = [k \in TagKeys |-> IF on(s, k) = {} THEN Unset
                                             ELSE Put(NoTags, s[Max(on(s, k))].key)[k]]
  BY DEF ReplayTags
<1> HIDE DEF on
<1>4. ASSUME NEW k \in TagKeys
      PROVE  ReplayTags(u)[k] = IF c.op = "tags" THEN Put(ReplayTags(s), c.key)[k]
                                ELSE ReplayTags(s)[k]
  <2>1. CASE c.op = "tags" /\ Names(c.key, k)
    <3>1. ReplayTags(u)[k] = Put(NoTags, c.key)[k]
      BY <1>2, <1>3, <2>1
    <3>2. {i \in DOMAIN c.key : c.key[i][1] = k} # {}
      BY <2>1 DEF Names
    <3>3. Put(NoTags, c.key)[k] = Put(ReplayTags(s), c.key)[k]
      BY <3>2 DEF Put
    <3> QED
      BY <2>1, <3>1, <3>3
  <2>2. CASE ~(c.op = "tags" /\ Names(c.key, k))
    <3>1. ReplayTags(u)[k] = ReplayTags(s)[k]
      BY <1>2, <1>3, <2>2
    <3>2. c.op = "tags" => {i \in DOMAIN c.key : c.key[i][1] = k} = {}
      BY <2>2 DEF Names
    <3>3. c.op = "tags" => Put(ReplayTags(s), c.key)[k] = ReplayTags(s)[k]
      BY <3>2 DEF Put
    <3> QED
      BY <3>1, <3>3
  <2> QED
    BY <2>1, <2>2
<1>5. /\ ReplayTags(u) = [k \in TagKeys |-> ReplayTags(u)[k]]
      /\ ReplayTags(s) = [k \in TagKeys |-> ReplayTags(s)[k]]
      /\ Put(ReplayTags(s), c.key) = [k \in TagKeys |-> Put(ReplayTags(s), c.key)[k]]
  BY <1>3 DEF Put
<1> QED
  BY <1>4, <1>5 DEF u

(* A grant goes behind those before it, and no other call changes them.    *)
LEMMA ReplayingGrants ==
  ASSUME NEW s \in Seq(Accepted), NEW c \in Accepted, Ranked(s)
  PROVE  /\ Ranked(Append(s, c)) /\ Cardinality(GrantCalls(s)) \in Nat
         /\ c.op # "grant" => ReplayGrants(Append(s, c)) = ReplayGrants(s)
         /\ c.op = "grant" =>
              LET N == Cardinality(GrantCalls(s)) IN
              ReplayGrants(Append(s, c)) =
                [i \in 1..(N + 1) |-> IF i = N + 1 THEN c.key ELSE ReplayGrants(s)[i]]
<1> DEFINE u == Append(s, c)
           n == Len(s)
           S == GrantCalls(s)
           N == Cardinality(S)
<1>1. /\ n \in Nat /\ DOMAIN s = 1..n /\ DOMAIN u = DOMAIN s \cup {n + 1}
      /\ n + 1 \notin DOMAIN s /\ u[n + 1] = c /\ \A i \in DOMAIN s : u[i] = s[i]
  BY Appended
<1> HIDE DEF u, n
<1>2. S \in SUBSET (1..n) /\ n + 1 \notin S /\ S \in SUBSET DOMAIN s
  BY <1>1 DEF GrantCalls
<1>3. IsFiniteSet(S) /\ N \in Nat
  <2>1. IsFiniteSet(1..n)
    BY <1>1, FS_Interval
  <2> HIDE DEF S
  <2>2. IsFiniteSet(S)
    BY <1>2, <2>1, FS_Subset
  <2> QED
    BY <2>2, FS_CardinalityType
<1> HIDE DEF N
<1>4. CASE c.op # "grant"
  <2>1. GrantCalls(u) = S
    BY <1>1, <1>4 DEF GrantCalls
  <2>2. Ranked(u)
    BY <2>1 DEF Ranked
  <2>3. \A i \in 1..N : u[Nth(S, i)] = s[Nth(S, i)]
    BY <1>1, <1>2 DEF Ranked, N
  <2>4. ReplayGrants(u) = ReplayGrants(s)
    BY <2>1, <2>3 DEF ReplayGrants, N
  <2> QED
    BY <1>3, <1>4, <2>2, <2>4 DEF u, N
<1>5. CASE c.op = "grant"
  <2> DEFINE T == S \cup {n + 1}
             upTo(X, i) == {j \in X : j <= i}
  <2>1. GrantCalls(u) = T
    BY <1>1, <1>5 DEF GrantCalls
  <2>2. Cardinality(T) = N + 1
    BY <1>2, <1>3, FS_AddElement DEF N
  <2>3. \A i \in S : i \in Nat /\ i <= n
    BY <1>1, <1>2
  <2>4. \A i \in S : upTo(T, i) = upTo(S, i) /\ Cardinality(upTo(S, i)) \in Nat
                     /\ Cardinality(upTo(S, i)) <= N
    <3> SUFFICES ASSUME NEW i \in S
                 PROVE  upTo(T, i) = upTo(S, i) /\ Cardinality(upTo(S, i)) \in Nat
                        /\ Cardinality(upTo(S, i)) <= N
      OBVIOUS
    <3>1. upTo(T, i) = upTo(S, i)
      BY <1>1, <2>3
    <3>2. upTo(S, i) \in SUBSET S
      OBVIOUS
    <3> HIDE DEF upTo
    <3> QED
      BY <1>3, <3>1, <3>2, FS_Subset, FS_CardinalityType DEF N
  <2>5. upTo(T, n + 1) = T
    BY <1>1, <2>3
  <2>6. \A k \in 1..N : Nth(T, k) = Nth(S, k)
    <3> SUFFICES ASSUME NEW k \in 1..N PROVE Nth(T, k) = Nth(S, k)
      OBVIOUS
    <3>1. \A i : i \in T /\ Cardinality(upTo(T, i)) = k <=> i \in S /\ Cardinality(upTo(S, i)) = k
      <4>1. Cardinality(upTo(T, n + 1)) # k
        <5>1. k # N + 1
          BY <1>3
        <5> HIDE DEF upTo, T
        <5> QED
          BY <2>2, <2>5, <5>1
      <4> HIDE DEF upTo
      <4> QED
        BY <2>4, <4>1
    <3> QED
      BY <3>1 DEF Nth
  <2>7. Nth(T, N + 1) = n + 1
    <3>1. \A i : i \in T /\ Cardinality(upTo(T, i)) = N + 1 <=> i = n + 1
      <4>1. \A i \in S : Cardinality(upTo(T, i)) # N + 1
        <5>1. \A m \in Nat : m <= N => m # N + 1
          BY <1>3
        <5> HIDE DEF upTo, T, S
        <5> QED
          BY <2>4, <5>1
      <4> HIDE DEF upTo
      <4> QED
        BY <2>2, <2>5, <4>1
    <3> QED
      BY <3>1 DEF Nth
  <2>8. \A i \in 1..(N + 1) : i \in 1..N \/ i = N + 1
    BY <1>3
  <2>9. Ranked(u)
    <3>1. \A i \in 1..(N + 1) : Nth(T, i) \in T
      <4>1. \A i \in 1..N : Nth(S, i) \in S
        BY DEF Ranked, N
      <4> QED
        BY <2>6, <2>7, <2>8, <4>1
    <3> HIDE DEF T
    <3> QED
      BY <2>1, <2>2, <3>1 DEF Ranked
  <2>10. ReplayGrants(u) =
           [i \in 1..(N + 1) |-> IF i = N + 1 THEN c.key ELSE ReplayGrants(s)[i]]
    <3>1. \A i \in 1..N : i # N + 1 /\ u[Nth(T, i)].key = ReplayGrants(s)[i]
      <4> SUFFICES ASSUME NEW i \in 1..N PROVE i # N + 1 /\ u[Nth(T, i)].key = ReplayGrants(s)[i]
        OBVIOUS
      <4>1. i # N + 1
        BY <1>3
      <4>2. Nth(S, i) \in S /\ ReplayGrants(s)[i] = s[Nth(S, i)].key
        BY DEF ReplayGrants, Ranked, N
      <4>3. u[Nth(S, i)] = s[Nth(S, i)]
        BY <1>1, <1>2, <4>2
      <4> QED
        BY <2>6, <4>1, <4>2, <4>3
    <3>2. u[Nth(T, N + 1)].key = c.key
      BY <1>1, <2>7
    <3> QED
      BY <2>1, <2>2, <2>8, <3>1, <3>2 DEF ReplayGrants
  <2> QED
    BY <1>3, <1>5, <2>9, <2>10 DEF u, N
<1> QED
  BY <1>4, <1>5

(***************************************************************************)
(* The steps.                                                              *)
(***************************************************************************)
(* What a builder holds, its objects being its own.                        *)
LEMMA Holding ==
  ASSUME BuilderInv, NEW b \in alive
  PROVE  /\ b \in Builders /\ propsAt[b] = b /\ tagsAt[b] = b /\ queueAt[b] = b
         /\ handle[b] = "outer" /\ log[b] \in Seq(Accepted) /\ Ranked(log[b])
         /\ props[b] = ReplayProps(log[b]) /\ tags[b] = ReplayTags(log[b])
         /\ queue[b] = ReplayGrants(log[b]) /\ queue[b] \in Seq(Grants)
         /\ props[b] \in [Props -> Values \cup {Unset}]
         /\ tags[b] \in [TagKeys -> TagValues \cup {Unset}]
BY DEF BuilderInv, HeapApart, HeapTypes, CopiesAreIndependent

(* A setter changes a property of its builder and its log, and no other.   *)
LEMMA SetKeeps ==
  ASSUME BuilderInv, NEW b \in alive, NEW p \in Props, NEW v \in Values, Set(b, p, v)
  PROVE  BuilderInv'
<1> DEFINE c == [op |-> "set", key |-> p, val |-> v]
<1>0. c \in Accepted
  BY DEF Accepted
<1>1. /\ props' = [props EXCEPT ![b][p] = v] /\ log' = [log EXCEPT ![b] = Append(@, c)]
      /\ UNCHANGED <<alive, propsAt, tagsAt, queueAt, tags, queue, made>>
      /\ handle' = [handle EXCEPT ![b] = "outer"]
  BY Holding DEF Set, Note, where, Returned
<1> HIDE DEF c
<1>2. HeapApart' /\ HeapTypes'
  <2>1. log' \in [Builders -> Seq(Accepted)]
    BY <1>0, <1>1, Appended DEF BuilderInv, HeapTypes
  <2>2. props' \in [Builders -> [Props -> Values \cup {Unset}]]
    BY <1>1 DEF BuilderInv, HeapTypes
  <2> QED
    BY <1>1, <2>1, <2>2 DEF BuilderInv, HeapApart, HeapTypes
<1>3. /\ ReplayProps(Append(log[b], c)) = [ReplayProps(log[b]) EXCEPT ![p] = v]
      /\ ReplayTags(Append(log[b], c)) = ReplayTags(log[b])
      /\ ReplayGrants(Append(log[b], c)) = ReplayGrants(log[b]) /\ Ranked(Append(log[b], c))
  <2>1. c.op = "set" /\ c.key = p /\ c.val = v
    BY DEF c
  <2>2. log[b] \in Seq(Accepted) /\ Ranked(log[b])
    BY Holding
  <2>3. ReplayProps(Append(log[b], c)) = [ReplayProps(log[b]) EXCEPT ![p] = v]
    <3>1. ReplayProps(log[b]) = [q \in Props |-> ReplayProps(log[b])[q]]
      BY DEF ReplayProps
    <3>2. ReplayProps(Append(log[b], c)) = [q \in Props |-> IF p = q THEN v ELSE ReplayProps(log[b])[q]]
      BY <1>0, <2>1, <2>2, ReplayingProps
    <3> QED
      BY <3>1, <3>2
  <2> QED
    BY <1>0, <2>1, <2>2, <2>3, ReplayingTags, ReplayingGrants
<1>4. CopiesAreIndependent' /\ \A d \in Builders : Ranked(log'[d])
  <2>1. b \in Builders /\ log'[b] = Append(log[b], c) /\ props'[b] = [props[b] EXCEPT ![p] = v]
        /\ \A d \in Builders \ {b} : log'[d] = log[d] /\ props'[d] = props[d]
    BY <1>1, Holding DEF BuilderInv, HeapTypes
  <2>2. ASSUME NEW d \in alive
        PROVE  /\ props'[d] = ReplayProps(log'[d]) /\ tags[d] = ReplayTags(log'[d])
               /\ queue[d] = ReplayGrants(log'[d])
    BY <1>3, <2>1, Holding
  <2>3. \A d \in Builders : Ranked(log'[d])
    BY <1>3, <2>1 DEF BuilderInv
  <2>4. \A d \in alive : propsAt[d] = d /\ tagsAt[d] = d /\ queueAt[d] = d
    BY Holding
  <2> QED
    BY <1>1, <2>2, <2>3, <2>4 DEF CopiesAreIndependent
<1> QED
  BY <1>1, <1>2, <1>4 DEF BuilderInv, BuildReflectsCalls

(* A grant goes into the queue of its builder, and of no other.            *)
LEMMA GrantKeeps ==
  ASSUME BuilderInv, NEW b \in alive, NEW g \in Grants, AddGrant(b, g)
  PROVE  BuilderInv'
<1> DEFINE c == [op |-> "grant", key |-> g, val |-> g]
<1>0. c \in Accepted
  BY DEF Accepted
<1>1. /\ queue' = [queue EXCEPT ![b] = Append(@, g)] /\ log' = [log EXCEPT ![b] = Append(@, c)]
      /\ UNCHANGED <<alive, propsAt, tagsAt, queueAt, tags, props, made>>
      /\ handle' = [handle EXCEPT ![b] = "outer"]
  BY Holding DEF AddGrant, Note, where, Returned
<1> HIDE DEF c
<1>2. HeapApart' /\ HeapTypes'
  <2>1. log' \in [Builders -> Seq(Accepted)]
    BY <1>0, <1>1, Appended DEF BuilderInv, HeapTypes
  <2>2. queue' \in [Builders -> Seq(Grants)]
    BY <1>1, Appended DEF BuilderInv, HeapTypes
  <2> QED
    BY <1>1, <2>1, <2>2 DEF BuilderInv, HeapApart, HeapTypes
<1>3. /\ ReplayProps(Append(log[b], c)) = ReplayProps(log[b])
      /\ ReplayTags(Append(log[b], c)) = ReplayTags(log[b])
      /\ ReplayGrants(Append(log[b], c)) = Append(queue[b], g) /\ Ranked(Append(log[b], c))
  <2>1. c.op = "grant" /\ c.key = g
    BY DEF c
  <2>2. log[b] \in Seq(Accepted) /\ Ranked(log[b])
    BY Holding
  <2>3. ReplayProps(Append(log[b], c)) = ReplayProps(log[b])
    <3>1. ReplayProps(log[b]) = [q \in Props |-> ReplayProps(log[b])[q]]
      BY DEF ReplayProps
    <3> QED
      BY <1>0, <2>1, <2>2, <3>1, ReplayingProps
  <2> DEFINE N == Cardinality(GrantCalls(log[b]))
  <2>4. N \in Nat /\ ReplayGrants(Append(log[b], c)) =
          [i \in 1..(N + 1) |-> IF i = N + 1 THEN g ELSE queue[b][i]]
    <3>1. N \in Nat /\ ReplayGrants(Append(log[b], c)) =
            [i \in 1..(N + 1) |-> IF i = N + 1 THEN g ELSE ReplayGrants(log[b])[i]]
      BY <1>0, <2>1, <2>2, ReplayingGrants
    <3> QED
      BY <3>1, Holding
  <2>5. queue[b] \in Seq(Grants) /\ DOMAIN queue[b] = 1..N
    BY Holding DEF ReplayGrants
  <2> HIDE DEF N
  <2>6. Append(queue[b], g) = [i \in 1..(N + 1) |-> IF i = N + 1 THEN g ELSE queue[b][i]]
    <3>1. Len(queue[b]) = N
      BY <2>4, <2>5
    <3> QED
      BY <2>5, <3>1
  <2> QED
    BY <1>0, <2>1, <2>2, <2>3, <2>4, <2>6, ReplayingTags, ReplayingGrants
<1>4. CopiesAreIndependent' /\ \A d \in Builders : Ranked(log'[d])
  <2>1. b \in Builders /\ log'[b] = Append(log[b], c) /\ queue'[b] = Append(queue[b], g)
        /\ \A d \in Builders \ {b} : log'[d] = log[d] /\ queue'[d] = queue[d]
    BY <1>1, Holding DEF BuilderInv, HeapTypes
  <2>2. ASSUME NEW d \in alive
        PROVE  /\ props[d] = ReplayProps(log'[d]) /\ tags[d] = ReplayTags(log'[d])
               /\ queue'[d] = ReplayGrants(log'[d])
    BY <1>3, <2>1, Holding
  <2>3. \A d \in Builders : Ranked(log'[d])
    BY <1>3, <2>1 DEF BuilderInv
  <2>4. \A d \in alive : propsAt[d] = d /\ tagsAt[d] = d /\ queueAt[d] = d
    BY Holding
  <2> QED
    BY <1>1, <2>2, <2>3, <2>4 DEF CopiesAreIndependent
<1> QED
  BY <1>1, <1>2, <1>4 DEF BuilderInv, BuildReflectsCalls

(* The entries of tags() are recorded all, or none when one is refused.    *)
LEMMA AllOrNothing ==
  ASSUME NEW entries \in Entries
  PROVE  /\ entries \in Seq(TagKeys \X TagValues)
         /\ ValidUpTo(entries) < Len(entries) => Recorded(entries) = <<>>
         /\ ~(ValidUpTo(entries) < Len(entries)) => Recorded(entries) = entries
<1>1. entries \in Seq(TagKeys \X TagValues)
  <2>1. CASE \E k \in TagKeys, v \in TagValues : entries = <<<<k, v>>>>
    BY <2>1
  <2>2. CASE \E kl \in TagKeys \X TagKeys, v \in TagValues : entries = <<<<kl[1], v>>, <<kl[2], v>>>>
    <3>1. PICK kl \in TagKeys \X TagKeys, v \in TagValues : entries = <<<<kl[1], v>>, <<kl[2], v>>>>
      BY <2>2
    <3>2. <<kl[1], v>> \in TagKeys \X TagValues /\ <<kl[2], v>> \in TagKeys \X TagValues
      OBVIOUS
    <3> QED
      BY <3>1, <3>2
  <2> QED
    BY <2>1, <2>2 DEF Entries
<1> DEFINE bad == {i \in DOMAIN entries : entries[i][1] \in BadKeys}
<1>2. Len(entries) \in Nat /\ bad \in SUBSET (1..Len(entries))
  BY <1>1
<1>3. ValidUpTo(entries) = IF bad = {} THEN Len(entries) ELSE Min(bad) - 1
  BY DEF ValidUpTo
<1> HIDE DEF bad
<1>4. bad # {} => Min(bad) \in 1..Len(entries)
  <2>1. bad \in SUBSET Nat
    BY <1>2
  <2> QED
    BY <1>2, <2>1, MinIsLeast
<1> QED
  BY <1>1, <1>2, <1>3, <1>4 DEF Recorded

(* Recording entries gives tags, and recording none changes nothing.       *)
LEMMA PutTypes ==
  ASSUME NEW m \in [TagKeys -> TagValues \cup {Unset}], NEW entries \in Seq(TagKeys \X TagValues)
  PROVE  Put(m, entries) \in [TagKeys -> TagValues \cup {Unset}] /\ Put(m, <<>>) = m
<1> DEFINE on(k) == {i \in DOMAIN entries : entries[i][1] = k}
<1>1. Len(entries) \in Nat /\ \A k : on(k) \in SUBSET (1..Len(entries))
  OBVIOUS
<1>2. ASSUME NEW k \in TagKeys, on(k) # {}
      PROVE  entries[Max(on(k))][2] \in TagValues
  <2>1. Max(on(k)) \in on(k)
    BY <1>1, <1>2, LastPosition
  <2>2. Max(on(k)) \in 1..Len(entries)
    BY <1>1, <2>1
  <2> QED
    BY <2>2
<1>3. Put(m, entries) \in [TagKeys -> TagValues \cup {Unset}]
  BY <1>2 DEF Put
<1>4. Put(m, <<>>) = m
  BY DEF Put
<1> QED
  BY <1>3, <1>4

(* tags() records its entries for its builder, or throws and records none. *)
LEMMA TagsKeep ==
  ASSUME BuilderInv, NEW b \in alive, NEW entries \in Entries, Tags(b, entries)
  PROVE  BuilderInv'
<1> DEFINE c == [op |-> "tags", key |-> entries, val |-> Unset]
<1>0. c \in Accepted
  BY DEF Accepted
<1>1. /\ tags' = [tags EXCEPT ![b] = Put(@, Recorded(entries))]
      /\ \/ log' = log /\ Recorded(entries) = <<>>
         \/ log' = [log EXCEPT ![b] = Append(@, c)] /\ Recorded(entries) = entries
      /\ UNCHANGED <<alive, propsAt, tagsAt, queueAt, props, queue, handle, made>>
  <2>1. tags' = [tags EXCEPT ![b] = Put(@, Recorded(entries))]
    BY Holding DEF Tags
  <2> QED
    BY <2>1, AllOrNothing DEF Tags, Note, where
<1> HIDE DEF c
<1>2. HeapApart' /\ HeapTypes'
  <2>1. log' \in [Builders -> Seq(Accepted)]
    <3>1. log \in [Builders -> Seq(Accepted)] /\ Append(log[b], c) \in Seq(Accepted)
      BY <1>0, Holding, Appended DEF BuilderInv, HeapTypes
    <3> QED
      BY <1>1, <3>1
  <2>2. tags' \in [Builders -> [TagKeys -> TagValues \cup {Unset}]]
    <3>1. Recorded(entries) \in Seq(TagKeys \X TagValues)
      <4>1. entries \in Seq(TagKeys \X TagValues) /\ <<>> \in Seq(TagKeys \X TagValues)
        BY AllOrNothing
      <4> QED
        BY <1>1, <4>1
    <3>2. Put(tags[b], Recorded(entries)) \in [TagKeys -> TagValues \cup {Unset}]
      BY <3>1, Holding, PutTypes
    <3> QED
      BY <1>1, <3>2 DEF BuilderInv, HeapTypes
  <2> QED
    BY <1>1, <2>1, <2>2 DEF BuilderInv, HeapApart, HeapTypes
<1>3. /\ ReplayProps(log'[b]) = ReplayProps(log[b])
      /\ ReplayTags(log'[b]) = Put(tags[b], Recorded(entries))
      /\ ReplayGrants(log'[b]) = ReplayGrants(log[b]) /\ Ranked(log'[b])
  <2>1. c.op = "tags" /\ c.key = entries
    BY DEF c
  <2>2. log[b] \in Seq(Accepted) /\ Ranked(log[b]) /\ tags[b] = ReplayTags(log[b])
        /\ b \in Builders /\ tags[b] \in [TagKeys -> TagValues \cup {Unset}]
    BY Holding
  <2>3. CASE log' = log /\ Recorded(entries) = <<>>
    <3>1. Put(tags[b], <<>>) = tags[b]
      BY <2>2, AllOrNothing, PutTypes
    <3> QED
      BY <2>2, <2>3, <3>1
  <2>4. CASE log' = [log EXCEPT ![b] = Append(@, c)] /\ Recorded(entries) = entries
    <3>1. log'[b] = Append(log[b], c)
      BY <2>2, <2>4 DEF BuilderInv, HeapTypes
    <3>2. ReplayProps(Append(log[b], c)) = ReplayProps(log[b])
      <4>1. ReplayProps(log[b]) = [q \in Props |-> ReplayProps(log[b])[q]]
        BY DEF ReplayProps
      <4> QED
        BY <1>0, <2>1, <2>2, <4>1, ReplayingProps
    <3>3. ReplayTags(Append(log[b], c)) = Put(tags[b], entries)
      BY <1>0, <2>1, <2>2, ReplayingTags
    <3>4. ReplayGrants(Append(log[b], c)) = ReplayGrants(log[b]) /\ Ranked(Append(log[b], c))
      BY <1>0, <2>1, <2>2, ReplayingGrants
    <3> QED
      BY <2>4, <3>1, <3>2, <3>3, <3>4
  <2> QED
    BY <1>1, <2>3, <2>4
<1>4. CopiesAreIndependent' /\ \A d \in Builders : Ranked(log'[d])
  <2>1. b \in Builders /\ tags'[b] = Put(tags[b], Recorded(entries))
        /\ \A d \in Builders \ {b} : log'[d] = log[d] /\ tags'[d] = tags[d]
    BY <1>1, Holding DEF BuilderInv, HeapTypes
  <2>2. ASSUME NEW d \in alive
        PROVE  /\ props[d] = ReplayProps(log'[d]) /\ tags'[d] = ReplayTags(log'[d])
               /\ queue[d] = ReplayGrants(log'[d])
    BY <1>3, <2>1, Holding
  <2>3. \A d \in Builders : Ranked(log'[d])
    BY <1>3, <2>1 DEF BuilderInv
  <2>4. \A d \in alive : propsAt[d] = d /\ tagsAt[d] = d /\ queueAt[d] = d
    BY Holding
  <2> QED
    BY <1>1, <2>2, <2>3, <2>4 DEF CopiesAreIndependent
<1> QED
  BY <1>1, <1>2, <1>4 DEF BuilderInv, BuildReflectsCalls

(* copy() gives the copy objects of its own, with what the original's hold.*)
LEMMA CopyKeeps ==
  ASSUME BuilderInv, NEW b \in alive, NEW c \in Builders, Copy(b, c)
  PROVE  BuilderInv'
<1>1. /\ alive' = alive \cup {c} /\ c \notin alive /\ b # c /\ b \in Builders
      /\ UNCHANGED <<propsAt, tagsAt, queueAt, handle, made>>
      /\ props' = [props EXCEPT ![c] = props[b]] /\ tags' = [tags EXCEPT ![c] = tags[b]]
      /\ queue' = [queue EXCEPT ![c] = queue[b]] /\ log' = [log EXCEPT ![c] = log[b]]
  <2>1. /\ propsAt' = propsAt /\ tagsAt' = tagsAt /\ queueAt' = queueAt
        /\ propsAt[c] = c /\ tagsAt[c] = c /\ queueAt[c] = c
    BY DEF Copy, Fresh, BuilderInv, HeapApart
  <2> QED
    BY <2>1, Holding DEF Copy
<1>2. HeapApart' /\ HeapTypes'
  BY <1>1 DEF BuilderInv, HeapApart, HeapTypes
<1>3. \A d \in Builders : Ranked(log'[d])
  BY <1>1 DEF BuilderInv, HeapTypes
<1>4. CopiesAreIndependent'
  <2>1. /\ props'[c] = props[b] /\ tags'[c] = tags[b] /\ queue'[c] = queue[b] /\ log'[c] = log[b]
        /\ \A d \in Builders \ {c} : /\ props'[d] = props[d] /\ tags'[d] = tags[d]
                                     /\ queue'[d] = queue[d] /\ log'[d] = log[d]
    BY <1>1 DEF BuilderInv, HeapTypes
  <2>2. ASSUME NEW d \in alive'
        PROVE  /\ props'[d] = ReplayProps(log'[d]) /\ tags'[d] = ReplayTags(log'[d])
               /\ queue'[d] = ReplayGrants(log'[d])
    BY <1>1, <2>1, Holding
  <2>3. \A d \in alive' : propsAt'[d] = d /\ tagsAt'[d] = d /\ queueAt'[d] = d
    BY <1>2 DEF HeapApart
  <2> QED
    BY <2>2, <2>3 DEF CopiesAreIndependent
<1> QED
  BY <1>1, <1>2, <1>3, <1>4 DEF BuilderInv, BuildReflectsCalls

(* The grants a build applies: all, or those before the first whose        *)
(* resource the context lacks.                                             *)
LEMMA GrantedPrefix ==
  ASSUME NEW q \in Seq(Grants), NEW context
  PROVE  /\ IsPrefix(Granted(q, context), q)
         /\ \A i \in DOMAIN Granted(q, context) : Granted(q, context)[i] \in context
         /\ Granted(q, context) = q <=> \A i \in DOMAIN q : q[i] \in context
<1> DEFINE lost == {i \in DOMAIN q : q[i] \notin context}
           g == Granted(q, context)
<1>0. Len(q) \in Nat /\ DOMAIN q = 1..Len(q) /\ lost \in SUBSET (1..Len(q)) /\ lost \in SUBSET Nat
  OBVIOUS
<1>1. g = IF lost = {} THEN q ELSE SubSeq(q, 1, Min(lost) - 1)
  BY DEF Granted
<1> HIDE DEF g
<1>2. CASE lost = {}
  <2>1. g = q /\ \A i \in DOMAIN q : q[i] \in context
    BY <1>1, <1>2
  <2>2. IsPrefix(q, q)
    BY <1>0 DEF IsPrefix
  <2> QED
    BY <2>1, <2>2 DEF g
<1>3. CASE lost # {}
  <2> DEFINE k == Min(lost)
  <2>1. k \in lost /\ (\A i \in lost : k <= i)
    BY <1>0, <1>3, MinIsLeast
  <2>2. k \in 1..Len(q) /\ q[k] \notin context
    BY <2>1
  <2>3. \A i \in 1..(k - 1) : i \in DOMAIN q /\ i \notin lost
    <3> HIDE DEF k, lost
    <3> QED
      BY <1>0, <2>1, <2>2
  <2>4. \A i \in 1..(k - 1) : q[i] \in context
    BY <2>3
  <2> HIDE DEF lost, k
  <2>5. g = SubSeq(q, 1, k - 1) /\ g \in Seq(Grants) /\ Len(g) = k - 1 /\ DOMAIN g = 1..(k - 1)
        /\ \A i \in 1..(k - 1) : g[i] = q[i]
    <3>1. g = SubSeq(q, 1, k - 1)
      BY <1>1, <1>3 DEF k
    <3>2. k - 1 \in 0..Len(q)
      BY <1>0, <2>2
    <3>3. \A i \in 1..(k - 1) : i \in 1..Len(q)
      BY <1>0, <2>2
    <3>4. Len(g) = k - 1 /\ \A i \in 1..(k - 1) : g[i] = q[i]
      BY <1>0, <3>1, <3>2
    <3>5. g \in Seq(Grants)
      BY <1>0, <3>1, <3>2, <3>3
    <3> QED
      BY <3>1, <3>4, <3>5
  <2>6. g # q
    BY <1>0, <2>2, <2>5
  <2>7. IsPrefix(g, q)
    <3>1. SubSeq(g, 1, Len(g)) = g
      BY <2>5
    <3> QED
      BY <1>0, <2>2, <2>5, <3>1 DEF IsPrefix
  <2> QED
    BY <1>0, <2>2, <2>4, <2>5, <2>6, <2>7 DEF g
<1> QED
  BY <1>2, <1>3

(* What build() makes is what its builder was told.                        *)
LEMMA BuildKeeps ==
  ASSUME BuilderInv, NEW b \in alive, NEW context, Build(b, context)
  PROVE  BuilderInv'
<1> DEFINE q == queue[b]
           ok == Granted(q, context) = q
           m == [by |-> b, props |-> props[b], grants |-> Granted(q, context), ok |-> ok,
                 tags |-> IF ok THEN tags[b] ELSE NoTags, given |-> context, log |-> log[b]]
<1>1. /\ made' = made \cup {m}
      /\ UNCHANGED <<alive, propsAt, tagsAt, queueAt, props, tags, queue, handle, log>>
  BY Holding DEF Build, TagsOf, where, store
<1>2. /\ m.props = ReplayProps(m.log) /\ ReplayGrants(m.log) = q
      /\ m.ok => m.tags = ReplayTags(m.log)
  BY Holding
<1>3. /\ m.grants = Granted(q, context) /\ m.given = context /\ m.ok = ok
      /\ ~m.ok => m.tags = NoTags
  OBVIOUS
<1>4. q \in Seq(Grants) /\ m.ok \in BOOLEAN
  BY Holding
<1> HIDE DEF m
<1>5. LET asked == ReplayGrants(m.log) IN
      /\ m.props = ReplayProps(m.log)
      /\ IsPrefix(m.grants, asked)
      /\ \A i \in DOMAIN m.grants : m.grants[i] \in m.given
      /\ m.ok <=> \A i \in DOMAIN asked : asked[i] \in m.given
      /\ m.tags = IF m.ok THEN ReplayTags(m.log) ELSE NoTags
  <2>1. /\ IsPrefix(m.grants, q) /\ \A i \in DOMAIN m.grants : m.grants[i] \in m.given
        /\ ok <=> \A i \in DOMAIN q : q[i] \in m.given
    <3>1. /\ IsPrefix(Granted(q, context), q)
          /\ \A i \in DOMAIN Granted(q, context) : Granted(q, context)[i] \in context
          /\ Granted(q, context) = q <=> \A i \in DOMAIN q : q[i] \in context
      BY <1>4, GrantedPrefix
    <3> QED
      BY <1>3, <3>1
  <2> HIDE DEF q, ok
  <2>2. m.tags = IF m.ok THEN ReplayTags(m.log) ELSE NoTags
    BY <1>2, <1>3
  <2> QED
    BY <1>2, <1>3, <2>1, <2>2
<1>6. BuildReflectsCalls'
  BY <1>1, <1>5 DEF BuilderInv, BuildReflectsCalls
<1>7. HeapApart' /\ HeapTypes' /\ CopiesAreIndependent' /\ \A d \in Builders : Ranked(log'[d])
  BY <1>1 DEF BuilderInv, HeapApart, HeapTypes, CopiesAreIndependent
<1> QED
  BY <1>1, <1>6, <1>7 DEF BuilderInv

(***************************************************************************)
(* The theorems.                                                           *)
(***************************************************************************)
(* A program starts with one builder, of which nothing is known.           *)
LEMMA BuilderInvInit == BuilderInit => BuilderInv
<1> SUFFICES ASSUME BuilderInit PROVE BuilderInv
  OBVIOUS
<1>1. HeapApart /\ HeapTypes
  BY BuilderAssumption DEF BuilderInit, HeapApart, HeapTypes, NoProps, NoTags
<1>2. GrantCalls(<<>>) = {} /\ Cardinality({}) = 0
  BY FS_EmptySet DEF GrantCalls
<1>3. /\ ReplayProps(<<>>) = NoProps /\ ReplayTags(<<>>) = NoTags
      /\ ReplayGrants(<<>>) = <<>> /\ Ranked(<<>>)
  <2>1. ReplayProps(<<>>) = NoProps
    BY DEF ReplayProps, NoProps
  <2>2. ReplayTags(<<>>) = NoTags
    BY DEF ReplayTags, NoTags
  <2>3. 1..Cardinality(GrantCalls(<<>>)) = {}
    <3>1. Cardinality(GrantCalls(<<>>)) = 0
      BY <1>2
    <3>2. 1..0 = {}
      OBVIOUS
    <3> QED
      BY <3>1, <3>2
  <2>4. ReplayGrants(<<>>) = <<>> /\ Ranked(<<>>)
    BY <2>3 DEF ReplayGrants, Ranked
  <2> QED
    BY <2>1, <2>2, <2>4
<1>4. CopiesAreIndependent /\ BuildReflectsCalls /\ \A b \in Builders : Ranked(log[b])
  BY <1>3, BuilderAssumption DEF BuilderInit, CopiesAreIndependent, BuildReflectsCalls
<1> QED
  BY <1>1, <1>4 DEF BuilderInv

(* Every call on a builder keeps the invariant.                            *)
LEMMA BuilderInvStep == BuilderInv /\ [BuilderNext]_builderVars => BuilderInv'
<1> SUFFICES ASSUME BuilderInv, [BuilderNext]_builderVars PROVE BuilderInv'
  OBVIOUS
<1>1. CASE BuilderNext
  BY <1>1, SetKeeps, GrantKeeps, TagsKeep, CopyKeeps, BuildKeeps DEF BuilderNext
<1>2. CASE UNCHANGED builderVars
  BY <1>2 DEF builderVars, where, store, BuilderInv, HeapApart, HeapTypes,
              CopiesAreIndependent, BuildReflectsCalls
<1> QED
  BY <1>1, <1>2

(* What holds of builders, their copies and what they built, after any     *)
(* calls.                                                                  *)
THEOREM BuilderInvariant == BuilderSpec => []BuilderInv
BY BuilderInvInit, BuilderInvStep, PTL DEF BuilderSpec

(* Original and copy are independent both ways: a builder holds what its   *)
(* own calls say, whatever is called on the others (builder.ts:122,        *)
(* tagged-builder.ts:152).                                                 *)
THEOREM CopyIndependence == BuilderSpec => []CopiesAreIndependent
BY BuilderInvariant, PTL DEF BuilderInv

(* A construct has the properties, grants and tags its builder was told of *)
(* before build(); one whose build threw has the grants before the first   *)
(* that could not resolve, and no tag (grant.ts:105).                      *)
THEOREM BuildsReflectCalls == BuilderSpec => []BuildReflectsCalls
BY BuilderInvariant, PTL DEF BuilderInv
=============================================================================
