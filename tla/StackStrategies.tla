--------------------------- MODULE StackStrategies ---------------------------
(***************************************************************************)
(* Stack strategies: singleStack and groupedStacks of @composurecdk/core,  *)
(* their CloudFormation variants, which create each stack with a stack     *)
(* builder, and withStackStrategy, which resolves the stack of every       *)
(* component before it builds any.                                         *)
(*                                                                         *)
(* A strategy is an object with memory: the stacks it has created stay in  *)
(* its closure, from one build() to the next, whatever scope the next one  *)
(* is called on.                                                           *)
(***************************************************************************)
EXTENDS Naturals, Sequences, SequencesExt

CONSTANTS
  Strategies,    \* the strategy objects
  StrategyKind,  \* "single" or "grouped", for each strategy
  Keys,          \* the component keys of a system, in declaration order
  Classify,      \* the group of each key
  Apps,          \* the scopes build() may be called on
  SystemIds,     \* the ids it may be called with: segments joined by "-"
  MaxVersion,    \* bound on the reconfigurations of the stack builder
  MaxBuilds      \* bound on the calls of build()

ASSUME StrategyAssumption ==
  /\ StrategyKind \in [Strategies -> {"single", "grouped"}]
  /\ Keys \in Seq(Range(Keys)) /\ IsInjective(Keys)
  /\ DOMAIN Classify = Range(Keys)
  /\ MaxVersion \in Nat /\ MaxBuilds \in Nat

VARIABLES
  version,    \* configuration of the one stack builder the user holds
  holds,      \* the builder a strategy was given: "none", "live", or a copied version
  memo,       \* the closure of each strategy: group -> stack
  stacks,     \* the stacks of the external construct tree
  pc,         \* "idle", "resolving" or "building"
  err,        \* what the last build threw, or "none"
  build,      \* the running or last build: strategy, app, id and its number
  resolved,   \* the stack of each key, in this build
  placed      \* the components built so far: key, stack and build number

strategyVars == <<version, holds, memo, stacks, pc, err, build, resolved, placed>>

\* Mutant of GroupOf: one memo entry per component.
PerKey(st, k) == IF StrategyKind[st] = "single" THEN <<k>> ELSE Classify[k]

\* singleStack ignores the key: every component is in the one group.
GroupOf(st, k) == IF StrategyKind[st] = "single" THEN <<>> ELSE Classify[k]

Groups(st) == {GroupOf(st, k) : k \in Range(Keys)}

\* `${systemId}-${group}`, or systemId alone for singleStack.
StackId(st, k) == build.id \o GroupOf(st, k)

(***************************************************************************)
(* The caller: configuring the stack builder, making a strategy.           *)
(***************************************************************************)
Configure ==
  /\ pc = "idle" /\ version < MaxVersion
  /\ version' = version + 1
  /\ UNCHANGED <<holds, memo, stacks, pc, err, build, resolved, placed>>

\* The strategy keeps a reference to the builder, or to a copy of it.
CreateStrategy(st, mode) ==
  /\ pc = "idle" /\ holds[st] = "none"
  /\ holds' = [holds EXCEPT ![st] = IF mode = "copy" THEN <<version>> ELSE "live"]
  /\ UNCHANGED <<version, memo, stacks, pc, err, build, resolved, placed>>

\* Mutant of ConfigOf: copy() shares the props of the original.
SharedConfig(st) == version

\* What builder.build() reads when it finally runs.
ConfigOf(st) == IF holds[st] = "live" THEN version ELSE holds[st][1]

(***************************************************************************)
(* withStackStrategy(st).build(app, id).                                   *)
(***************************************************************************)
StartBuild(st, app, id) ==
  /\ pc = "idle" /\ holds[st] # "none" /\ build.run < MaxBuilds
  /\ build' = [st |-> st, app |-> app, id |-> id, run |-> build.run + 1]
  /\ pc' = "resolving"
  /\ err' = "none"
  /\ resolved' = <<>>
  /\ UNCHANGED <<version, holds, memo, stacks, placed>>

NextKey == Keys[Len(resolved) + 1]
Resolving == pc = "resolving" /\ Len(resolved) < Len(Keys)

\* Mutant of Known: the memo also remembers which scope it was filled for.
KnownHere(st, g) == g \in DOMAIN memo[st] /\ memo[st][g].app = build.app
Known(st, g) == g \in DOMAIN memo[st]

Reuse ==
  /\ Resolving
  /\ LET st == build.st  g == GroupOf(st, NextKey) IN
     /\ Known(st, g)
     /\ resolved' = Append(resolved, memo[st][g])
  /\ UNCHANGED <<version, holds, memo, stacks, pc, err, build, placed>>

Taken(app, id) == \E s \in stacks : s.app = app /\ s.id = id

CreateStack ==
  /\ Resolving
  /\ LET st == build.st
         g == GroupOf(st, NextKey)
         s == [app |-> build.app, id |-> StackId(st, NextKey),
               cfg |-> ConfigOf(st), by |-> st, run |-> build.run] IN
     /\ ~Known(st, g)
     /\ ~Taken(s.app, s.id)
     /\ stacks' = stacks \cup {s}
     /\ memo' = [memo EXCEPT ![st] =
                   [h \in DOMAIN @ \cup {g} |-> IF h = g THEN s ELSE @[h]]]
     /\ resolved' = Append(resolved, s)
  /\ UNCHANGED <<version, holds, pc, err, build, placed>>

Fail(e) ==
  /\ err' = e
  /\ pc' = "idle"
  /\ UNCHANGED <<version, holds, memo, stacks, build, resolved>>

\* The factory throws: the id is taken in the app, or the stack is refused.
CreateStackThrows ==
  /\ Resolving
  /\ ~Known(build.st, GroupOf(build.st, NextKey))
  /\ IF Taken(build.app, StackId(build.st, NextKey))
     THEN Fail("DuplicateStack") ELSE Fail("FactoryThrew")
  /\ UNCHANGED placed

AllResolved == pc = "resolving" /\ Len(resolved) = Len(Keys)

\* #buildWith takes over with the map of resolved stacks; components come in
\* any order the dependency graph allows.
BeginComponents ==
  /\ AllResolved
  /\ pc' = "building"
  /\ UNCHANGED <<version, holds, memo, stacks, err, build, resolved, placed>>

PlacedNow == {p \in placed : p.run = build.run}
Unplaced == {i \in 1..Len(resolved) : \A p \in PlacedNow : p.key # Keys[i]}

BuildComponent(i) ==
  /\ pc = "building" /\ i \in Unplaced
  /\ placed' = placed \cup {[key |-> Keys[i], stack |-> resolved[i], run |-> build.run]}
  /\ UNCHANGED <<version, holds, memo, stacks, pc, err, build, resolved>>

ComponentThrows ==
  /\ pc = "building" /\ Unplaced # {}
  /\ Fail("BuilderThrew")
  /\ UNCHANGED placed

Return ==
  /\ pc = "building" /\ Unplaced = {}
  /\ pc' = "idle"
  /\ UNCHANGED <<version, holds, memo, stacks, err, build, resolved, placed>>

StrategyInit ==
  /\ version = 0
  /\ holds = [st \in Strategies |-> "none"]
  /\ memo = [st \in Strategies |-> <<>>]
  /\ stacks = {} /\ placed = {}
  /\ pc = "idle" /\ err = "none"
  /\ \E st \in Strategies, app \in Apps, id \in SystemIds :
       build = [st |-> st, app |-> app, id |-> id, run |-> 0]
  /\ resolved = <<>>

StrategyNext ==
  \/ Configure
  \/ \E st \in Strategies :
       \/ \E mode \in {"live", "copy"} : CreateStrategy(st, mode)
       \/ \E app \in Apps, id \in SystemIds : StartBuild(st, app, id)
  \/ Reuse \/ CreateStack \/ CreateStackThrows
  \/ BeginComponents \/ ComponentThrows \/ Return
  \/ \E i \in 1..Len(Keys) : BuildComponent(i)

StrategySpec == StrategyInit /\ [][StrategyNext]_strategyVars
-----------------------------------------------------------------------------
(***************************************************************************)
(*                               Properties                                *)
(***************************************************************************)

(* Two components of a build share a stack exactly when the classifier puts *)
(* them in one group (all of them, for singleStack), new stacks and stacks  *)
(* kept from earlier builds alike.                                          *)
SameStackIffSameGroup ==
  \A i, j \in 1..Len(resolved) :
    resolved[i] = resolved[j] <=>
      StrategyKind[build.st] = "single" \/ Classify[Keys[i]] = Classify[Keys[j]]

(* A strategy given builder.copy() creates every stack, in every build,     *)
(* with the configuration of the moment of the copy (ADR-0005).             *)
CopyIsSnapshot ==
  \A s \in stacks : holds[s.by] # "live" => s.cfg = holds[s.by][1]

(* What a strategy created it keeps: once a component of a key was placed   *)
(* by a strategy, every later build with that strategy puts the key in the  *)
(* very same stack, even one called on another app.                         *)
StrategyNeverMoves ==
  [][\A p \in placed' \ placed : \A q \in placed :
       q.key = p.key /\ q.stack.by = p.stack.by => q.stack = p.stack]_strategyVars
=============================================================================
