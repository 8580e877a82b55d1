# ComposureCDK in TLA+

ComposureCDK composes AWS CDK builders into systems: `compose()` takes a record
of components and the dependencies between them, checks that the dependencies
are acyclic, and builds the components in dependency order, handing each one
the results of those it declared. Around that engine the repository has
fluent builders (one package per AWS service), stack strategies, after-build
hooks, alarms, and policies that work on the finished construct tree when the
app is synthesised.

The library runs in one JavaScript thread and synchronously, in one process that
ends with a template. There are no messages, locks or crashes to recover from.
Two handlers it ships run elsewhere: Lambda functions that CloudFormation calls
while it deploys (the version pruner and the rule set activation), and those do
interleave. What makes the code hard is:

* **order** – linear extensions of a graph, nested builds, hooks, aspects that
  run after the program and in an order of the construct tree;
* **partial failure** – nothing is rolled back and nobody catches: an exception
  in the middle of a build leaves constructs behind, and the construct tree
  refuses the same id twice;
* **hidden state that outlives a call** – the memo of a stack strategy, the
  `WeakSet` of a policy, the `lastIndex` of a `RegExp`, the accumulators that
  `copy()` must not share;
* **races on what an account shares** – the active receipt rule set, the
  versions that aliases route to, while deployments succeed, fail and roll back;
* **naming** – construct ids, stack ids, alarm keys and alarm names are
  computed in several places and must not collide; `compose()` compares the ids
  it hands out, and nobody the names that builders derive from them.

## 1. Inventory

| component (packages/…) | state it keeps | operations | interacts with | hard part, and what makes it correct |
|---|---|---|---|---|
| `core/src/compose.ts`, `build-id.ts` | the graph; hooks; per build: `results`, `idsByScope`, context | `compose`, `at`, `withStacks`, `withStackStrategy`, `afterBuild`, `build` | builders and nested systems (calls `build`), construct tree, hooks | any topological order and nesting; contexts are lexical and hold finished results only; ids do not collide; a build ends |
| `core/src/ref.ts`, `dependencies.ts`, `construct-id.ts` | none | `resolve`, `Ref.get/map`, `combine`, `dependsOn` | contexts | a ref without a provider throws in the middle of a build |
| `core/src/stack-strategy.ts`, `cloudformation/src/strategies.ts`, `stack-builder.ts` | memo of stacks in a closure | `singleStack`, `groupedStacks`, `resolve` | compose, stack builder, construct tree | the memo outlives the build; one stack per group; no component before all stacks exist |
| `core/src/builder.ts`, `grant.ts`, `cloudformation/src/tagged-builder.ts`, `tag-validator.ts`, `apply-builder-tags.ts` | props, grant queue, tag accumulator | setters, `grant`, `tag`, `tags`, `copy`, `build` | results, contexts | copies share nothing; chaining never loses the tagging proxy; rejected calls change nothing |
| `cloudformation/src/outputs.ts`, `tags.ts` | the definitions, by reference | the hooks `outputs`, `tags` | results and scopes of a build | fail half-way; validated early, read late |
| `cloudwatch/src/create-alarms.ts`, `alarm-name.ts`, `default-alarm-name.ts` | the alarms of one call | `createAlarms` | construct tree | duplicate keys and ids in mid-loop |
| `cloudwatch/src/resolve-alarm-config.ts`, `alarm-definition-builder.ts` | configuration layers | `resolveAlarmConfig`, `AlarmDefinitionBuilder` | service packages | `false`, defaults and overrides of an alarm |
| `cloudwatch/src/policies/*`, `cloudformation/src/policies/template-text-policy.ts` | `WeakSet` per policy, rules with `RegExp` objects | `alarmActionsPolicy`, `alarmNamePolicy`, `templateTextPolicy` | every alarm of the tree, each other | order of aspects, repeated synth, other policies' effects |
| `cloudformation/src/constraints/*` | none | validate and sanitize strings | builders | regular expressions over single strings |
| `lambda` | role seams, event sources, grants, custom alarms | `FunctionBuilder`, event sources, `invokeOnDeploy` | logs, iam, sqs, dynamodb, kinesis | order of log group, role, function, grants, event sources, alarms, trigger; deferred guards |
| `route53` | record specs | record builders, `zoneRecords`, zones, health checks, delegation | hosted zones, other services | grouping of records; names checked in mid-loop |
| `sqs`, `sns`, `events` | subscriptions, DLQs, targets, queue role | queue, topic, subscription and rule builders; `topicPolicyConflictPolicy` | each other, kms | one dead-letter policy per queue role; two policies on one topic |
| `s3`, `dynamodb`, `kinesis`, `kms` | grants, alarms, access-log bucket | bucket, deployment, table, stream and key builders | logs, alarms | mutually exclusive defaults; subordinate resources |
| `stepfunctions` | definition, aliases, versions | state machine and activity builders, version pruner | logs, lambda | names resolved lazily; which versions a pruner may delete |
| `ec2`, `neptune` | volume attachments, subordinate groups | instance, volume, vpc, endpoint, security group and cluster builders | each other | attachments across components; alarms per attachment |
| `cloudfront`, `apigateway` | behaviours, inline functions; resource trees | distribution, API and resource builders; expiration guard | s3, lambda, acm | relations seen only at synth |
| `bedrock`, `bedrockagentcore` | targets, grants, alarms | guardrail, profile, runtime, gateway, memory builders | iam | model ids shared by alarms |
| `budgets` | notifications | `BudgetBuilder`, topic policies | sns | limits on subscribers, currency and region |
| `ses` | rules, activation | receipt rules and rule sets, identities, activation handler | s3, route53, lambda | activation after the rules exist |
| `iam`, `acm`, `logs`, `xray`, `custom-resources` | props, statements | thin builders | – | what §3 says of builders |
| `cdk-testing`, `eslint-plugin`, `examples`, `module-compat`, `scripts` | – | tests, lint rules, examples, release | – | not part of the library's behaviour |

Each line of the inventory is a component in `PROJECT.json`; the behaviours that
a unit test would hardly reach are listed there under `hazards`, each at its
line and with the properties that cover it.

## 2. Plan

Done, in this order:

1. `SystemBuild`, `Compose`: the engine and the specification it implements.
2. `ComposeProofs`: the build loop and the refinement.
3. `StackStrategies`, `Builders`.
4. `CreateAlarms`, `AlarmPolicies`.
5. `LambdaFunction`: the first of the service builders, in detail.
6. `Plans` and the catalogue of the service builders: one plan per builder, by
   family, and `ServiceBuild`, which runs them.
7. `ZoneRecords`: the grouping of records.
8. `VersionRollout`, `RuleSetActivation`: the two handlers against deployments.
9. `TopicPolicies`: the aspect whose memory outlives a synth.
10. `AfterBuildHooks`: `tags()` and `outputs()`.
11. The other theorems, by component: `ComposeScopingProofs`, `ConfigureProofs`,
    `LambdaProofs`, `ServiceProofs`, `ZoneProofs`, `AlarmProofs`, over
    `CommonLemmas`.

12. The discipline of the 61 plans and the properties of `ServiceBuild` that
    follow from it, in `ServiceProofs`; `Catalogue` states what that takes from
    TLC.
13. Constructs that a builder makes beside its own (`Makes` of `Compose`), late
    refs and alarm keys in the plans (`FoundLate`, `LateAlarms`), options that
    spell one id twice (`AlikeIds`), `replace()` functions of the text policy,
    and what `tags.ts` says of its validation.

What could still be modelled: the delegation provider that several systems
share in a stack, the expiration guard of cloudfront and the dead-letter guard
of streams (aspects of the form `LambdaFunction` shows), managed policies of the
Lambda role.

## 3. Modules and the code

| module | models | state ↔ code |
|---|---|---|
| `SystemBuild` | what composing promises: builders run one at a time, each after all it depends on directly or through what encloses it; a build completes with all or fails with some | abstract |
| `Compose` | `compose.ts`, `build-id.ts` | `deps`, `pin`, `route`: the arguments of `compose`, `at`, `withStacks`. `open`: the systems whose `build` is on the call stack. `built`: the keys of `results`. `scopeOf`, `idOf`, `ctx`: the arguments of each `component.build`. `used`: `idsByScope`. `constructs`: the external tree, with the builder that made each construct and what it appended to its id (`Makes`, the empty suffix for its main construct) |
| `MCCompose` | the tree of systems that TLC runs on | – |
| `ComposeProofs` | theorems about the loop of `Compose`, and the refinement | – |
| `ComposeScopingProofs` | theorems about its scopes, ids, contexts, constructs and hooks | – |
| `StackStrategies` | `stack-strategy.ts`, `strategies.ts`, `stack-builder.ts`, `withStackStrategy` | `memo`: the closure of a strategy. `holds`: the stack builder it was handed, live or a copy. `resolved`: the map of stacks of this build |
| `Builders` | `builder.ts`, `grant.ts`, `tagged-builder.ts` and what it calls | `propsAt`, `tagsAt`, `queueAt` are heap locations: two builders that hold one location share the object. `handle`: which proxy the caller chains on. `log`: history, for the properties only |
| `CreateAlarms` | `create-alarms.ts` and the naming | `tree`: alarms in the construct tree and their names. `alarms`: the record being filled |
| `AlarmPolicies` | the three policies as aspects; extends `CreateAlarms` | `processed`: the `WeakSet`. `lastIndex`: of the `RegExp` of each rule. `agenda`: the visits left in a synth. `text`: the alarm descriptions |
| `AlarmProofs` | theorems about `AlarmPolicies` | – |
| `MCAlarms` | the alarms, policies and programs that TLC runs on | – |
| `LambdaFunction` | `function-builder.ts`, `function-alarms.ts`, `invoke-on-deploy.ts`, `event-source-relationship-guards.ts`, and what they need of `RoleBuilder` | `cfg`: the fields and props of the builder. `step`: where `build()` is. `made`: the constructs, by what is added to the builder's id. `policies`: the inline policies of the default role. `attached`: `attachedEventSources`. `trigger`: the `Trigger`. `warned`: the annotations on the function. `visibility`: what each `CfnQueue` says |
| `LambdaProofs` | theorems about `LambdaFunction` | – |
| `MCLambda` | the configurations that TLC runs on | – |
| `ConfigureProofs` | theorems about `StackStrategies`, `AfterBuildHooks` and `Builders` | – |
| `MCConfigure` | the instances of `StackStrategies`, `Builders`, `AfterBuildHooks` and `MCAlarms`, side by side | – |
| `AfterBuildHooks` | `tags.ts`, `outputs.ts`, `apply-builder-tags.ts` | `hooks`: the records the closures hold. `layout`: `componentScopes`. `marks`: the tag aspects on a scope, oldest first. `exported`: the `CfnOutput`s |
| `Plans` | the words a plan is written in: ref, refusal, construct, construct of the stack that is shared, resource of another component that is changed, thing the result holds | – |
| `DataServices`, `MessagingServices`, `WebServices`, `DnsServices`, `ComputeServices`, `AgentServices`, `AccountServices` | `build()` of the 61 builders of the service packages, each as its plan: the sequence of what it does, a function of the options that are switched on | an option is a prop or a call of the builder that changes what `build()` does; refs, refusals and constructs are in the order of the code |
| `Services` | the catalogue of them, and which factories are tagged | – |
| `Catalogue` | that the ids within each plan differ, but for those of keys that are alike; evaluated by TLC in the run `lambda` | – |
| `ServiceBuild` | a run of a plan: `build()` as the caller sees it, and a second call after a throw | `todo`: where `build()` is. `made`: constructs in the scope. `result`: what the result object holds. `touched`: resources of other components it changed. `tagged`: what the walk of `applyBuilderTags` reached. `why`: what each call threw on |
| `ZoneRecords` | `zone-records.ts`, `zone-dsl.ts` | `list`: the specs. `groups`: those still to come in the loop. `sets`: the record sets made. `rooted`: `new Construct(scope, id)` has happened. `earlier`: the build before |
| `VersionRollout` | `state-machine-builder.ts` (`#buildVersioning`), `state-machine-alias.ts`, `version-pruner.ts`, its handler | `published`: the versions that exist. `routes`: the versions each alias routes to. `doomed`, `orphan`: what a running handler still wants to delete. `stage`: where CloudFormation is |
| `RuleSetActivation` | `activation.ts`, `activation-handler.ts` | `active`: the account's slot. `saw`: the answer of the first of the two calls of a deletion |
| `TopicPolicies` | `topic-policy-conflict-policy.ts` | `claims`: the `Map`. `walked`: where the walk is |
| `ZoneProofs` | theorems about `ZoneRecords` | – |
| `ServiceProofs` | theorems about `ServiceBuild`, `VersionRollout`, `RuleSetActivation` and `TopicPolicies`, and about the five parts of `MCServices` side by side | – |
| `MCServices` | the instances of `ServiceBuild`, `ZoneRecords`, `VersionRollout`, `RuleSetActivation` and `TopicPolicies`, side by side | – |
| `Positions` | parts of an array in its order: `filter`, a loop with a condition, an array without repetitions | pure |
| `CommonLemmas` | lemmas about `Positions`, sequences and concatenations, least and greatest numbers | – |

`Compose` drives the builders and nested systems through the `build()` contract
only; `Builders` is one component seen from inside, `StackStrategies` is what
computes the `route` of `Compose`, and `AlarmPolicies` runs over the tree that
builds have left. `LambdaFunction` is one leaf of `Compose` from inside: its
`Contexts` are what `ContextFor` hands over, and so is every plan of
`ServiceBuild`, where a ref may or may not resolve. `AfterBuildHooks` is what
`RunHook` of `Compose` does when the hook is one of the library's; the scopes it
gets are those a strategy has chosen. `ZoneRecords` calls the record builders of
`DnsServices`. `VersionRollout` and `RuleSetActivation` start where a template
that the plans of `StateMachine` and `ReceiptRuleSet` describe is deployed.

Actions are whole calls or whole turns of a loop. `ComposeSystem` is one
`compose()` call with its cycle check. `CallBuild` enters the outermost
`build()`. One turn of the loop in `#buildWith` is `BuildLeaf`, `OpenSystem`
(a nested system, whose own loop follows), `DuplicateId` or `LeafThrows`;
`RunHook`, `HookThrows` and `ReturnSystem` are the loop over the hooks.

### Abstractions

* A node of `Compose` stands for the component and for its result. A context is
  a function from keys to nodes, so "whose result is this" is what it tells.
* `graphlib`'s `topsort` is any linear extension; results hold for every
  version of the library.
* A construct id is a sequence of segments: `"App/a"` is `<<"App", "a">>`.
  Keys therefore contain no `/`. The construct tree's own rewriting of `/`
  inside an id (to `--`) would merge ids only for keys that contain `--`.
* A builder of `Compose` makes any set of constructs in the scope it is given:
  one of its own id, others with a suffix glued to it (`${id}LogGroup`). Which
  ones a leaf makes is the constant `Makes`; constructs inside others share no
  scope with anything and are left out.
* A builder that throws may have made any of its constructs by then: all
  subsets are explored.
* In `AlarmPolicies` a rule has one matcher, and a match is one character long
  (its place is all that `lastIndex` needs); actions for the three alarm states
  are one list of pairs; the user attaches at most one action; descriptions are
  literal, lazy or an intrinsic, and clean or not. `sanitize` writes a clean
  text, except under a `replace()` of the program's own, which may return
  anything. Tree orders are the ones listed in the MC module.
* Names are sequences of words, `MaxName` standing for CloudWatch's 255
  characters. Kebab-casing is the map `Slug`, and it is not injective.
* In `LambdaFunction` every resource is a ref; a concrete one is a key that is
  in every context. Durations are whole seconds, or unset, or a token. What a
  configurator does is the list of its calls, each on its argument or chained on
  the call before. A duplicate alarm key and a taken construct id are one error.
  What `createAlarms` does with names is in `CreateAlarms`.
* In a plan all refs of one kind are one ref, several grants one grant, and a
  list has none or one element unless ids depend on how many there are (two
  notifications on one topic, an endpoint beside its runtime), or on the case of
  a key: `addAlarm()`, `addSubscription()` and the volumes of an instance are
  each called with up to two keys that differ in their first letter only
  (`custom` and `Custom`). Keys a program chooses spell no suffix the builder
  appends itself. What `subscription.bind()` writes to its endpoint is not among
  the changes to other components; every error that could follow it is already
  one that comes late. Refusals are
  named by their reason. Property values, defaults and thresholds are left out:
  they decide nothing about what is made, in what order, or what throws.
* One tag key stands for all in `AfterBuildHooks`: keys do not interact.
* In `ZoneRecords` the records are the ones of the MC module: each kind of
  merging, each refusal, two names with one id.
* CDK itself (construct tree, aspects, `App.synth`), graphlib, CloudFormation,
  SES and Step Functions are external and modelled from how the code uses them:
  CloudFormation as deployments whose steps respect the declared dependencies,
  may fail at any step, and are rolled back step by step; Step Functions as
  refusing to delete a version an alias routes to.

## 4. Runs

| run | question | bounds |
|---|---|---|
| `compose_order` | contexts, order, refinement | a tree nested three deep with seven nodes and keys that shadow each other; **every** dependency declaration among the siblings (cyclic ones too: 64 × 4); the caller's context empty or with two keys; builders that resolve refs; a hook per system; one build |
| `compose_builds` | ids, failures, retries, hooks, termination | three dependency declarations, five pin maps, two stack maps, two builds with equal or different arguments, one hook per system; two leaves make a second construct, whose name is the id of a sibling in the one system (`fn` beside `fnLogGroup`) and of nobody in the other |
| `compose_typed` | violation, see §6 | the smallest instance |
| `configure` | memo and copies of strategies across builds; every program of four calls on a builder; hooks under every routing; creation of alarms and the policies over them | a single-stack and a grouping strategy, three components in two groups, two apps, two system ids that make one stack id, two builds, one reconfiguration of the stack builder; three builder objects, one property with two values, three tag keys of which AWS refuses one, two grants, of which a context may lack one; a component and a nested system, each in one of two stacks or outside them, with up to three hooks, records changed after `tags()` returned, unknown keys, one output name twice, an output at a scope the program holds; five calls of `createAlarms` (duplicate key, taken id, empty id, name too long, plain), a composite alarm and a bare `CfnAlarm` in another stack, eight programs of up to three policies, among them a `replace()` that returns what it likes before and after a policy with ASCII stand-ins or one that throws, two tree orders, the app synthesised twice |
| `tags_edited` | violation, see §6 | as `configure` |
| `lambda` | one build of a function, then two synths | all eight combinations of role seams; refs that are all there, or without a bucket, a table or a role; the timeouts unset, a token, short, and around 840 s and 870 s where the wait meets its ceiling; explicit waits at and over it; clashing sources and alarms; a queue with visibility at and below six times the timeout, unset, a token or imported, reconfigured twice; and, before it starts, the ids of every plan with every set of its options (`PlanIdsApart`) |
| `lambda_logs_writer` | violation, see §6 | one chained configurator |
| `alarms_duplicate`, `alarms_regexp` | violations, see §6 | the alarms and policies of `configure`, one synth |
| `services` | what a throwing build leaves and changes; ids; tags; merging and order of records; pruning against rollouts; activation against teardown; conflicts of topic policies | every builder with **every** set of up to six of its options (`MaxOptions`; the largest builder has 19), a second build with one option more or less or the ref repaired; all zones of one to three of 18 records, reversed or with one left out; five versions, a gradual alias and one that moves at once, limits of 2 and 3; two stacks, each renamed, rolled back and deleted at any point; four topic policies on three topics in two stacks, two synths |
| `zone_ttl`, `mail_teardown` | violations, see §6 | as `services`, with one option at most |

Why these are enough. Nesting of three is the least at which a key can be
declared at two enclosing levels and shadowed by a third; a third sibling is
the least at which a dependency can go around a nested system. Two builds
are what a retry is, of a system as of a single builder; the state a build inherits (`constructs`, hooks, memo) is
there after the first. With two policies of a kind an order exists; with two
synths every `WeakSet` is read after it was written. Four calls on a builder are
a call, `copy()`, a call on either, and `build()`.

Five versions with a limit of two are two deployments past the first that
prunes, one of which may fail; one that fails and a second that fails late are
what it takes to lose the version of a rollback. Two stacks are enough for
one to activate between the two calls of the other. Three records are the least
at which a group is interrupted by another one.

A builder asks for three options at most before it makes anything, and a step
depends on one or two. Six options therefore leave room for what two steps can
do to each other, such as a construct, a change to another component and the
refusal behind them. Two keys that differ in case are the
least at which one id is given twice, and one custom alarm more would only be
given it a third time. The proofs of §5 have no such bound.

Parts of a run that share nothing are told apart by a variable `part`, so that
one TLC run checks each by itself. Deadlock is not checked: a program may stop
after any call, and the counters (`MaxBuilds`, `MaxHooks`, `MaxOps`,
`MaxVersion`, `MaxEdits`, `MaxPasses`, two synths, two builds) end every
behaviour.

**What the passing runs show.** In `Compose`: scoping is lexical through all
levels (`ContextIsLexical`), a component never sees a result in the making
(`ContextIsFinished`), an accepted graph never runs dry (`NeverStuck`), and the
nested engine implements the flat one (`RefinesSystemBuild`). Without pins the
ids `compose()` hands out cannot collide; what can is a name that a builder
derives. A first build without pins fails on an id only when two siblings of one
system spell one name, as `fn` of a function builder and `fnLogGroup` of a log
group builder do, and it is then the construct tree that complains
(`UnpinnedCollisionsAreSpelled`). With pins, paths below a pin depend on
the pin alone (`PinShieldsSubtree`). Two ids that `compose()` itself hands out to
two components of one system in one build always meet the typed error; the
construct tree's own is left to other systems, earlier builds and derived names
(`HandedOutCollisionsAreTyped`). A
build that failed after creating something cannot be repeated with the same
arguments (`RetryNeedsFreshScope`): `build()` is not atomic and the model says so.
In `StackStrategies`: two components share a stack exactly when they share a
group (`SameStackIffSameGroup`), also when the stacks are left from an earlier
build on another app (`StrategyNeverMoves`), and a copied builder is a snapshot.
In `AfterBuildHooks`: of the tags that reach a resource the builder's own
wins, then what the outermost system that speaks of its scope says, of
components before the system, and every output is where its definition puts it,
as long as the records stay valid (`HooksFollowTheLayout`; for those that do not
see §6); a consequence worth knowing is that a nested system
built in the scope of the outer one has its tags overridden by the outer one's.
In `Builders`: copies are independent in
both directions and a construct reflects exactly the calls made before it. In
`AlarmPolicies`: no action is attached twice, nobody is left silent by
`skipIfAlreadyConfigured`, names are the layers in order, and a policy that
throws or sanitizes leaves no text behind that CloudFormation would alter,
unless its own `replace()` makes one (`TextSettled`). In `LambdaFunction`:
nothing is attached after the deployment's trigger, which waits for the role and
all the caller named (`TriggerComesLast`); the provider outlives the wait and the
wait outlives the handler, or the caller was warned (`WaitOutlivesHandler`); the
scoped log policy survives configurators that do not chain
(`RoleKeepsLogsWriter`); and the queue guard speaks of the value in the template
(`WarnsOfFinalValue`).

In `ServiceBuild`: a builder that throws has made nothing yet and can be
repeated in its scope (`ThrownBuildCanBeRepeated`), and has changed no resource
of another component (`OthersUntouchedByFailure`) – except where it finds out
late. `FoundLate` lists which of the 61 builders do, and on what: a state machine
on four refs it resolves when its log group or its definition exists, a runtime
on its environment variables when its security group does, a topic on its
subscriptions. `LateAlarms` adds what every builder with `addAlarm()` shares: a
key that is taken is noticed when the alarms before it have been made. Together
they are as much a result as the properties. No builder throws on an id of its
own, unless the program gave it two keys that differ in the case of their first
letter (`OwnIdsDistinct`, with `AlikeIds` the ids concerned): of alarms, of
subscriptions to a topic (`topic-builder.ts:188` compares keys as they are and
line 243 capitalises them), of volumes of an instance. `TagsStayHome` lists in the same way the results that hold
something the builder was given or shares, and so tag it. In `ZoneRecords`: one
record set for each type and name, with all its values (`OneSetPerTypeAndName`),
no zone with a contradiction is built (`ContradictionsRefused`), the order of a
list without explicit ids changes neither the contents nor whether it is
accepted (`OrderKeepsContents`; for TTLs see §6), and which errors come too late
for a repetition (`RetryAfterEarlyRefusalOnly`). In `VersionRollout`: the pruner
is never refused (`PrunerNeverRefused`) and keeps the limit
(`RetentionBound`); the version a rollback needs is lost only when failed
deployments have pushed it past the limit (`LostOnlyPastLimit`). In
`RuleSetActivation`: a deletion nobody comes in between of clears its own set
only, also after a rename (`ClearsOnlyItsOwn`). In `TopicPolicies`: no conflict
goes unreported and none is reported that is not one, although the claims of
one synth are still there in the next (`ConflictsReported`).

`NamesLayerInOrder` has one exception. A policy that left a name as it was does
not mark the alarm as processed (`alarm-name-policy.ts:149`), so it is asked
again in the next synth, with what other policies have made of the name since.
A policy of prefixes and suffixes that changed nothing once never changes
anything, so the layers stay as they are. A transform that rewrites the name
from scratch may have returned the name it was given, and in the next synth
undoes what later policies put around it. The property therefore excludes, after
the first synth, the alarms a transform rewrites.

**Fairness.** Only `compose_builds` uses any, for `BuildEnds`: weak fairness of
`BuildStep`, the steps of a running `build()`. A call of `build()` is
synchronous JavaScript, so once entered its next step is always taken; the
caller's steps carry no fairness, and neither do builders that never return.

## 5. What is proved

Every property that a passing run checks is also a theorem, for all values of
the constants, except `BuildEnds` (see the end of this section). Each safety
theorem has the same shape: an inductive invariant `Inv`, with `Init => Inv`,
`Inv /\ [Next]_vars => Inv'` by one step for each action, and `Inv` implying the
property. Action properties follow from the same invariant. What the provers
take for granted about constants are the named assumptions of the modules, which
TLC evaluates in the runs.

| module | assumptions on constants | what they say |
|---|---|---|
| `Compose` | `TreeAssumption`, `ValueAssumption`, `ChoiceAssumption`, `RootedAssumption` | a finite tree whose keys are unique within a system, as record keys are, all of it under the root; dependencies are siblings; pins and routes are ids and scopes, and "inherit" is neither; two suffixes glued to one segment differ |
| `StackStrategies` | `StrategyAssumption` | a strategy is single or grouped; the components are listed once each, and every one has a group |
| `Builders`, `AfterBuildHooks` | `BuilderAssumption`, `HooksAssumption` | one builder is there first; what stands for "unset" is no value, and what stands for "the system itself" or "no text" no component or text; hooks are lists of definitions; a scope is not a component key |
| `CreateAlarms`, `AlarmPolicies` | `AlarmCallAssumption`, `PolicyAssumption` | lists are lists, names are sequences of segments, and every definition has its derived id; policies are finitely many; only an action policy adds actions; no policy is installed twice; a tree walk meets an alarm once |
| `LambdaFunction` | `ConfigAssumption`, `SecondsAssumption` | a configuration is one the setters admit (keys of event sources differ; a role is configured through its seam); durations are numbers, unset or a token; the provider's limit leaves the fallback its margin |
| `ZoneRecords` | `ZoneAssumption` | lists are finite; a canonical name and an alias have one target; no token names the apex |
| `ServiceBuild`, `Catalogue` | `ConfigurationsAssumption`, `PlanIdsApart` | what is built is a service of the catalogue with options of its own; the ids within a plan differ, but for keys that are alike, see below |
| `VersionRollout`, `RuleSetActivation`, `TopicPolicies` | `RolloutAssumption`, `ActivationAssumption`, `TopicPolicyAssumption` | retention limits are positive, as the builder validates; the empty slot is no rule set; the walk is not empty and meets each resource once |

**Composition** (`ComposeProofs`, `ComposeScopingProofs`): any tree, any
declarations, pins, routes, calls and bounds.

* `TypeCorrect` – `TypeOK`.
* `FrameInvariant` – the inductive invariant of the loop, because
  `ContextIsFinished` is not inductive: that a dependency is complete *when it
  is put into a context* needs to know which nodes can still change. Its
  conjuncts, besides `TypeOK`: `Upward` (the parent of an entered node was
  entered), `Downward` (what lies under a built node is built), `Apart` (nothing
  is open and built), `Chain` (the open systems form a chain), `DepsBuilt` (the
  dependencies of an entered node are built), `ContextBuilt` (a context holds
  built nodes) and `HooksDone` (the hooks of a built system have run).
* `FinishedContexts` – `ContextIsFinished`, from it.
* `Progress` – `NeverStuck`: the systems compose() accepted are acyclic (an
  invariant of its own), a finite acyclic graph has a node whose
  dependencies are outside any non-empty set, and of the systems that are open
  there is a deepest one.
* `Refinement` – `RefinesSystemBuild`: Init maps to Init, each step to a step or
  a stutter. The case that carries it is `BuildLeaf`: what the leaf depends on
  *through its ancestors* is built, again by the invariant.
* `WalkInvariant` adds what a component was given: the scope, id and context its
  parent derives for it, and `idsByScope` holds exactly the slots of what was
  entered. From it come `LexicalScoping` (`ContextIsLexical`, by induction
  down the tree) and `PinsShield` (`PinShieldsSubtree`).
* `ConstructInvariant` adds what builds leave: in a running build
  constructs are those of the leaves built; each has a slot to itself, and a slot is where *any* repetition of the
  call would put the same construct of the same leaf. From it come `LeavesOnce`
  (`EachLeafOnce`), `NoSilentRetry` (`RetryNeedsFreshScope`), `HandedOutAreTyped`
  (`HandedOutCollisionsAreTyped`) and `UnpinnedAreSpelled`
  (`UnpinnedCollisionsAreSpelled`: without pins an id spells the path of the
  node, so that two derived names can meet only where the paths agree up to the
  last segment). All of it for any `Makes`.
* `HooksAfterEverything` – `HooksSeeEverything`.
* `EveryStepCounts` – each step of a running build throws or lowers a number:
  the nodes still to enter, those still to complete, and the hooks there is
  still room for. With `NeverStuck` this is all of `BuildEnds` but the fairness.
  It needs `MaxHooks`: a hook that registers another each time it runs would
  keep the iterator going in the code, too.

**What is configured** (`ConfigureProofs`): any number of strategies, keys, apps,
hooks, builders and calls.

* `StrategyInvariant`: a strategy remembers stacks of its own making, one per
  group, and whatever it has placed in any build is still remembered. With it
  `OneStackPerGroup` (`SameStackIffSameGroup`), `CopiesAreSnapshots`
  (`CopyIsSnapshot`) and `StacksAreKept` (`StrategyNeverMoves`).
* `HooksInvariant`: on each scope, the tag added last is one that the last hook
  to speak of the scope has for it, and outputs reached are in the tree. With it
  `HooksFollow` (`HooksFollowTheLayout`), for records that stay valid.
* `BuilderInvariant`: every builder has its locations of the heap to itself, the
  caller holds the outer proxy, and each location holds what the accepted calls
  say. With it `CopyIndependence` (`CopiesAreIndependent`) and
  `BuildsReflectCalls` (`BuildReflectsCalls`).

**Alarms** (`AlarmProofs`): any alarms, policies, orders of installation, walks,
and any number of synths, whether they complete or throw.

* `AlarmTypesHold` – types, and that only installed policies have visits left.
* `TextsAreSettled` (`TextSettled`, whatever a `replace()` of another policy
  returns) and `NobodyIsSilent` (`NobodyLeftSilent`):
  in a synth, an alarm already has what a policy wants for it or the visit is
  still on the agenda.
* `ActionsComeOnce` (`ActionsOncePerPolicy`): at any time the count of an action
  is the number of the policies that have both processed the alarm and have the
  action for it.
* `NamesLayer` (`NamesLayerInOrder`): a name is always what the first *k*
  policies at the alarm make of the given name; the others are still on the
  agenda and have marked nothing, and the first *k* have marked the alarm or
  leave every name alone. The agenda keeps the order of the policies at each
  alarm, also across the aspects of an app and of its stacks.

`NoGlobalRules` is the hypothesis of `NobodyIsSilent`, `ActionsComeOnce` and
`NamesLayer`: no
rule has a `RegExp` with the `g` or `y` flag. It is needed, as the violation run
`alarms_regexp` shows (§6); which rules match is otherwise a function of the
alarm.

**Lambda** (`LambdaProofs`): any configuration, context and queues.
`LambdaInvariant` says what each step of `build()` has already settled; from it
`LogsWriterSurvives` (`RoleKeepsLogsWriter`), `WaitsAreSafe`
(`WaitOutlivesHandler`), `TriggerIsLast` (`TriggerComesLast`) and `WarnsAtSynth`
(`WarnsOfFinalValue`).

**Record sets** (`ZoneProofs`): any list of records. Grouping by type and name
partitions the list in the order of first appearances; what a group merges to
depends on its members only, and the properties compare it with the list
reversed. `ZoneInvariant` says that the sets made are those of the groups behind
the loop, and what the earlier build ended with. From it `OneSetEachBuilt`
(`OneSetPerTypeAndName`), `NoContradictionBuilt` (`ContradictionsRefused`),
`OrderDoesNotMatter` (`OrderKeepsContents`) and `EarlyRefusalsOnly`
(`RetryAfterEarlyRefusalOnly`). `AgreedTtlsIgnoreOrder` is what is left of the
sentence `zone_ttl` refutes (§6): lists turned round keep their TTLs when the
records of a type and name give no two different ones.

**Builds of the services** (`ServiceProofs`): any service, any set of its
options, a context that has a ref or not, one repetition. The argument has two
halves.

* *What a plan is.* A part of a plan is graded: it is *early* when it changes
  nothing, *firm* when all it can throw on is in a set `L`, *homely* when the
  result gets nothing foreign but what is in `F`. A plan is `Disciplined` when
  nothing that it can throw on, once it has changed something, is outside what
  its service is known to find late, and, if its factory is tagged, nothing
  foreign is in its result. `Joins` says how grades combine under `\o`, and
  `Whenever` and `FlattenGrades` under an option and a loop. One lemma for
  each builder grades its parts, `AlarmedKnown` says which builders take alarms,
  and `PlansAreDisciplined` collects all 61.
  These lemmas do what TLC does by enumeration, from the order of the parts
  alone: a check that moves behind a construct breaks its builder's lemma. They
  are also what found three plans in which an `IF` without parentheses had
  swallowed the steps behind it.
* *What it is good for.* Taking a step from a disciplined plan leaves a
  disciplined plan, which is firm once something was changed (`TailGrades`).
  `ServiceInvariant` is the inductive invariant: types; what is left of the plan
  is disciplined, and firm if anything was changed; the result is the builder's
  own; and the ids still to come are free, or alike. From it `ServiceTyped`,
  `ThrownBuildRepeats` (`ThrownBuildCanBeRepeated`), `FirstBuildOwnIds`
  (`OwnIdsDistinct`), `FailureLeavesOthers` (`OthersUntouchedByFailure`) and
  `TaggedAtHome` (`TagsStayHome`).

What the second half needs of ids is that two steps of one plan that name a
construct name different ones (`Apart`). An id is a string the code puts
together from parts, and the provers know nothing of the concatenation of
strings. `Catalogue` therefore states it for all plans as `PlanIdsApart`, ids in
`AlikeIds` excepted: a closed statement without constants, about finitely many
plans, which TLC evaluates completely, for every set of the options of every
builder, in the runs of `MCLambda`. The three theorems about builds that fail
rest on it; `services` checks their properties without it.

`PartsTyped` (`ServicesTypeOK`): every behaviour of `MCServices` is one of each
of its five parts, so that what is proved of a part holds in the composition.

**Handlers and topics** (`ServiceProofs`): any number of stacks, versions,
aliases, deployments and failures.

* `ActivationTypes`; `ClearsItsOwn` (`ClearsOnlyItsOwn`): as long as nobody else
  activates, what a deletion saw active is active or the slot is empty.
* `TopicConflicts` (`ConflictsReported`): a claim is held by a resource that
  lists the topic, and behind the walk every topic is claimed.
* `RolloutInvariant`: while the pruner runs the aliases stand still and none
  routes to what it deletes (`PrunerApart`); what is gone has at least the limit
  of newer versions (`GoneIsOld`); what the pruner leaves is within the limit
  (`LeavesLimit`). From it `NeverRefused` (`PrunerNeverRefused`),
  `RetentionHolds` (`RetentionBound`) and `LossNeedsNewer` (`LostOnlyPastLimit`).

**Data.** The library's induction theorems cannot be instantiated here, so a
recursive function is shown to be defined, and to have its value, by the least
counterexample: a non-empty set of naturals has a least element (`MinIsLeast`).
`FlattenDefined` does it for `FlattenSeq`, `DecoratedDefined` and
`NamesDefined` for the layers of a name. What a concatenation holds, the
positions of a set in order, and an array without repetitions
(`DedupeElements`) are lemmas of `CommonLemmas` that the components then cite.

**Model-checked only.** `BuildEnds`: liveness under fairness is outside the
prover's reach; `Progress` and `EveryStepCounts` are its safety part. That the
ids within a plan differ (`PlanIdsApart`), for all plans and all options. The
violated properties of §6, which do not hold.


## 6. Where code and documentation disagree

* `compose_typed` – `build-id.ts:29` says that `compose` throws when a pinned
  id collides. The ids of one `#buildWith` call are compared with each other
  only: when a nested system is pinned on the id of the outer one, a component
  in it can collide with an outer sibling of the same key, and the error is the
  construct tree's.
* `alarms_duplicate` – `create-alarms.ts:13` says that keys are validated before
  alarms are created. They are checked in the loop that creates them.
* `lambda_logs_writer` – `function-builder.ts:350` says that another inline
  policy with the name `LogsWriter` throws. The proxy handed to the configurator
  guards calls on itself only; what such a call returns is the role builder
  behind it, so the second of two chained calls replaces the scoped policy. One
  in the `inlinePolicies` property does not throw either, but has no effect.
* `alarms_regexp` – `policy-matcher.ts:30` says that a `RegExp` is tested against
  the path. With the `g` or `y` flag `test()` starts where the last match ended,
  so every second alarm may be missed.
* `zone_ttl` – the README of route53 (line 476) says that the rule for TTLs keeps
  the merged record set the same however the list is reordered. The first record
  that has a TTL decides, so reordering two records that have different ones
  changes it; for lists without such two it does not (`AgreedTtlsIgnoreOrder`).
* `mail_teardown` – the README of ses (line 81) says that tearing down a stack
  never disables another stack's rule set. The handler looks and clears in two
  calls; a stack that activates its set in between has it cleared.
* `tags_edited` – `tags.ts:64` says that tags are validated inside the hook,
  before any of them is applied. They are validated when `tags()` is called
  (`tags.ts:97`), which keeps the record; the hook (`tags.ts:110`) applies the
  record as it then stands, so a text that came into it in between is applied
  unvalidated.

## 7. Not modelled

Property values, defaults, alarm thresholds, descriptions, wording of errors and
the templates CDK writes. The provider and log group that delegations of several
systems share in one stack (`route53`): which system opts out of logging first
decides for all, and a test documents that as intended
(`cross-account-zone-delegation-builder.test.ts:389`). The expiration guard of
cloudfront and the dead-letter guard of streams. ARNs of inference targets, the
trust policy of GitHub Actions and other pure functions of strings. String constraints
(regular expressions over one string). Type-level checks, such as the required
keys of a dependency record. `dependsOn()`, which only adds edges to the
template. Programs that mutate a component record or a dependency list after
`compose()` has returned. Lint rules, examples and release scripts.

## 8. Running

    tlc -config ComposeOrder.cfg MCCompose.tla
    tlapm ComposeProofs.tla

and likewise for the other runs in `PROJECT.json` and for the other modules with
theorems: `CommonLemmas`, `ComposeScopingProofs`, `ConfigureProofs`,
`LambdaProofs`, `ServiceProofs`, `ZoneProofs` and `AlarmProofs`. The operators whose comments
call them a mutant of another one are not part of the model: each is a plausible
bug, and putting it in the place of the definition it belongs to makes the
property named in `PROJECT.json` fail.
