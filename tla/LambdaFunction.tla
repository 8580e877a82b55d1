--------------------------- MODULE LambdaFunction ---------------------------
(***************************************************************************)
(* The function builder of @composurecdk/lambda: one build() from the      *)
(* check of the role seams to the deployment trigger, then what synth says *)
(* about the queues the function consumes.  build() is one synchronous     *)
(* call, so nothing else moves until it has returned or thrown; queues may *)
(* be reconfigured before it, after it and between two synths.             *)
(***************************************************************************)
EXTENDS Naturals, FiniteSets, Sequences, SequencesExt

CONSTANTS
  Configs,      \* builder configurations to explore, as ConfigAssumption has them
  Contexts,     \* sets of component keys build() may find in its context
  Queues,       \* component keys of SQS queues
  Visibilities, \* values their visibilityTimeout may take
  Capital,      \* capitalize(), for the keys of event sources and alarms
  Unset, Token, \* no value; a value only CloudFormation knows
  Imported,     \* what is known of a queue without an L1
  Provider, Margin, Fallback, \* the constants of invoke-on-deploy.ts, in seconds
  MaxEdits,     \* bound on the reconfigurations of queues
  MaxPasses     \* bound on the synths

Seams == {"role", "configureRole", "useCdkAutoRole"}
Kinds == {"sqs", "dynamodb", "unknown"}
Concrete(v) == v \notin {Unset, Token, Imported}

(* What the setters can have left in a builder.  addEventSource() refuses a *)
(* key it has; a role is only asked for under the seam "role".              *)
ASSUME ConfigAssumption ==
  \A c \in Configs :
    /\ c.seams \subseteq Seams
    /\ c.configurator # <<>> => "configureRole" \in c.seams
    /\ \A i, j \in DOMAIN c.sources : c.sources[i].key = c.sources[j].key => i = j
    /\ \A i \in DOMAIN c.sources : c.sources[i].kind \in Kinds
    /\ \A i \in DOMAIN c.sources : c.sources[i].kind = "sqs" => c.sources[i].of \in Queues
    /\ c.configurator # <<>> => ~c.configurator[1].chained
    /\ c.timeout \in Nat \cup {Unset, Token}
    /\ c.onDeploy # <<>> =>
         DOMAIN c.onDeploy = {1} /\ c.onDeploy[1].wait \in Nat \cup {Unset, Token}

\* A duration is a number of seconds.
ASSUME SecondsAssumption ==
  /\ Unset \notin {Token, Imported} /\ {Unset, Token, Imported} \cap Nat = {}
  /\ Visibilities \subseteq Nat \cup {Unset, Token, Imported}
  /\ Provider \in Nat /\ Margin \in Nat \ {0}
  /\ Fallback \in Nat /\ Fallback + Margin <= Provider

VARIABLES
  cfg,        \* the configuration of the builder
  context,    \* the keys of the context
  step,       \* the next step of build(), "before", "returned" or "threw"
  err,        \* why it threw
  made,       \* the constructs: ids behind the builder's own
  policies,   \* inline policies of the default role: name -> who wrote it
  granted,    \* the resources the role was granted, event sources included
  attached,   \* the event sources bound to the function
  trigger,    \* the custom resource, if made: its wait and what it is ordered after
  warned,     \* warnings on the function
  visibility, \* visibilityTimeout of each queue
  edits, pass

buildVars == <<made, policies, granted, attached, trigger>>
vars == <<cfg, context, step, err, buildVars, warned, visibility, edits, pass>>

Goto(s) == step' = s /\ UNCHANGED err
Throw(e) == step' = "threw" /\ err' = e
Still == UNCHANGED <<cfg, context, visibility, edits, pass>>

Build(ctx) ==
  /\ step = "before"
  /\ context' = ctx
  /\ Goto("seams")
  /\ UNCHANGED <<cfg, buildVars, warned, visibility, edits, pass>>

CheckSeams ==
  /\ step = "seams"
  /\ IF Cardinality(cfg.seams) > 1 THEN Throw("SeamsExclusive") ELSE Goto("logs")
  /\ UNCHANGED <<buildVars, warned>> /\ Still

\* Unless .logGroup() gave one, createLogGroupBuilder() makes it.
BuildLogGroup ==
  /\ step = "logs"
  /\ made' = IF cfg.ownLogs THEN made ELSE made \cup {<<"LogGroup">>}
  /\ Goto("role")
  /\ UNCHANGED <<policies, granted, attached, trigger, warned>> /\ Still

(***************************************************************************)
(* The execution role.  The callback of configureRole() gets the role      *)
(* builder behind a proxy that refuses the name LogsWriter.  A call on the *)
(* callback's argument goes through the proxy; what it returns is the role *)
(* builder itself, so a chained call does not.                             *)
(***************************************************************************)
\* Mutant of Refuses: the role builder is handed over as it is.
RefusesNothing(c) == FALSE
Refuses(c) == c.how = "add" /\ ~c.chained /\ c.name = "LogsWriter"

\* RoleBuilder.build(): policies of the inlinePolicies prop, then those of
\* addInlinePolicyStatements(), of which the last one under a name counts.
Written(calls) ==
  [n \in {"LogsWriter"} \cup {calls[i].name : i \in DOMAIN calls} |->
     IF n = "LogsWriter" /\ \A i \in DOMAIN calls : calls[i].how = "add" => calls[i].name # n
     THEN "builder" ELSE "configurator"]

DefaultRole == cfg.seams \cap {"role", "useCdkAutoRole"} = {}
Calls == IF "configureRole" \in cfg.seams THEN cfg.configurator ELSE <<>>

BuildRole ==
  /\ step = "role"
  /\ IF DefaultRole
     THEN IF \E i \in DOMAIN Calls : Refuses(Calls[i])
          THEN Throw("LogsWriterRefused") /\ UNCHANGED <<made, policies>>
          ELSE /\ made' = made \cup {<<"ExecutionRole">>}
               /\ policies' = Written(Calls)
               /\ Goto("function")
     ELSE /\ IF "role" \in cfg.seams /\ cfg.role \notin context
             THEN Throw("RefUnresolved") ELSE Goto("function")
          /\ UNCHANGED <<made, policies>>
  /\ UNCHANGED <<granted, attached, trigger, warned>> /\ Still

\* environment and environmentEncryption are resolved, then new Function().
BuildFunction ==
  /\ step = "function"
  /\ IF cfg.environment \subseteq context
     THEN made' = made \cup {<<"Function">>} /\ Goto("grants")
     ELSE made' = made /\ Throw("RefUnresolved")
  /\ UNCHANGED <<policies, granted, attached, trigger, warned>> /\ Still

\* GrantQueue.applyTo: up to the first resource that does not resolve.
ApplyGrants ==
  /\ step = "grants"
  /\ LET lost == {i \in DOMAIN cfg.grants : cfg.grants[i] \notin context}
         reach == {i \in DOMAIN cfg.grants : \A j \in lost : i < j} IN
     /\ granted' = granted \cup {cfg.grants[i] : i \in reach}
     /\ IF lost = {} THEN Goto("sources") ELSE Throw("RefUnresolved")
  /\ UNCHANGED <<made, policies, attached, trigger, warned>> /\ Still

(***************************************************************************)
(* Event sources, one by one.  Binding grants the role what consuming      *)
(* takes; a mapping's construct id is derived from the queue or table, so  *)
(* the same one cannot be attached twice.  A source of kind "unknown" is a *)
(* bare IEventSource of CDK.                                               *)
(***************************************************************************)
Source == cfg.sources[Len(attached) + 1]
MoreSources == step = "sources" /\ Len(attached) < Len(cfg.sources)
Bound(s) == \E i \in DOMAIN attached : attached[i].of = s.of

\* What the guard of an SQS source finds: the queue's visibilityTimeout (SQS's
\* default where none is set) against six times the function's timeout (or
\* Lambda's default).
Actual(q) == IF visibility[q] = Unset THEN 30 ELSE visibility[q]
Target == 6 * (IF cfg.timeout = Unset THEN 3 ELSE cfg.timeout)
Comparable(q) == cfg.timeout # Token /\ Concrete(Actual(q))
VisibilityWarnings(sources) ==
  {<<"visibility", s.key, Actual(s.of)>> :
     s \in {x \in sources : Comparable(x.of) /\ Actual(x.of) < Target}}

\* Mutant of AttachSource: the queue is looked at when it is attached.
AttachAndCompare ==
  /\ MoreSources
  /\ Source.of \in context /\ ~Bound(Source)
  /\ attached' = Append(attached, Source)
  /\ granted' = granted \cup {Source.of}
  /\ warned' = warned \cup (IF Source.kind = "sqs" THEN VisibilityWarnings({Source}) ELSE {})
  /\ UNCHANGED <<step, err, made, policies, trigger>> /\ Still

AttachSource ==
  /\ MoreSources
  /\ Source.of \in context /\ ~Bound(Source)
  /\ attached' = Append(attached, Source)
  /\ granted' = granted \cup {Source.of}
  /\ UNCHANGED <<step, err, made, policies, trigger, warned>> /\ Still

AttachSourceThrows ==
  /\ MoreSources
  /\ \/ Source.of \notin context /\ Throw("RefUnresolved")
     \/ Source.of \in context /\ Bound(Source) /\ Throw("ConstructExists")
  /\ UNCHANGED <<buildVars, warned>> /\ Still

(***************************************************************************)
(* Alarms: the recommended ones, then the custom ones, through             *)
(* createAlarms(), which stops at the first key or construct id that is    *)
(* taken and leaves the alarms before it.  A key is a sequence of words.   *)
(***************************************************************************)
On(name) == {"all", name} \cap cfg.disabled = {}
KeysIf(cond, keys) == IF cond THEN keys ELSE <<>>
SourceKeys(s) ==
  KeysIf(s.kind # "unknown",
    KeysIf(On("FailedInvocations"), <<<<s.key, "FailedInvocations">>>>)
      \o KeysIf(On("DroppedEvents"), <<<<s.key, "DroppedEvents">>>>))
AlarmKeys ==
  KeysIf(On("errors"), <<<<"errors">>>>) \o KeysIf(On("throttles"), <<<<"throttles">>>>)
    \o KeysIf(On("duration") /\ Concrete(cfg.timeout), <<<<"duration">>>>)
    \o KeysIf(On("concurrentExecutions") /\ Concrete(cfg.reserved), <<<<"concurrentExecutions">>>>)
    \o FlattenSeq([i \in DOMAIN attached |-> SourceKeys(attached[i])])
    \o KeysIf(On("iteratorAge") /\ \E i \in DOMAIN attached : attached[i].kind = "dynamodb",
            <<<<"iteratorAge">>>>)
    \o cfg.custom
AlarmId(k) == <<"Alarm", <<Capital[Head(k)]>> \o Tail(k)>>

\* A threshold that is a share of a token cannot be computed.
TokenWarnings ==
  {<<w>> : w \in {n \in {"duration", "concurrentExecutions"} :
     On(n) /\ (IF n = "duration" THEN cfg.timeout ELSE cfg.reserved) = Token}}

CreateAlarms ==
  /\ step = "sources" /\ Len(attached) = Len(cfg.sources)
  /\ LET ids == [i \in DOMAIN AlarmKeys |-> AlarmId(AlarmKeys[i])]
         clash == {i \in DOMAIN ids : \E j \in 1..i-1 : ids[j] = ids[i]}
         ok == {i \in DOMAIN ids : \A j \in clash : i < j} IN
     /\ made' = made \cup {ids[i] : i \in ok}
     /\ IF clash = {} THEN Goto("trigger") ELSE Throw("AlarmExists")
  /\ warned' = warned \cup TokenWarnings
  /\ UNCHANGED <<policies, granted, attached, trigger>> /\ Still

(***************************************************************************)
(* The invocation during deployment.                                       *)
(***************************************************************************)
MaxWait == Provider - Margin
Shorter(a, b) == IF a < b THEN a ELSE b
TooLong(o) == Concrete(o.wait) /\ o.wait > MaxWait

\* Mutant of ResolveWait: the margin without the ceiling.
MarginOnly(o) ==
  IF o.wait # Unset THEN o.wait
  ELSE IF Concrete(cfg.timeout) THEN cfg.timeout + Margin ELSE Fallback
ResolveWait(o) ==
  IF o.wait # Unset THEN o.wait
  ELSE IF Concrete(cfg.timeout) THEN Shorter(cfg.timeout + Margin, MaxWait) ELSE Fallback

ShortWait(w) == Concrete(w) /\ Concrete(cfg.timeout) /\ w <= cfg.timeout

\* Mutant of CreateTrigger: made as soon as the function is there.
TriggerBeforeGrants ==
  /\ step = "grants" /\ cfg.onDeploy # <<>> /\ trigger = {}
  /\ trigger' = {[wait |-> ResolveWait(cfg.onDeploy[1]), after |-> {<<"role">>}]}
  /\ UNCHANGED <<step, err, made, policies, granted, attached, warned>> /\ Still

\* createDeploymentTrigger(): the custom resource exists when a ref in `after`
\* turns out not to resolve.
CreateTrigger ==
  /\ step = "trigger" /\ cfg.onDeploy # <<>>
  /\ LET o == cfg.onDeploy[1]
         wait == ResolveWait(o)
         lost == ~(o.after \subseteq context) IN
     IF TooLong(o)
     THEN Throw("WaitTooLong") /\ UNCHANGED <<made, trigger, warned>>
     ELSE /\ trigger' = {[wait |-> wait,
                          after |-> IF lost THEN {} ELSE {<<"role">>} \cup {<<"ref", k>> : k \in o.after}]}
          /\ made' = made \cup {<<"DeploymentTrigger">>}
          /\ warned' = warned \cup (IF ShortWait(wait) THEN {<<"shortWait">>} ELSE {})
          /\ IF lost THEN Throw("RefUnresolved") ELSE Goto("returned")
  /\ UNCHANGED <<policies, granted, attached>> /\ Still

Return ==
  /\ step = "trigger" /\ cfg.onDeploy = <<>>
  /\ Goto("returned")
  /\ UNCHANGED <<buildVars, warned>> /\ Still

(***************************************************************************)
(* The caller reconfigures queues and synthesises the app.  The guard of   *)
(* an SQS source is an aspect, so it looks at the queue at synth.          *)
(***************************************************************************)
Idle == step \in {"before", "returned", "threw"}

EditQueue(q, v) ==
  /\ Idle /\ edits < MaxEdits
  /\ Imported \notin {v, visibility[q]} /\ v # visibility[q]
  /\ visibility' = [visibility EXCEPT ![q] = v]
  /\ edits' = edits + 1
  /\ UNCHANGED <<cfg, context, step, err, buildVars, warned, pass>>

SqsSources == {s \in Range(attached) : s.kind = "sqs"}

Synth ==
  /\ step \in {"returned", "threw"} /\ pass < MaxPasses
  /\ warned' = warned \cup VisibilityWarnings(SqsSources)
  /\ pass' = pass + 1
  /\ UNCHANGED <<cfg, context, step, err, buildVars, visibility, edits>>

Init ==
  /\ cfg \in Configs
  /\ context = {} /\ step = "before" /\ err = "none"
  /\ made = {} /\ policies = <<>> /\ granted = {} /\ attached = <<>> /\ trigger = {}
  /\ warned = {}
  /\ visibility \in [Queues -> Visibilities]
  /\ edits = 0 /\ pass = 0

Next ==
  \/ \E ctx \in Contexts : Build(ctx)
  \/ CheckSeams \/ BuildLogGroup \/ BuildRole \/ BuildFunction \/ ApplyGrants
  \/ AttachSource \/ AttachSourceThrows \/ CreateAlarms \/ CreateTrigger \/ Return
  \/ \E q \in Queues, v \in Visibilities : EditQueue(q, v)
  \/ Synth

Spec == Init /\ [][Next]_vars

(***************************************************************************)
(* Properties.                                                             *)
(***************************************************************************)
Chained == \E i \in DOMAIN Calls : Calls[i].chained

\* The log statements scoped to the function's own log group survive whatever
\* a configurator adds to the default role: an added policy of that name is
\* refused, one in the inlinePolicies property does not win.  Configurators
\* that chain their calls are the subject of SecondLogsWriterThrows.
RoleKeepsLogsWriter ==
  <<"ExecutionRole">> \in made /\ ~Chained => policies["LogsWriter"] = "builder"

\* The doc of configureRole(): another inline policy with the name LogsWriter
\* throws at build time.
SecondLogsWriterThrows ==
  <<"ExecutionRole">> \in made => \A i \in DOMAIN Calls : Calls[i].name # "LogsWriter"

\* Each waits for the next with time to spare: the provider outlives the wait by
\* Margin, and the wait outlives the handler or the caller was warned.
WaitOutlivesHandler ==
  \A t \in trigger :
    Concrete(t.wait) =>
      /\ t.wait + Margin <= Provider
      /\ Concrete(cfg.timeout) => t.wait > cfg.timeout \/ <<"shortWait">> \in warned

\* When the function is invoked, everything the builder gives it exists: nothing
\* is made, granted or attached after the trigger, and a build that returns has
\* ordered the trigger after the role and all the caller named.
TriggerComesLast ==
  [][/\ trigger # {} => UNCHANGED buildVars
     /\ step' = "returned" =>
          \A t \in trigger' :
            {<<"role">>} \cup {<<"ref", k>> : k \in cfg.onDeploy[1].after} \subseteq t.after]_vars

\* Every queue that is too short is warned of with the value it has, and by the
\* first synth no other.
FinalValueWarned ==
  LET short == {s \in SqsSources :
                  /\ cfg.timeout # Token /\ visibility[s.of] \notin {Token, Imported}
                  /\ (IF visibility[s.of] = Unset THEN 30 ELSE visibility[s.of])
                       < (IF cfg.timeout = Unset THEN 18 ELSE 6 * cfg.timeout)}
      told == {w \in warned' : w[1] = "visibility"} IN
  /\ \A s \in short : \E w \in told : w[2] = s.key /\ w[3] = Actual(s.of)
  /\ pass = 0 => \A w \in told : \E s \in short : w[2] = s.key /\ w[3] = Actual(s.of)

\* ADR-0011: the rule of six times the timeout is applied to what the template
\* will say.  A synth warns of every queue that is too short by then, and the
\* first one of no value the queue no longer has.
WarnsOfFinalValue == [][pass' > pass => FinalValueWarned]_vars
=============================================================================
