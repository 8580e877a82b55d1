---------------------------- MODULE AlarmPolicies ----------------------------
(***************************************************************************)
(* The policies of @composurecdk/cloudwatch and @composurecdk/             *)
(* cloudformation that work on alarms when the app is synthesised:         *)
(* alarmActionsPolicy, alarmNamePolicy and templateTextPolicy.  Each is an *)
(* Aspect on a scope, so it meets alarms created before and after it was   *)
(* installed, those a failed createAlarms() left behind included, and it   *)
(* meets them again when the app is synthesised again.                     *)
(***************************************************************************)
EXTENDS CreateAlarms, FiniteSets

CONSTANTS
  Policies,       \* policies: each a call of one of the three functions
  Kind,           \* "actions", "names" or "text", for each policy
  At,             \* the scope it is installed on: "app", or a stack
  Defaults,       \* its defaults: added actions, prefix, suffix
  Rules,          \* its rules, in order
  Skip,           \* skipIfAlreadyConfigured
  TextMode,       \* onViolation: "throw", "warn" or "sanitize", this one under the
                  \* name "replace" where a replace() is given that may return
                  \* text which is not ASCII either
  UserAlarms,     \* alarms made without createAlarms: path -> name
  UserActions,    \* actions the user may attach to an alarm of the tree
  Composite,      \* the paths of composite alarms
  Bare,           \* the paths of CfnAlarms without an L2 parent
  TextOf,         \* the description of the alarm at each path
  TreeOrders,     \* orders in which a tree walk may meet the alarms
  Programs,       \* the lists of policies programs install
  MaxPasses       \* bound on the number of times the app is synthesised

\* Options, names, programs and walks are lists; only alarmActionsPolicy has
\* actions to add; a program installs each policy once, and a walk meets each
\* alarm once.
ASSUME PolicyAssumption ==
  /\ IsFiniteSet(Policies)
  /\ \A p \in Policies :
       /\ Rules[p] \in Seq(ToSet(Rules[p]))
       /\ \A layer \in ToSet(Rules[p]) \cup {Defaults[p]} :
            /\ layer.adds \in Seq(ToSet(layer.adds))
            /\ Kind[p] # "actions" => layer.adds = <<>>
            /\ IsName(layer.prefix) /\ IsName(layer.suffix)
            /\ layer.scratch = NoName \/ IsName(layer.scratch)
  /\ \A a \in DOMAIN UserAlarms : UserAlarms[a] = NoName \/ IsName(UserAlarms[a])
  /\ \A list \in Programs \cup TreeOrders : list \in Seq(ToSet(list)) /\ IsInjective(list)

VARIABLES
  actions,    \* the actions of each alarm, in order: <<alarm state, action>>
  given,      \* the name it was created with
  text,       \* its description: "literal", "lazy" or "intrinsic", and ASCII or not
  installed,  \* the policies, in the order they were installed
  processed,  \* the WeakSet of each policy
  lastIndex,  \* the lastIndex of the RegExp of each rule
  agenda,     \* the visits left in this pass, and who they are of
  pass,       \* passes started
  phase       \* "open", "synth", "done" or "failed"

policyVars == <<actions, given, text, installed, processed, lastIndex, agenda, pass, phase>>
alarmVars == <<createVars, policyVars>>

RuleIds == UNION {{p} \X DOMAIN Rules[p] : p \in Policies}
Reaches(p, a) == At[p] \in {"app", a[1]}

(***************************************************************************)
(* Before synth: createAlarms() and its callers, the user's own alarms and *)
(* actions, and the installation of policies, in any order.                *)
(***************************************************************************)
Open == phase = "open"

\* A new alarm has no action and the name and description it is given.
Appears(paths) ==
  LET with(f, of) == [a \in DOMAIN f \cup paths |-> IF a \in DOMAIN f THEN f[a] ELSE of[a]] IN
  /\ actions' = with(actions, [a \in paths |-> <<>>])
  /\ given' = with(given, tree')
  /\ text' = with(text, TextOf)

BuilderStep ==
  /\ Open
  /\ CreateNext
  /\ Appears(DOMAIN tree' \ DOMAIN tree)
  /\ UNCHANGED <<installed, processed, lastIndex, agenda, pass, phase>>

AddAlarm(a) ==
  /\ Open /\ status # "creating"
  /\ a \notin DOMAIN tree
  /\ tree' = Bind(tree, a, UserAlarms[a])
  /\ Appears({a})
  /\ UNCHANGED <<call, next, alarms, status, reason,
                 installed, processed, lastIndex, agenda, pass, phase>>

AddAction(a, x) ==
  /\ Open /\ status # "creating"
  /\ a \in DOMAIN tree \ Bare
  /\ \A b \in DOMAIN tree : actions[b] = <<>>   \* bound: one such action
  /\ actions' = [actions EXCEPT ![a] = Append(@, x)]
  /\ UNCHANGED <<createVars, given, text, installed, processed, lastIndex, agenda, pass, phase>>

Install(p) ==
  /\ Open /\ status # "creating"
  /\ \E program \in Programs : IsPrefix(Append(installed, p), program)
  /\ installed' = Append(installed, p)
  /\ UNCHANGED <<createVars, actions, given, text, processed, lastIndex, agenda, pass, phase>>

(***************************************************************************)
(* Synth: the aspects of the app, then those of the stack, at each alarm.  *)
(***************************************************************************)
PoliciesAt(a) ==
  Chosen(installed, {i \in DOMAIN installed : At[installed[i]] = "app"})
    \o Chosen(installed, {i \in DOMAIN installed : At[installed[i]] # "app" /\ Reaches(installed[i], a)})

Visits(order) ==
  FlattenSeq([i \in DOMAIN order |->
                [j \in DOMAIN PoliciesAt(order[i]) |->
                   [alarm |-> order[i], policy |-> PoliciesAt(order[i])[j]]]])

\* A walk meets every alarm of the tree.
Synth(order) ==
  /\ phase \in {"open", "done", "failed"} /\ status # "creating"
  /\ pass < MaxPasses /\ DOMAIN tree \subseteq ToSet(order)
  /\ agenda' = Visits(Chosen(order, {i \in DOMAIN order : order[i] \in DOMAIN tree}))
  /\ pass' = pass + 1
  /\ phase' = "synth"
  /\ UNCHANGED <<createVars, actions, given, text, installed, processed, lastIndex>>

\* The visit at the head of the agenda, by a policy of the given kind.
Visiting(kind) == phase = "synth" /\ agenda # <<>> /\ Kind[Head(agenda).policy] = kind
Alarm == Head(agenda).alarm
Policy == Head(agenda).policy
NextVisit == agenda' = Tail(agenda) /\ UNCHANGED phase

\* A visit that throws ends the pass: no other policy sees anything more.
SynthThrows == agenda' = <<>> /\ phase' = "failed"

\* ruleMatches: the scoping flags first, then the matcher.  A RegExp with the
\* global flag tests from lastIndex on, and moves it: behind the match (taken to
\* be one character long), or back to the start.
InScope(r, a) == r.only = "any" \/ (r.only = "composite") = (a \in Composite)
Finds(r, a, from) == a \in DOMAIN r.found /\ (r.global => r.found[a] >= from)
Hits(p, a) == {i \in DOMAIN Rules[p] : /\ InScope(Rules[p][i], a)
                                       /\ Finds(Rules[p][i], a, lastIndex[<<p, i>>])}
MoveIndexes(p, a) ==
  lastIndex' = [r \in RuleIds |->
    IF r[1] # p \/ ~Rules[p][r[2]].global \/ ~InScope(Rules[p][r[2]], a) THEN lastIndex[r]
    ELSE IF r[2] \in Hits(p, a) THEN Rules[p][r[2]].found[a] + 1 ELSE 0]

\* Mutant of Seen: no WeakSet.
NeverSeen(p, a) == FALSE
Seen(p, a) == a \in processed[p]

\* Mutant of Configured: an action for any alarm state counts.
ConfiguredAnyhow(a) == actions[a] # <<>>
\* skipIfAlreadyConfigured looks at alarmActions alone.
Configured(a) == \E i \in DOMAIN actions[a] : actions[a][i][1] = "alarm"

\* The rules that matched, in order, after the defaults unless one of them
\* replaces those.
Matched(p, hits) == Chosen(Rules[p], hits)
Replaced(p, hits) == \E i \in hits : Rules[p][i].replace

\* Mutant of Layers: the rules come first, then the defaults.
RulesFirst(p, hits) ==
  Matched(p, hits) \o IF Replaced(p, hits) THEN <<>> ELSE <<Defaults[p]>>
Layers(p, hits) ==
  (IF Replaced(p, hits) THEN <<>> ELSE <<Defaults[p]>>) \o Matched(p, hits)

Added(p, hits) ==
  Dedupe(FlattenSeq([i \in DOMAIN Layers(p, hits) |-> Layers(p, hits)[i].adds]))

\* decorate(), or the rule's transform, layer by layer.
Decorate(name, r) == IF r.scratch # NoName THEN r.scratch ELSE r.prefix \o name \o r.suffix
Decorated(name, layers) ==
  LET after[n \in 0..Len(layers)] ==
        IF n = 0 THEN name ELSE Decorate(after[n - 1], layers[n])
  IN after[Len(layers)]
Renamed(name, p, hits) == Decorated(name, Layers(p, hits))

\* A bare CfnAlarm, an alarm this policy has done, or one it was told to skip.
PassedOver(p, a) == a \in Bare \/ Seen(p, a) \/ (Skip[p] /\ Configured(a))

VisitActions ==
  /\ Visiting("actions")
  /\ ~PassedOver(Policy, Alarm)
  /\ actions' = [actions EXCEPT ![Alarm] = @ \o Added(Policy, Hits(Policy, Alarm))]
  /\ processed' = [processed EXCEPT ![Policy] = @ \cup {Alarm}]
  /\ MoveIndexes(Policy, Alarm)
  /\ NextVisit
  /\ UNCHANGED <<createVars, given, text, installed, pass>>

\* No name to decorate: unset, or an intrinsic that resolves at deploy time.
Nameless(p, a) == Seen(p, a) \/ tree[a] = NoName
NewName == Renamed(tree[Alarm], Policy, Hits(Policy, Alarm))

\* Mutant of Readable: a Lazy is skipped like any other token.
LiteralsOnly(t) == t.form = "literal"
\* concrete(): an intrinsic has no text to check, a Lazy has the one it gives.
Readable(t) == t.form # "intrinsic"

VisitPassesOver ==
  /\ \/ Visiting("actions") /\ PassedOver(Policy, Alarm)
     \/ Visiting("names") /\ Nameless(Policy, Alarm)
     \/ Visiting("text") /\ ~Readable(text[Alarm])
     \/ Visiting("text") /\ TextMode[Policy] = "warn"      \* annotated only
     \/ Visiting("text") /\ TextMode[Policy] = "throw" /\ text[Alarm].ascii
  /\ NextVisit
  /\ UNCHANGED <<createVars, actions, given, text, installed, processed, lastIndex, pass>>

\* An alarm whose name comes out as it went in is not marked as processed.
VisitKeepsName ==
  /\ Visiting("names") /\ ~Nameless(Policy, Alarm)
  /\ NewName = tree[Alarm]
  /\ MoveIndexes(Policy, Alarm)
  /\ NextVisit
  /\ UNCHANGED <<createVars, actions, given, text, installed, processed, pass>>

VisitRenames ==
  /\ Visiting("names") /\ ~Nameless(Policy, Alarm)
  /\ NewName # tree[Alarm] /\ ValidName(NewName)
  /\ tree' = [tree EXCEPT ![Alarm] = NewName]
  /\ processed' = [processed EXCEPT ![Policy] = @ \cup {Alarm}]
  /\ MoveIndexes(Policy, Alarm)
  /\ NextVisit
  /\ UNCHANGED <<call, next, alarms, status, reason, actions, given, text, installed, pass>>

VisitRefusesName ==
  /\ Visiting("names") /\ ~Nameless(Policy, Alarm)
  /\ NewName # tree[Alarm] /\ ~ValidName(NewName)
  /\ MoveIndexes(Policy, Alarm)
  /\ SynthThrows
  /\ UNCHANGED <<createVars, actions, given, text, installed, processed, pass>>

\* What sanitizeTemplateText() leaves of a text, with ASCII stand-ins or not.
Written(t, ascii) == IF t.ascii THEN t ELSE [form |-> "literal", ascii |-> ascii]

VisitSanitizes ==
  /\ Visiting("text") /\ TextMode[Policy] \in {"sanitize", "replace"} /\ Readable(text[Alarm])
  /\ \E ascii \in IF TextMode[Policy] = "sanitize" THEN {TRUE} ELSE BOOLEAN :
       text' = [text EXCEPT ![Alarm] = Written(@, ascii)]
  /\ NextVisit
  /\ UNCHANGED <<createVars, actions, given, installed, processed, lastIndex, pass>>

VisitRefusesText ==
  /\ Visiting("text") /\ TextMode[Policy] = "throw"
  /\ Readable(text[Alarm]) /\ ~text[Alarm].ascii
  /\ SynthThrows
  /\ UNCHANGED <<createVars, actions, given, text, installed, processed, lastIndex, pass>>

SynthDone ==
  /\ phase = "synth" /\ agenda = <<>>
  /\ phase' = "done"
  /\ UNCHANGED <<createVars, actions, given, text, installed, processed, lastIndex, agenda, pass>>

AlarmInit ==
  /\ CreateInit
  /\ actions = <<>> /\ given = <<>> /\ text = <<>>
  /\ installed = <<>>
  /\ processed = [p \in Policies |-> {}]
  /\ lastIndex = [r \in RuleIds |-> 0]
  /\ agenda = <<>> /\ pass = 0 /\ phase = "open"

AlarmNext ==
  \/ BuilderStep
  \/ \E a \in DOMAIN UserAlarms : AddAlarm(a)
  \/ \E a \in DOMAIN tree, x \in UserActions : AddAction(a, x)
  \/ \E p \in Policies : Install(p)
  \/ \E order \in TreeOrders : Synth(order)
  \/ VisitActions \/ VisitPassesOver \/ VisitKeepsName \/ VisitRenames
  \/ VisitRefusesName \/ VisitSanitizes \/ VisitRefusesText \/ SynthDone

AlarmSpec == AlarmInit /\ [][AlarmNext]_alarmVars
-----------------------------------------------------------------------------
(***************************************************************************)
(*                               Properties                                *)
(***************************************************************************)

\* Which rules match, by the path of the alarm alone, and what applies then.
ByPath(p, a) == {i \in DOMAIN Rules[p] : InScope(Rules[p][i], a) /\ a \in DOMAIN Rules[p][i].found}
DefaultsApply(p, a) == \A i \in ByPath(p, a) : ~Rules[p][i].replace
Contribution(p, a) ==
  (UNION {ToSet(Rules[p][i].adds) : i \in ByPath(p, a)})
    \cup (IF DefaultsApply(p, a) THEN ToSet(Defaults[p].adds) ELSE {})
Covering(kind, a) == {p \in ToSet(installed) : Kind[p] = kind /\ Reaches(p, a)}
Count(s, x) == Cardinality({i \in DOMAIN s : s[i] = x})

(* However often the app is synthesised, an alarm gets each action a policy *)
(* has for it once from that policy, on top of what the user attached: the  *)
(* WeakSet of alarm-actions-policy.ts, and dedupe() within one visit.       *)
ActionsOncePerPolicy ==
  \A a \in DOMAIN tree : \A x \in ToSet(actions[a]) :
    LET givers == {p \in Policies : a \in processed[p] /\ x \in Contribution(p, a)} IN
    \E own \in IF x \in UserActions THEN {0, 1} ELSE {0} :
      Count(actions[a], x) = own + Cardinality(givers)

(* skipIfAlreadyConfigured, whatever the order policies come in and whoever *)
(* attached what, never leaves an alarm silent that a policy has an alarm   *)
(* action for.                                                              *)
NobodyLeftSilent ==
  phase = "done" =>
    \A a \in DOMAIN tree \ Bare :
      (\E p \in Covering("actions", a) : \E x \in Contribution(p, a) : x[1] = "alarm")
        => \E i \in DOMAIN actions[a] : actions[a][i][1] = "alarm"

\* What the name policies of a list make of a name, one after the other.
LayersFor(p, a) ==
  (IF DefaultsApply(p, a) THEN <<Defaults[p]>> ELSE <<>>) \o Chosen(Rules[p], ByPath(p, a))
NamesAfter(name, ps, a) ==
  LET after[n \in 0..Len(ps)] ==
        IF n = 0 THEN name
        ELSE IF Kind[ps[n]] = "names" THEN Decorated(after[n - 1], LayersFor(ps[n], a))
        ELSE after[n - 1]
  IN after
ExpectedName(a) == NamesAfter(given[a], PoliciesAt(a), a)[Len(PoliciesAt(a))]
\* No policy rewrites the name of an alarm from scratch.
Plain(a) ==
  \A p \in Covering("names", a) : \A i \in DOMAIN LayersFor(p, a) :
    LayersFor(p, a)[i].scratch = NoName

(* Name policies layer: those of the app inside those of the stack, in the  *)
(* order of installation, each with its defaults inside its rules, once per *)
(* alarm and also after a second synth.  Only a transform can come out with *)
(* the name it was given, so that its policy is asked again, and then undo  *)
(* what later policies made of it.                                          *)
NamesLayerInOrder ==
  phase = "done" =>
    \A a \in DOMAIN tree :
      tree[a] # NoName /\ (pass = 1 \/ Plain(a)) => tree[a] = ExpectedName(a)

(* A synth that completes leaves no text CloudFormation would alter under a *)
(* policy that throws, or sanitizes with ASCII stand-ins, whatever other    *)
(* policies make of it; the exceptions are intrinsics.                      *)
TextSettled ==
  phase = "done" =>
    \A a \in DOMAIN tree : \A p \in Covering("text", a) :
      TextMode[p] \in {"throw", "sanitize"} => text[a].form = "intrinsic" \/ text[a].ascii

(* What policy-matcher.ts:30 says: a RegExp is "tested against path".  So   *)
(* every alarm whose path it matches gets the actions of its rule.          *)
RegExpTestedAgainstPath ==
  phase = "done" =>
    \A a \in DOMAIN tree \ Bare : \A p \in Covering("actions", a) :
      ~Skip[p] => \A i \in ByPath(p, a) : ToSet(Rules[p][i].adds) \subseteq ToSet(actions[a])
=============================================================================
