---------------------------- MODULE ServiceBuild ----------------------------
(***************************************************************************)
(* build() of one service builder, and a second call in the same scope     *)
(* when the first has thrown: the caller supplies what was missing, or     *)
(* changes one option.  The steps are those of the builder's plan, in the  *)
(* order of the code, and each may throw; nobody catches inside build()    *)
(* and nothing is rolled back.  When build() has returned, taggedBuilder() *)
(* puts the builder's tags on what the result holds.                       *)
(***************************************************************************)
EXTENDS Services

CONSTANT Configurations     \* the builders and options tried: <<service, options>>

ASSUME ConfigurationsAssumption ==
  \A c \in Configurations : c[1] \in Service /\ c[2] \subseteq OptionsOf[c[1]]

VARIABLES
  service, options,         \* the builder
  todo,                     \* the steps of its plan that are left
  made,                     \* the constructs in the scope, by the suffix of their id
  result,                   \* the constructs the result holds, own and others'
  touched,                  \* other components' resources that were changed
  tagged,                   \* the constructs tagged
  outcome,                  \* "idle", "building", "built", "thrown"
  why,                      \* what each attempt threw
  left                      \* the constructs the first attempt left behind

serviceVars ==
  <<service, options, todo, made, result, touched, tagged, outcome, why, left>>

-----------------------------------------------------------------------------
CallServiceBuild(s, o) ==
  /\ service' = s /\ options' = o /\ todo' = PlanOf(s, o)
  /\ outcome' = "building" /\ result' = {}

NoService ==
  /\ service = "none" /\ options = {} /\ todo = <<>> /\ outcome = "idle"
  /\ made = {} /\ result = {} /\ touched = {} /\ tagged = {} /\ why = <<>> /\ left = {}

FirstBuild ==
  /\ outcome = "idle"
  /\ \E c \in Configurations : CallServiceBuild(c[1], c[2])
  /\ UNCHANGED <<made, touched, tagged, why, left>>

Doing(kinds) == outcome = "building" /\ todo # <<>> /\ Head(todo).do \in kinds
Here == Head(todo).what
KeptHere == IF Head(todo).kept THEN {Here} ELSE {}
Advance == todo' = Tail(todo) /\ UNCHANGED <<service, options, tagged, outcome, why, left>>
Throw(cause) ==
  /\ outcome' = "thrown" /\ why' = Append(why, <<cause, Here>>)
  /\ UNCHANGED <<service, options, todo, made, result, touched, tagged, left>>

\* resolve(): the component the ref names is in the context, or it is not.
ResolveRef == Doing({"ref"}) /\ Advance /\ UNCHANGED <<made, result, touched>>
RefThrows == Doing({"ref"}) /\ why = <<>> /\ Throw("ref")

RefuseStep == Doing({"refuse"}) /\ Throw("refuse")

\* An id that is taken among the children of the scope throws.
MakeStep ==
  /\ Doing({"make", "alarm"}) /\ Here \notin made
  /\ made' = made \cup {Here} /\ result' = result \cup KeptHere
  /\ Advance /\ UNCHANGED touched
IdTaken == Doing({"make", "alarm"}) /\ Here \in made /\ Throw("taken")

\* tryFindChild(): made by an earlier component of the stack, or made now.
ShareStep ==
  /\ Doing({"share"})
  /\ made' \in {made, made \cup {Here}} /\ result' = result \cup KeptHere
  /\ Advance /\ UNCHANGED touched

HoldStep ==
  /\ Doing({"hold"})
  /\ result' = result \cup {Here}
  /\ Advance /\ UNCHANGED <<made, touched>>

TouchStep ==
  /\ Doing({"touch"})
  /\ touched' = touched \cup {Here}
  /\ Advance /\ UNCHANGED <<made, result>>

\* buildFn of wrapTagged(): the tags go on after the inner build().
ReturnResult ==
  /\ outcome = "building" /\ todo = <<>>
  /\ outcome' = "built"
  /\ tagged' = IF service \in Tagged THEN result ELSE {}
  /\ UNCHANGED <<service, options, todo, made, result, touched, why, left>>

\* The caller of build() catches and tries again: with the missing component
\* in the context, or with one option more or less.
Repair ==
  IF why[1][1] = "ref" THEN {options}
  ELSE {IF x \in options THEN options \ {x} ELSE options \cup {x} : x \in OptionsOf[service]}

SecondBuild ==
  /\ outcome = "thrown" /\ Len(why) = 1
  /\ \E o \in Repair : CallServiceBuild(service, o)
  /\ left' = made
  /\ UNCHANGED <<made, touched, tagged, why>>

ServiceNext ==
  \/ FirstBuild \/ ResolveRef \/ RefThrows \/ RefuseStep \/ MakeStep \/ IdTaken
  \/ ShareStep \/ HoldStep \/ TouchStep \/ ReturnResult \/ SecondBuild

ServiceSpec == NoService /\ [][ServiceNext]_serviceVars

-----------------------------------------------------------------------------
ServiceTypeOK ==
  /\ outcome \in {"idle", "building", "built", "thrown"}
  /\ outcome # "idle" => service \in Service /\ options \subseteq OptionsOf[service]
  /\ left \subseteq made
  /\ tagged \subseteq result
  /\ Len(why) <= 2

\* What a builder finds out after it has made a construct, and what it throws
\* then: the ref, or the refusal.
FoundLate ==
  [bucket |-> {"key"}, queue |-> {"no threshold for an alarm asked for"},
   topic |-> {"subscription", "SubSubscription"}, rule |-> {"target"},
   stateMachine |-> {"definitionSubstitutions", "role", "encryptionConfiguration", "granted"},
   distribution |-> {"behaviorOrigin", "two functions for one event",
                     "key-value store without its runtime"},
   restApi |-> {"integration", "itemIntegration"},
   vpc |-> {"zones and their number"}, securityGroup |-> {"peer"},
   interfaceEndpoint |-> {"access"}, 
   instance |-> {"granted", "data", "Data", "logs", "volume in another zone",
                 "Data.volumeStalledIo" \o "Alarm"},
   cluster |-> {"groups", "key", "access"},
   guardrail |-> {"no threshold"}, invocationLogging |-> {"bucket"},
   runtime |-> {"role", "environmentVariables", "granted", "no threshold"},
   runtimeEndpoint |-> {"no threshold"},
   gateway |-> {"targetFunction", "no threshold"},
   onlineEvaluation |-> {"granted", "score of no evaluator"},
   role |-> {"granted"}, budget |-> {"alarm currency"},
   emailIdentity |-> {"dkimZone", "mxZone"}, receiptRuleSet |-> {"bucket", "key"},
   awsCustomResource |-> {"dependsOn"}]

\* What createAlarms() refuses once it has made an alarm, and what is noticed as
\* soon as a definition is resolved: late unless all the builder makes are alarms.
LateAlarms(s) ==
  (IF s \in Alarmed THEN {"alarm key", "Custom" \o "Alarm"} ELSE {})
    \cup (IF s \in Alarmed \ AlarmsOnly THEN {"alarm without metric"} ELSE {})
Late(s) == (IF s \in DOMAIN FoundLate THEN FoundLate[s] ELSE {}) \cup LateAlarms(s)

(***************************************************************************)
(* A builder checks what it was given, and resolves what it refers to,     *)
(* before it makes the first construct: a build that threw can be repeated *)
(* in its scope, and throws on no id of its own unless it was given two    *)
(* keys that are alike.  Late names what is noticed too late, builder by   *)
(* builder; spec-rest-api-builder.ts:114 states the intent.                *)
(***************************************************************************)
ThrownBuildCanBeRepeated ==
  why # <<>> /\ why[1][2] \notin Late(service) =>
    left = {} /\ \A i \in DOMAIN why : why[i][1] = "taken" => why[i][2] \in AlikeIds(options)

(***************************************************************************)
(* A first build throws on an id only where the program gave two keys that *)
(* differ in the case of their first letter: of an alarm, of a             *)
(* subscription, of a volume of an instance.  They are two keys to the     *)
(* method that takes them and one id to the builder.  With any other       *)
(* options no two constructs of a builder get one id.  (The keys a program *)
(* chooses spell none of the suffixes the builder itself appends, and no   *)
(* alarm is given a construct id.)                                         *)
(***************************************************************************)
OwnIdsDistinct ==
  outcome = "thrown" /\ Len(why) = 1 /\ why[1][1] = "taken" => why[1][2] \in AlikeIds(options)

(***************************************************************************)
(* A build that throws has changed no resource of another component, for a *)
(* caller that repairs and repeats it would change it twice.  Excepted is  *)
(* what is found late.                                                     *)
(***************************************************************************)
OthersUntouchedByFailure ==
  outcome = "thrown" /\ Len(why) = 1 /\ touched # {} => why[1][2] \in Late(service)

\* What is not of the builder's making and in the result of a tagged one: a
\* role, a key or a parameter group it was given, a log group of the stack.
Foreign(s) ==
  CASE s = "stateMachine" -> {"role", "Stack/VersionPrunerLogs"}
    [] s = "onlineEvaluation" -> {"role"}
    [] s = "stream" -> {"key"}
    [] s = "cluster" -> {"parameterGroup"}
    [] OTHER -> {}

(***************************************************************************)
(* The tags of a builder land on constructs of its own, except where its   *)
(* result holds one it was given (a role, a key, a parameter group) or one *)
(* the stack shares: those carry the tags of whichever build came last.    *)
(***************************************************************************)
TagsStayHome ==
  outcome = "built" => tagged \subseteq made \cup Foreign(service)
=============================================================================
