------------------------- MODULE MessagingServices -------------------------
(***************************************************************************)
(* The builders that move messages and run workflows: sns, events and      *)
(* stepfunctions.                                                          *)
(***************************************************************************)
EXTENDS Plans

(***************************************************************************)
(* sns.  A subscription is bound to the topic once the topic and its       *)
(* alarms exist.  bind() may open the endpoint to the topic ("endpoint": a *)
(* queue, a function), and a dead-letter queue encrypted with a customer's *)
(* key makes bindSubscription() write to that key's policy; the            *)
(* subscription itself comes last.  The keys "sub" and "Sub" are two keys  *)
(* to addSubscription() and give one id.                                   *)
(***************************************************************************)
TopicOptions == {"key", "sub", "Sub", "endpoint", "dlqKey"} \cup AlarmOptions
TopicAlarmKeys ==
  <<"NumberOfNotificationsFailed", "NumberOfNotificationsFilteredOutInvalidAttributes",
    "NumberOfNotificationsRedrivenToDlq", "NumberOfNotificationsFailedToRedriveToDlq">>
TopicAlarms(o) == Alarms(o, TopicAlarmKeys)
BindSubscription(o, suffix) ==
  When("endpoint" \in o, Touch("endpoint")) \o When("dlqKey" \in o, Touch("dlqKey"))
    \o Make(suffix)
AddedSubscription(o, key) ==
  When(key \in o, Ref("subscription") \o BindSubscription(o, "SubSubscription"))

\* Mutant of Topic: the result hands on the key it was given.
TopicHoldsKey(o) ==
  Given(o, "key")
    \o Make("") \o When("key" \in o, Hold("key")) \o TopicAlarms(o)
    \o AddedSubscription(o, "sub") \o AddedSubscription(o, "Sub")
Topic(o) ==
  Given(o, "key")
    \o Make("") \o TopicAlarms(o)
    \o AddedSubscription(o, "sub") \o AddedSubscription(o, "Sub")

SubscriptionOptions == {"topic", "sub", "endpoint", "dlqKey"}
Subscription(o) ==
  Needs(o, "topic") \o Needs(o, "sub")
    \o Ref("topic") \o Ref("subscription") \o BindSubscription(o, "")

(***************************************************************************)
(* events.  Adding a target lets the rule invoke it; the alarms look for   *)
(* dead-letter queues on the rule, so they are made after the targets.     *)
(***************************************************************************)
RuleOptions == {"schedule", "pattern", "bus", "target", "dlq"} \cup AlarmOptions
RuleAlarmKeys ==
  <<"FailedInvocations", "ThrottledRules", "InvocationsSentToDlq",
    "InvocationsFailedToBeSentToDlq">>
RuleAlarms(o) ==
  LET watched == IF {"target", "dlq"} \subseteq o THEN 4 ELSE 2 IN
  Alarms(o, SubSeq(RuleAlarmKeys, 1, watched))

Rule(o) ==
  When(o \cap {"schedule", "pattern"} = {}, Refuse("neither schedule nor pattern"))
    \o Given(o, "bus")
    \o Given(o, "pattern")
    \o Make("")
    \o When("target" \in o, Ref("target") \o Touch("target"))
    \o RuleAlarms(o)

(***************************************************************************)
(* stepfunctions.  The states of a definition live under a construct of    *)
(* their own that the result does not hold; the version pruner's provider  *)
(* and its log group belong to the stack.                                  *)
(***************************************************************************)
StateMachineOptions ==
  {"definition", "body", "timeout", "logsOff", "definitionSubstitutions", "role",
   "encryptionConfiguration", "grant", "publish", "badRetain", "alias", "gradual", "badAlias",
   "express"} \cup AlarmOptions
StateMachineAlarmKeys(o) ==
  <<"ExecutionsFailed", "ExecutionsTimedOut">>
    \o When("express" \notin o, <<"ExecutionThrottled">>)

ResolveWorkflow(o) ==
  IF {"definition", "body"} \subseteq o THEN Refuse("definition and definitionBody")
  ELSE IF o \cap {"definition", "body"} # {} THEN Ref("workflow")
  ELSE Refuse("no workflow")

ValidateVersioning(o) ==
  When("alias" \in o /\ "publish" \notin o, Refuse("alias without publishVersion"))
    \o When({"publish", "badRetain"} \subseteq o, Refuse("retain"))
    \o When({"alias", "badAlias"} \subseteq o, Refuse("alias name or deployment"))

\* A gradual deployment comes with rollback alarms; they are made first.
Alias(o) ==
  When("gradual" \in o,
       Alarm("AliasLiveExecutionsFailed") \o Alarm("AliasLiveExecutionsTimedOut"))
    \o Make("AliasLive")

BuildVersioning(o) ==
  When("publish" \in o,
       Make("Version") \o When("alias" \in o, Alias(o))
         \o Share("Stack/VersionPrunerLogs", TRUE) \o Share("Stack/VersionPruner", FALSE)
         \o Make("VersionPruner"))

\* "body" is no chain: CDK cannot write a timeout into it, so none is asked for.
StateMachine(o) ==
  ResolveWorkflow(o)
    \o When("definition" \in o /\ o \cap {"timeout", "express"} = {}, Refuse("no timeout"))
    \o ValidateVersioning(o)
    \o When("logsOff" \notin o, Make("Logs"))
    \o When("definition" \in o, MakeInside("Definition"))
    \o Given(o, "definitionSubstitutions") \o Given(o, "role")
    \o Given(o, "encryptionConfiguration")
    \o Make("") \o When("role" \in o, Hold("role"))
    \o Grants(o)
    \o Alarms(o, StateMachineAlarmKeys(o))
    \o BuildVersioning(o)

ActivityOptions == {"key"} \cup AlarmOptions
ActivityAlarmKeys == <<"ActivitiesFailed", "ActivitiesTimedOut", "ActivitiesHeartbeatTimedOut">>
Activity(o) == Given(o, "key") \o Make("") \o Alarms(o, ActivityAlarmKeys)
=============================================================================
