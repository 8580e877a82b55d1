--------------------------- MODULE AgentServices ---------------------------
(***************************************************************************)
(* The builders of bedrock and bedrockagentcore.                           *)
(***************************************************************************)
EXTENDS Plans

(***************************************************************************)
(* Alarms of which some are made only when the program asks for them       *)
(* ("ask"): they have no threshold of their own, so asking without one     *)
(* ("askBare") is refused while the definitions are collected, before any  *)
(* alarm is made.  The options of addAlarm() are in added: an endpoint a   *)
(* runtime adds has none.  A quota is a number the program gives.          *)
(***************************************************************************)
ThresholdAlarms(o, owner, keys, optIn, added) ==
  LET on == Each(keys, LAMBDA k : When(k \notin o, <<k>>)) \o When("ask" \in o, <<optIn>>) IN
  When("quiet" \notin o /\ "askBare" \in o, Refuse("no threshold"))
    \o Unmeasured(added) \o AlarmsOf(o, owner, on) \o Custom(added)

(***************************************************************************)
(* bedrock.  The version of a guardrail is named after a fingerprint of    *)
(* its configuration, so a changed guardrail gets a new version.           *)
(***************************************************************************)
GuardrailOptions == {"name", "key", "ask", "askBare"} \cup AlarmOptions
GuardrailAlarms(o) == ThresholdAlarms(o, "", <<>>, "InvocationLatency", o)
Guardrail(o) ==
  Needs(o, "name") \o Given(o, "key") \o Make("") \o Make("Version") \o GuardrailAlarms(o)

ApplicationInferenceProfileOptions == {"name", "source"}
ApplicationInferenceProfile(o) ==
  Needs(o, "name") \o Needs(o, "source") \o Ref("source") \o Make("")

\* The large-data bucket is resolved once the log group and the role exist; its
\* policy lets the service write.
ModelInvocationLoggingOptions == {"bucket", "logsConfigure", "quiet"}
ModelInvocationLoggingAlarmKeys(o) ==
  <<"CloudWatchDeliveryFailure">> \o When("bucket" \in o, <<"LargeDataS3DeliveryFailure">>)
ModelInvocationLoggingAlarms(o) == Recommended(o, ModelInvocationLoggingAlarmKeys(o))
ModelInvocationLogging(o) ==
  When("logsConfigure" \in o, Ref("logsKey")) \o Make("LogGroup")
    \o Make("Role")
    \o When("bucket" \in o, Ref("bucket") \o Touch("bucket"))
    \o Make("Configuration")
    \o ModelInvocationLoggingAlarms(o)

ModelAlarmOptions == {"model", "ask", "askBare", "quota", "badQuota"} \cup AlarmOptions
ModelAlarmKeys == <<"InvocationThrottles", "InvocationServerErrors", "InvocationClientErrors">>
ModelAlarms(o) ==
  LET keys == ModelAlarmKeys \o When("quota" \in o, <<"EstimatedTpmQuotaUsage">>) IN
  When("quiet" \notin o /\ {"quota", "badQuota"} \subseteq o, Refuse("quota"))
    \o ThresholdAlarms(o, "", keys, "TimeToFirstToken", o)
ModelAlarm(o) == Needs(o, "model") \o Ref("model") \o ModelAlarms(o)

(***************************************************************************)
(* bedrockagentcore.  An endpoint of a runtime gets a log retention, an    *)
(* imported log group and alarms; so does the default endpoint, last.      *)
(***************************************************************************)
RuntimeOptions ==
  {"artifact", "vpc", "network", "groups", "role", "environmentVariables", "grant", "endpoint",
   "askBare"} \cup AlarmOptions
RuntimeAlarmKeys == <<"SystemErrors", "Throttles", "UserErrors">>
EndpointObservability(o, name, added) ==
  Make(name \o "LogRetention") \o Make(name \o "LogGroup")
    \o ThresholdAlarms(o, name, RuntimeAlarmKeys, "Latency", added)

RuntimeNetwork(o) ==
  When({"vpc", "network"} \subseteq o, Refuse("vpc and network"))
    \o When(o \cap {"vpc", "network"} = {}, Refuse("no network"))
    \o Given(o, "vpc") \o Given(o, "groups")
    \o When("vpc" \in o /\ "groups" \notin o, Make("Sg"))

Runtime(o) ==
  Needs(o, "artifact") \o RuntimeNetwork(o)
    \o Given(o, "role") \o Given(o, "environmentVariables")
    \o Make("") \o Grants(o)
    \o When("endpoint" \in o, Make("/live") \o EndpointObservability(o, "live", {}))
    \o EndpointObservability(o, "", o)

RuntimeEndpointOptions == {"runtime", "name", "ask", "askBare"} \cup AlarmOptions
RuntimeEndpoint(o) ==
  Needs(o, "runtime") \o Needs(o, "name") \o Ref("runtime")
    \o Make("") \o EndpointObservability(o, "", o)

\* A key that encrypts the gateway is opened to the gateway's role, whichever
\* role that is, before the gateway exists.
GatewayOptions == {"key", "role", "target", "ask", "askBare"} \cup AlarmOptions
GatewayAlarmKeys == <<"SystemErrors", "Throttles">>
GatewayAlarms(o) == ThresholdAlarms(o, "", GatewayAlarmKeys, "TargetExecutionTime", o)

\* Mutant of Gateway: the role of the service is opened the key beforehand.
GatewayKeyFirst(o) ==
  When("key" \in o, Ref("key") \o Touch("key"))
    \o (IF "role" \in o THEN Ref("role") ELSE MakeInside("ServiceRole"))
    \o Make("")
Gateway(o) ==
  Given(o, "key")
    \o (IF "role" \in o THEN Ref("role") ELSE MakeInside("ServiceRole"))
    \o When("key" \in o, Touch("key"))
    \o Make("")
    \o When("target" \in o, Ref("targetFunction") \o Make("/target"))
    \o GatewayAlarms(o)

MemoryOptions == {"key", "role"} \cup AddAlarm
Memory(o) ==
  Given(o, "key") \o Given(o, "role") \o Make("") \o Unmeasured(o) \o Custom(o)

EvaluatorOptions == {"name", "level", "judge", "code", "config"}
Evaluator(o) ==
  When("code" \in o /\ "judge" \notin o, Ref("function"))
    \o When(~({"name", "level"} \subseteq o) \/ Cardinality(o \cap {"judge", "code", "config"}) # 1,
            Refuse("name and level and one kind"))
    \o Make("")

\* A score alarm names one of the evaluators; which ones there are is known when
\* they are resolved.
OnlineEvaluationOptions ==
  {"name", "evaluators", "source", "role", "grant", "score", "strayScore"} \cup AddAlarm
OnlineEvaluationAlarms(o) ==
  When({"score", "strayScore"} \subseteq o, Refuse("score of no evaluator"))
    \o Unmeasured(o) \o When("score" \in o, Alarm("Helpfulness")) \o Custom(o)
OnlineEvaluation(o) ==
  When(~({"name", "evaluators", "source"} \subseteq o), Refuse("name and evaluators and source"))
    \o Ref("source") \o Ref("evaluators")
    \o (IF "role" \in o THEN Ref("role") ELSE Make("ExecutionRole"))
    \o Make("") \o When("role" \in o, Hold("role"))
    \o Grants(o) \o OnlineEvaluationAlarms(o)

SessionQuotaAlarmOptions == {"runtime", "browser", "codeInterpreter", "badQuota"}
SessionQuotaAlarm(o) ==
  When("badQuota" \in o /\ o # {"badQuota"}, Refuse("quota"))
    \o Each(<<"runtime", "browser", "codeInterpreter">>, LAMBDA s : When(s \in o, Alarm(s)))
=============================================================================
