---------------------------- MODULE WebServices ----------------------------
(***************************************************************************)
(* The builders in front of the others: cloudfront, acm and apigateway.    *)
(***************************************************************************)
EXTENDS Plans

(***************************************************************************)
(* cloudfront.  "fn" and "fn2" are functions of the default behavior,      *)
(* "twice" gives both the same event, "oldRuntime" lets the second one use *)
(* a key-value store its runtime has not; "behavior" is an additional path *)
(* pattern with an origin and one function of its own.                     *)
(***************************************************************************)
DistributionOptions ==
  {"origin", "certificate", "logsOff", "logsTo", "logsConfigure", "fn", "fn2",
   "twice", "oldRuntime", "behavior"} \cup AlarmOptions
DistributionAlarmKeys == <<"ErrorRate", "OriginLatency">>
BehaviorFunctionAlarmKeys == <<"ExecutionErrors", "ValidationErrors", "Throttles">>

\* behaviorFunctionKeyPrefix(): the scopes of the functions a configuration has.
BehaviorFunctions(o) ==
  When("fn" \in o, <<"DefaultBehaviorViewerRequest">>)
    \o When({"fn", "fn2"} \subseteq o, <<"DefaultBehaviorViewerResponse">>)
    \o When("behavior" \in o, <<"BehaviorApiSlashStarViewerRequest">>)

ResolveBehaviors(o) ==
  LET Fn(f) == Make(f \o "Fn") IN
  When({"fn", "fn2", "twice"} \subseteq o, Refuse("two functions for one event"))
    \o When("fn" \in o, Fn("DefaultBehaviorViewerRequest"))
    \o When({"fn", "fn2"} \subseteq o,
            When("oldRuntime" \in o, Refuse("key-value store without its runtime"))
              \o Fn("DefaultBehaviorViewerResponse"))
    \o When("behavior" \in o, Ref("behaviorOrigin") \o Fn("BehaviorApiSlashStarViewerRequest"))

\* "logsConfigure" gives the bucket a custom alarm, which its result holds and
\* the distribution's does not.
DistributionLogs(o) ==
  IF "logsOff" \in o THEN <<>>
  ELSE IF "logsTo" \in o THEN When("logsConfigure" \in o, Refuse("configure with destination"))
  ELSE Make("AccessLogs") \o When("logsConfigure" \in o, AlarmInside("AccessLogsCustom"))

CloudFrontAlarms(o) ==
  Unmeasured(o) \o Recommended(o, DistributionAlarmKeys)
    \o AlarmsOf(o, "", FlattenSeq([i \in DOMAIN BehaviorFunctions(o) |->
         [j \in 1..3 |-> BehaviorFunctions(o)[i] \o BehaviorFunctionAlarmKeys[j]]]))
    \o Custom(o)

Distribution(o) ==
  Needs(o, "origin") \o Ref("origin")
    \o Given(o, "certificate")
    \o DistributionLogs(o)
    \o ResolveBehaviors(o)
    \o Make("") \o CloudFrontAlarms(o)

\* The alarms of a distribution of another stack.
CloudFrontAlarmOptions == {"distribution", "fn"} \cup AlarmOptions
CloudFrontAlarm(o) ==
  Needs(o, "distribution") \o Ref("distribution") \o CloudFrontAlarms(o)

(***************************************************************************)
(* acm.                                                                    *)
(***************************************************************************)
CertificateOptions == {"domainName", "validation", "zone", "zones"} \cup AlarmOptions
CertificateAlarmKeys == <<"DaysToExpiry">>
CertificateAlarms(o) == Alarms(o, CertificateAlarmKeys)
Certificate(o) ==
  LET ways == o \cap {"validation", "zone", "zones"} IN
  Needs(o, "domainName")
    \o When(Cardinality(ways) > 1, Refuse("two ways to validate"))
    \o When(ways = {}, Refuse("no validation"))
    \o When(ways \cap {"zone", "zones"} # {}, Ref("zone"))
    \o Make("") \o CertificateAlarms(o)

(***************************************************************************)
(* apigateway.  Methods and resources are children of the api; their       *)
(* integrations are resolved once the api exists.                          *)
(***************************************************************************)
RestApiOptions == {"logsOff", "method", "resource"} \cup AlarmOptions
RestApiAlarmKeys == <<"ClientError", "ServerError", "Latency">>
RestApiAlarms(o) == Alarms(o, RestApiAlarmKeys)
ResolveDeployOptions(o) == When("logsOff" \notin o, Make("AccessLogs"))

ApplyResources(o) ==
  When("method" \in o, Ref("integration") \o Make("/GET"))
    \o When("resource" \in o,
            Make("/Default/item") \o Ref("itemIntegration") \o Make("/Default/item/GET"))

RestApi(o) == ResolveDeployOptions(o) \o Make("") \o ApplyResources(o) \o RestApiAlarms(o)

\* The definition is resolved first: a placeholder that appears nowhere in the
\* specification throws out of the ref.
SpecRestApiOptions == {"definition", "strayPlaceholder", "logsOff"} \cup AlarmOptions
SubstituteSpec(o) == When("strayPlaceholder" \in o, Refuse("placeholder appears nowhere"))

\* Mutant of SpecRestApi: the log group first, as RestApi has it.
SpecRestApiLogsFirst(o) ==
  Needs(o, "definition") \o ResolveDeployOptions(o)
    \o Ref("definition") \o SubstituteSpec(o) \o Make("") \o RestApiAlarms(o)
SpecRestApi(o) ==
  Needs(o, "definition") \o Ref("definition") \o SubstituteSpec(o)
    \o ResolveDeployOptions(o) \o Make("") \o RestApiAlarms(o)
=============================================================================
