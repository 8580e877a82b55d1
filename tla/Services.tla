------------------------------ MODULE Services ------------------------------
(***************************************************************************)
(* The catalogue: the builder factories the packages export, with the      *)
(* options and the plan of each.                                           *)
(***************************************************************************)
EXTENDS DataServices, MessagingServices, WebServices, DnsServices, ComputeServices,
        AgentServices, AccountServices

OptionsOf ==
  [bucket |-> BucketOptions,
   bucketDeployment |-> BucketDeploymentOptions,
   queue |-> QueueOptions,
   table |-> TableOptions,
   tableV2 |-> TableOptions,
   stream |-> StreamOptions,
   key |-> KeyOptions,
   logGroup |-> LogGroupOptions,
   transactionSearch |-> {},
   topic |-> TopicOptions,
   subscription |-> SubscriptionOptions,
   rule |-> RuleOptions,
   stateMachine |-> StateMachineOptions,
   activity |-> ActivityOptions,
   distribution |-> DistributionOptions,
   cloudFrontAlarm |-> CloudFrontAlarmOptions,
   certificate |-> CertificateOptions,
   restApi |-> RestApiOptions,
   specRestApi |-> SpecRestApiOptions,
   hostedZone |-> HostedZoneOptions,
   healthCheck |-> HealthCheckOptions,
   healthCheckAlarm |-> HealthCheckAlarmOptions,
   delegation |-> DelegationOptions,
   aRecord |-> RecordOptions,
   aaaaRecord |-> RecordOptions,
   cnameRecord |-> RecordOptions,
   txtRecord |-> RecordOptions,
   mxRecord |-> RecordOptions,
   srvRecord |-> RecordOptions,
   caaRecord |-> RecordOptions,
   svcbRecord |-> RecordOptions,
   dsRecord |-> RecordOptions,
   nsRecord |-> RecordOptions,
   httpsRecord |-> RecordOptions,
   vpc |-> VpcOptions,
   securityGroup |-> SecurityGroupOptions,
   interfaceEndpoint |-> InterfaceEndpointOptions,
   volume |-> VolumeOptions,
   instance |-> InstanceOptions,
   cluster |-> ClusterOptions,
   guardrail |-> GuardrailOptions,
   inferenceProfile |-> ApplicationInferenceProfileOptions,
   invocationLogging |-> ModelInvocationLoggingOptions,
   modelAlarm |-> ModelAlarmOptions,
   runtime |-> RuntimeOptions,
   runtimeEndpoint |-> RuntimeEndpointOptions,
   gateway |-> GatewayOptions,
   memory |-> MemoryOptions,
   evaluator |-> EvaluatorOptions,
   onlineEvaluation |-> OnlineEvaluationOptions,
   sessionQuotaAlarm |-> SessionQuotaAlarmOptions,
   role |-> RoleOptions,
   managedPolicy |-> ManagedPolicyOptions,
   oidcProvider |-> OpenIdConnectProviderOptions,
   budget |-> BudgetOptions,
   budgetAlarm |-> BudgetAlarmOptions,
   emailIdentity |-> EmailIdentityOptions,
   receiptRuleSet |-> ReceiptRuleSetOptions,
   receiptFilter |-> ReceiptFilterOptions,
   allowListFilter |-> ReceiptFilterOptions,
   awsCustomResource |-> AwsCustomResourceOptions]

Service == DOMAIN OptionsOf

PlanOf(s, o) ==
  CASE s = "bucket" -> Bucket(o)
    [] s = "bucketDeployment" -> BucketDeployment(o)
    [] s = "queue" -> Queue(o)
    [] s = "table" -> Table(o)
    [] s = "tableV2" -> TableV2(o)
    [] s = "stream" -> Stream(o)
    [] s = "key" -> Key(o)
    [] s = "logGroup" -> LogGroup(o)
    [] s = "transactionSearch" -> TransactionSearch(o)
    [] s = "topic" -> Topic(o)
    [] s = "subscription" -> Subscription(o)
    [] s = "rule" -> Rule(o)
    [] s = "stateMachine" -> StateMachine(o)
    [] s = "activity" -> Activity(o)
    [] s = "distribution" -> Distribution(o)
    [] s = "cloudFrontAlarm" -> CloudFrontAlarm(o)
    [] s = "certificate" -> Certificate(o)
    [] s = "restApi" -> RestApi(o)
    [] s = "specRestApi" -> SpecRestApi(o)
    [] s = "hostedZone" -> HostedZone(o)
    [] s = "healthCheck" -> HealthCheck(o)
    [] s = "healthCheckAlarm" -> HealthCheckAlarm(o)
    [] s = "delegation" -> CrossAccountZoneDelegation(o)
    [] s = "aRecord" -> ARecord(o)
    [] s = "aaaaRecord" -> AaaaRecord(o)
    [] s = "cnameRecord" -> CnameRecord(o)
    [] s = "txtRecord" -> TxtRecord(o)
    [] s = "mxRecord" -> MxRecord(o)
    [] s = "srvRecord" -> SrvRecord(o)
    [] s = "caaRecord" -> CaaRecord(o)
    [] s = "svcbRecord" -> SvcbRecord(o)
    [] s = "dsRecord" -> DsRecord(o)
    [] s = "nsRecord" -> NsRecord(o)
    [] s = "httpsRecord" -> HttpsRecord(o)
    [] s = "vpc" -> Vpc(o)
    [] s = "securityGroup" -> SecurityGroup(o)
    [] s = "interfaceEndpoint" -> InterfaceEndpoint(o)
    [] s = "volume" -> Volume(o)
    [] s = "instance" -> Instance(o)
    [] s = "cluster" -> Cluster(o)
    [] s = "guardrail" -> Guardrail(o)
    [] s = "inferenceProfile" -> ApplicationInferenceProfile(o)
    [] s = "invocationLogging" -> ModelInvocationLogging(o)
    [] s = "modelAlarm" -> ModelAlarm(o)
    [] s = "runtime" -> Runtime(o)
    [] s = "runtimeEndpoint" -> RuntimeEndpoint(o)
    [] s = "gateway" -> Gateway(o)
    [] s = "memory" -> Memory(o)
    [] s = "evaluator" -> Evaluator(o)
    [] s = "onlineEvaluation" -> OnlineEvaluation(o)
    [] s = "sessionQuotaAlarm" -> SessionQuotaAlarm(o)
    [] s = "role" -> Role(o)
    [] s = "managedPolicy" -> ManagedPolicy(o)
    [] s = "oidcProvider" -> OpenIdConnectProvider(o)
    [] s = "budget" -> Budget(o)
    [] s = "budgetAlarm" -> BudgetAlarm(o)
    [] s = "emailIdentity" -> EmailIdentity(o)
    [] s = "receiptRuleSet" -> ReceiptRuleSet(o)
    [] s = "receiptFilter" -> ReceiptFilter(o)
    [] s = "allowListFilter" -> AllowListReceiptFilter(o)
    [] s = "awsCustomResource" -> AwsCustomResource(o)

\* The factories that wrap their builder with taggedBuilder(); the resources of
\* the others have no tags.
Untagged ==
  {"aRecord", "aaaaRecord", "cnameRecord", "txtRecord", "mxRecord", "srvRecord", "caaRecord",
   "svcbRecord", "dsRecord", "nsRecord", "httpsRecord", "delegation", "managedPolicy",
   "oidcProvider", "budget", "emailIdentity", "receiptRuleSet", "receiptFilter",
   "allowListFilter", "awsCustomResource", "subscription", "rule", "transactionSearch"}
Tagged == Service \ Untagged

\* The builders with addAlarm(); those of them that make nothing but alarms.
Alarmed == {s \in Service : AddAlarm \subseteq OptionsOf[s]}
AlarmsOnly == {"modelAlarm", "cloudFrontAlarm", "healthCheckAlarm", "budgetAlarm"}

\* The ids derived from keys that differ in the case of their first letter.
AlikeIds(o) ==
  {id \in {"Custom" \o "Alarm"} : {"custom", "Custom"} \subseteq o}
    \cup {id \in {"SubSubscription"} : {"sub", "Sub"} \subseteq o}
    \cup {id \in {"Data.volumeStalledIo" \o "Alarm"} : {"data", "Data"} \subseteq o}
=============================================================================
