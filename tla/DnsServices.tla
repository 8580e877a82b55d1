---------------------------- MODULE DnsServices ----------------------------
(***************************************************************************)
(* The builders of route53, the record sets of a zone description apart.   *)
(***************************************************************************)
EXTENDS Plans

(***************************************************************************)
(* Query logging is us-east-1 only.  The resource policy that lets Route   *)
(* 53 write belongs to the stack: every zone of the stack shares it.       *)
(***************************************************************************)
HostedZoneOptions == {"zoneName", "logs", "logsTo", "logsConfigure", "elsewhere"}
ResolveQueryLogging(o) ==
  IF "logs" \notin o THEN <<>>
  ELSE IF "logsTo" \in o THEN When("logsConfigure" \in o, Refuse("configure with logGroupArn"))
  ELSE When("elsewhere" \in o, Refuse("not in us-east-1"))
         \o Make("QueryLogs") \o Share("Stack/QueryLoggingPolicy", FALSE)
HostedZone(o) == Needs(o, "zoneName") \o ResolveQueryLogging(o) \o Make("")

HealthCheckOptions == {"type"} \cup AlarmOptions
HealthCheckAlarmKeys == <<"HealthCheckStatus">>
HealthCheckAlarms(o) == Alarms(o, HealthCheckAlarmKeys)
HealthCheck(o) == Needs(o, "type") \o Make("") \o HealthCheckAlarms(o)

HealthCheckAlarmOptions == {"healthCheck"} \cup AlarmOptions
HealthCheckAlarm(o) ==
  Needs(o, "healthCheck") \o Ref("healthCheck") \o HealthCheckAlarms(o)

(***************************************************************************)
(* The delegation record: a role given by its ARN is imported under the    *)
(* builder's id, one given as a construct stays where it is.  CDK keeps    *)
(* one provider per stack behind all the records of a stack.               *)
(***************************************************************************)
DelegationOptions ==
  {"zone", "role", "roleArn", "parentName", "parentId", "noNameServers", "logsOff"}
CrossAccountZoneDelegation(o) ==
  LET parents == o \cap {"parentName", "parentId"} IN
  Needs(o, "zone")
    \o When(o \cap {"role", "roleArn"} = {}, Refuse("no role"))
    \o When(Cardinality(parents) = 2, Refuse("two parents"))
    \o When(parents = {}, Refuse("no parent"))
    \o Ref("zone")
    \o When("noNameServers" \in o, Refuse("zone without name servers"))
    \o (IF "roleArn" \in o THEN Make("DelegationRole") ELSE Ref("role") \o Hold("role"))
    \o Make("") \o Share("Stack/DelegationProvider", FALSE)
    \o When("logsOff" \notin o, Share("Stack/DelegationProviderLogs", TRUE))

(***************************************************************************)
(* The record builders refuse what is missing in a fixed order, resolve    *)
(* what was given and make one record.                                     *)
(***************************************************************************)
Record(o, needed, refs) ==
  Each(needed, LAMBDA k : Needs(o, k)) \o Each(refs, Ref) \o Make("")

RecordOptions == {"zone", "target", "values", "empty", "domainName", "recordName"}
ARecord(o) == Record(o, <<"zone", "target">>, <<"target", "zone">>)
AaaaRecord(o) == Record(o, <<"zone", "target">>, <<"target", "zone">>)
CnameRecord(o) == Record(o, <<"zone", "domainName", "recordName">>, <<"zone">>)

\* The values of these are literal: an empty list is refused like a missing one.
ListRecord(o) ==
  Needs(o, "zone") \o When("values" \notin o \/ "empty" \in o, Refuse("no values"))
    \o Ref("zone") \o Make("")
TxtRecord(o) == ListRecord(o)
MxRecord(o) == ListRecord(o)
SrvRecord(o) == ListRecord(o)
CaaRecord(o) == ListRecord(o)
SvcbRecord(o) == ListRecord(o)
DsRecord(o) == ListRecord(o)

\* The name servers may be a ref: that they are none shows once it is resolved.
NsRecord(o) ==
  Needs(o, "zone") \o Needs(o, "recordName") \o Needs(o, "values") \o Ref("values")
    \o When("empty" \in o, Refuse("no values"))
    \o Ref("zone") \o Make("")

HttpsRecord(o) ==
  Needs(o, "zone")
    \o When({"values", "empty"} \subseteq o, Refuse("no values"))
    \o When(("values" \in o) = ("target" \in o), Refuse("values and target"))
    \o Given(o, "target") \o Ref("zone") \o Make("")
=============================================================================
