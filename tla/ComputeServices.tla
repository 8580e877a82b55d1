-------------------------- MODULE ComputeServices --------------------------
(***************************************************************************)
(* The builders of the network and of what runs in it: ec2 and neptune.    *)
(***************************************************************************)
EXTENDS Plans

(***************************************************************************)
(* ec2.  Flow logs are on unless switched off, with a log group of their   *)
(* own unless a destination is given; availability zones and a number of   *)
(* them exclude each other.                                                *)
(***************************************************************************)
VpcOptions == {"logsOff", "logsTo", "logsConfigure", "zones", "maxAzs"}
ResolveFlowLogs(o) ==
  IF "logsOff" \in o THEN <<>>
  ELSE IF "logsTo" \in o THEN When("logsConfigure" \in o, Refuse("configure with destination"))
  ELSE Make("FlowLogsLogGroup")
Vpc(o) ==
  ResolveFlowLogs(o)
    \o When({"zones", "maxAzs"} \subseteq o, Refuse("zones and their number"))
    \o Make("")

SecurityGroupOptions == {"vpc", "description", "badDescription", "badName", "peer", "self"}

\* A rule that names another security group becomes a child of this one.
SecurityGroup(o) ==
  Needs(o, "vpc") \o Ref("vpc")
    \o Needs(o, "description")
    \o When("badDescription" \in o, Refuse("description"))
    \o When("badName" \in o, Refuse("name"))
    \o Make("") \o Given(o, "peer")

InterfaceEndpointOptions == {"vpc", "service", "groups", "access"} \cup AlarmOptions
InterfaceEndpointAlarmKeys == <<"PacketsDropped">>
InterfaceEndpointAlarms(o) == Alarms(o, InterfaceEndpointAlarmKeys)

\* Opening the default port adds a rule to the endpoint's own security group.
InterfaceEndpoint(o) ==
  Needs(o, "vpc") \o Ref("vpc") \o Needs(o, "service")
    \o When({"groups", "access"} \subseteq o, Refuse("access to groups of others"))
    \o (IF "groups" \in o THEN Ref("groups") ELSE Make("Sg"))
    \o Make("") \o Given(o, "access")
    \o InterfaceEndpointAlarms(o)

VolumeOptions == {"zone", "key", "burstable"} \cup AlarmOptions
VolumeAlarmKeys == <<"BurstBalance">>
VolumeAlarms(o) ==
  Unmeasured(o) \o When("burstable" \in o, Recommended(o, VolumeAlarmKeys)) \o Custom(o)
Volume(o) ==
  Needs(o, "zone") \o Ref("zone") \o Given(o, "key") \o Make("") \o VolumeAlarms(o)

(***************************************************************************)
(* An instance's volumes are attached one by one: whether a volume is in   *)
(* the instance's zone is known when its ref is resolved, after the volume *)
(* before it was attached.  All attachment alarms come after the last one, *)
(* with a capital in front of the key: "Data" is a volume whose key        *)
(* differs from "data" in that letter only.                                *)
(***************************************************************************)
InstanceOptions ==
  {"vpc", "group", "grant", "burstable", "data", "Data", "logs", "otherZone"} \cup AlarmOptions
InstanceAlarmKeys(o) ==
  <<"CpuUtilization", "StatusCheckFailed", "AttachedEbsStatusCheckFailed">>
    \o When("burstable" \in o, <<"CpuCreditBalance">>)
InstanceAlarms(o) == Alarms(o, InstanceAlarmKeys(o))

AttachVolume(key, elsewhere) ==
  Ref(key) \o When(elsewhere, Refuse("volume in another zone")) \o Make(key \o "Attachment")
CreateVolumeAttachments(o) ==
  When("data" \in o, AttachVolume("data", FALSE))
    \o When("Data" \in o, AttachVolume("Data", FALSE))
    \o When("logs" \in o, AttachVolume("logs", "otherZone" \in o))
    \o When("data" \in o, Alarm("Data.volumeStalledIo"))
    \o When("Data" \in o, Alarm("Data.volumeStalledIo"))
    \o When("logs" \in o, Alarm("Logs.volumeStalledIo"))

Instance(o) ==
  Needs(o, "vpc") \o Ref("vpc")
    \o Given(o, "group")
    \o Make("") \o Grants(o)
    \o InstanceAlarms(o) \o CreateVolumeAttachments(o)

(***************************************************************************)
(* neptune.  A parameter group that is given is not changed by the builder *)
(* and belongs to another component; the subnet group is a child of the    *)
(* cluster.                                                                *)
(***************************************************************************)
ClusterOptions ==
  {"vpc", "instanceType", "group", "parameters", "groups", "key", "access", "serverless"}
    \cup AlarmOptions
ClusterAlarmKeys(o) ==
  <<"CpuUtilization", "MainRequestQueuePendingRequests", "BufferCacheHitRatio",
    "ClusterReplicaLag">>
    \o When("serverless" \in o, <<"ServerlessDatabaseCapacity">>)
ClusterAlarms(o) == Alarms(o, ClusterAlarmKeys(o))

Cluster(o) ==
  Needs(o, "vpc") \o Ref("vpc") \o Needs(o, "instanceType")
    \o When({"group", "parameters"} \subseteq o, Refuse("parameters of a given group"))
    \o When("group" \notin o, Make("ParameterGroup"))
    \o Given(o, "groups") \o Given(o, "key")
    \o Make("") \o When("group" \in o, Hold("parameterGroup"))
    \o Given(o, "access")
    \o ClusterAlarms(o)
=============================================================================
